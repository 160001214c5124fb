SPECIFICATION Spec
CONSTANT App = {a1}
INVARIANTS NoWaitCycle MutexIsFirst
