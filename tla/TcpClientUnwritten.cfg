SPECIFICATION Spec
CONSTANTS
    IdLimit = 3
    MaxQueue = 1
    Env = {}
INVARIANT NobodyLeftWaiting
