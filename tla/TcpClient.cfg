SPECIFICATION Spec
CONSTANTS
    IdLimit = 2
    MaxQueue = 2
    Env = {"noreply", "nofunc", "kickout", "nonet", "pipefail"}
INVARIANTS TypeOK WriteHoldsHead NoLostWakeup SignalIsThere TimeoutHasCallback
PROPERTIES SomeoneAnswers
