SPECIFICATION Spec
CONSTANTS
    IdLimit = 3
    MaxQueue = 1
    Env = {"kickout"}
INVARIANT KickoutIsFinal
