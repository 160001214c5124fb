SPECIFICATION AlarmFairSpec
CONSTANTS
    Callbacks = {a1, a2}
    NoCallback = NoCallback
    NoMessage = NoMessage
    Delays <- MCDelays
    TicksPerMs = 1
    IdLimit = 4
    MaxTime = 1
INVARIANTS AlarmTypeOK WaitingHasMessage
PROPERTY WaitingEnds
