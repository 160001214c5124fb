SPECIFICATION FairSpec
CONSTANTS
    Callbacks = {c1}
    NoCallback = NoCallback
    NoMessage = NoMessage
    Delays <- MCDelays
    TicksPerMs = 2
    IdLimit = 4
    MaxTime = 2
INVARIANTS TypeOK Sorted NoLostWakeup AliveIsPending
PROPERTIES TimerSpec EveryTimerEnds
