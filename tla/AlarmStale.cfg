SPECIFICATION AlarmSpec
CONSTANTS
    Callbacks = {a1}
    NoCallback = NoCallback
    NoMessage = NoMessage
    Delays <- MCDelays
    TicksPerMs = 1
    IdLimit = 4
    MaxTime = 1
PROPERTY NoStaleCallback
