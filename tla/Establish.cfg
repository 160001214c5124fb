SPECIFICATION EstablishFairSpec
CONSTANTS
    MaxCalls = 2
    MaxIps = 2
    PipeFails = TRUE
    N = 3
    MaxConnect = 2
    Timeout = 7
    Interval = 3
    ErrorInterval = 0
    Second = 2
    Early = FALSE
INVARIANTS
    EstablishTypeOK NoLostAnswer SignalledAnswer
    OnlyTheWinnerStays NotTooMany AttemptsEndInTime FailsOnlyIfAllFail
    EveryIpTried
PROPERTIES ResolveEnds RaceEnds FailedNeverWins
CHECK_DEADLOCK FALSE
