SPECIFICATION FairSpec
CONSTANTS
    IdLimit = 2
    MaxQueue = 1
    Env = {"overlap", "nofunc", "disconnect"}
PROPERTIES DisconnectHappens WrittenRequestsEnd Reconnects LogoutIsFinal
