SPECIFICATION Spec
CONSTANTS
    Alarms = {a1, a2}
    NoAlarm = NoAlarm
    Ids = {1, 2}
    MaxPosts = 3
    NoReply = TRUE
INVARIANTS TypeOK OneOwner RecordedWillRing TimeoutIsItsOwn
