SPECIFICATION Spec
CONSTANTS
    Alarms = {a1, a2, a3}
    NoAlarm = NoAlarm
    Ids = {1, 2}
    MaxPosts = 4
    NoReply = TRUE
INVARIANT NoReplyIsHarmless
