SPECIFICATION FairSpec
CONSTANTS
    Req = {r1, r2}
    NoReq = NoReq
    AbortTurn = AbortTurn
    MaxAborts = 2
    MaxProgress = 1
    Courses = {{"overlap", "silence", "error", "warning", "mute"},
               {"silence", "error", "mute", "job"}}
PROPERTIES
    EverySendSettled
    LockIsFreed
CHECK_DEADLOCK FALSE
