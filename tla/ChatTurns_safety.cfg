SPECIFICATION Spec
CONSTANTS
    Req = {r1, r2, r3}
    NoReq = NoReq
    AbortTurn = AbortTurn
    MaxAborts = 3
    MaxProgress = 1
    Courses = {{"rush"}, {"rush", "silence", "mute"},
               {"silence", "stale", "mute"}, {"rush", "silence", "stale", "mute"},
               {"error", "warning"}}
SYMMETRY Symmetry
INVARIANTS
    Consistent
    SettledByOwnTurn
CHECK_DEADLOCK FALSE
