SPECIFICATION FairSpec
CONSTANTS
    Call = {}
    Chat = {s1}
    MaxSpawns = 3
INVARIANTS
    Consistent
    NoOrphan
    StopIsFinal
PROPERTIES
    StartReturns
CHECK_DEADLOCK FALSE
