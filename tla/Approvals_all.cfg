SPECIFICATION FairSpec
CONSTANTS
    Call = {c1}
    Key = {k1}
    NoCall = NoCall
    NoKey = NoKey
    MaxAborts = 2
    MaxEdits = 1
INVARIANTS
    Consistent
    RunsOnlyIfAllowed
    AnswerDecides
    LedgerAgrees
PROPERTIES
    EveryCallEnds
CHECK_DEADLOCK FALSE
