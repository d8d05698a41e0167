SPECIFICATION FairSpec
CONSTANTS
    Agent = {a1, a2}
    MaxConcurrent = 1
    MaxRestarts = 1
INVARIANTS
    Consistent
    AtMostMaxRun
    ReportTrue
PROPERTIES
    HungJobEnds
CHECK_DEADLOCK FALSE
