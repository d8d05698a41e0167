SPECIFICATION FairSpec
CONSTANTS
    Message = {m1, m2}
    Command = {s1}
    Thread = {ta, tb}
    Courses = {{}, {"error", "quiet"}, {"threads", "quiet"}}
    MaxInterrupts = 1
INVARIANTS
    Consistent
    OneTurnPerThread
    InterruptHitsNamed
    OwnVerdict
PROPERTIES
    Progress
CHECK_DEADLOCK FALSE
