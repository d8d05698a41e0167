SPECIFICATION FairSpec
CONSTANTS
    Sender = {m1}
    Job = {once, often}
    OneShot = {once}
    Caller = {m1, once, often}
    MaxSlips = 1
    MaxEdits = 2
    MaxCrashes = 1
INVARIANTS
    Consistent
    AnswerIsOwn
    JobsKept
    OneShotOnce
PROPERTIES
    Progress
CHECK_DEADLOCK FALSE
