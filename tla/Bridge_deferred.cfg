SPECIFICATION Spec
CONSTANTS
    Call = {c1}
    Chat = {s1}
    MaxSpawns = 2
INVARIANT DeferredIsTriggered
CHECK_DEADLOCK FALSE
