SPECIFICATION FairSpec
CONSTANTS
    Request = {p1, p2, p3}
    Session = {s1}
    Account = {A, B}
    Unknown = Unknown
    NoOne = NoOne
    MaxSwitches = 2
INVARIANTS
    Consistent
    NoLeakedRuntime
PROPERTIES
    AnsweredFromOwnAccount
    AnsweredWithLive
    RequestsReturn
CHECK_DEADLOCK FALSE
