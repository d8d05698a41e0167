SPECIFICATION FairSpec
CONSTANTS
    Turn = {t1}
    Shell = {s1}
    Abort = {a1, a2}
    Steer = {}
    NoSub = NoSub
    EventCap = 1
    Pythons = {"3.11"}
PROPERTIES
    TurnsServed
    AbortsOvertakeTurn
    StopReturns
CHECK_DEADLOCK FALSE
