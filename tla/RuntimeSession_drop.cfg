SPECIFICATION Spec
CONSTANTS
    Turn = {t1, t2}
    Shell = {s1}
    Abort = {}
    Steer = {}
    NoSub = NoSub
    EventCap = 1
    Pythons = {"3.12"}
INVARIANTS
    NoSilentDrop
CHECK_DEADLOCK FALSE
