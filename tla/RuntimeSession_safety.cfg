SPECIFICATION Spec
CONSTANTS
    Turn = {t1, t2}
    Shell = {s1}
    Abort = {a1}
    Steer = {v1}
    NoSub = NoSub
    EventCap = 1
    Pythons = {"3.11"}
SYMMETRY Symmetry
INVARIANTS
    Consistent
    ExactlyOnePlace
    TurnsBeginInOrder
    AbortsHitEarlierTurn
PROPERTIES
    ImplementsTurnService
CHECK_DEADLOCK FALSE
