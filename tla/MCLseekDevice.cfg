SPECIFICATION Spec
CONSTANTS
    Threads = {t1, t2, t3}
    Files = {f1, f2}
    BUFSIZE = 2
    LoffMax = 7
INVARIANTS TypeOK InBounds
PROPERTY TransfersStayInside
