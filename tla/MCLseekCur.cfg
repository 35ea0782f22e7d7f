SPECIFICATION Spec
CONSTANTS
    Threads = {t1, t2}
    Files = {f1, f2}
    BUFSIZE = 2
    LoffMax = 7
PROPERTY SeekCurMovesByOffset
