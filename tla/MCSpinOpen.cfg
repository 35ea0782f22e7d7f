SPECIFICATION FairSpec
CONSTANTS
    Procs = {p1, p2, p3}
    KbufCells = 2
    NoOwner = NoOwner
INVARIANTS TypeOK KbufIsMine
PROPERTIES ExclusiveDevice OpenReturns
