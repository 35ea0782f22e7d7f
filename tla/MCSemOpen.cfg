SPECIFICATION FairSpec
CONSTANTS
    Procs = {p1, p2, p3}
    KbufCells = 2
INVARIANTS TypeOK KbufIsMine OneToken
PROPERTIES ExclusiveDevice NoOvertaking OpenReturns
