SPECIFICATION FairSpec
CONSTANTS
    Writers = {w1, w2}
    Blocking = {r1}
    Nonblock = {r2}
    KbufCells = 1
INVARIANTS TypeOK NoLostWakeup NonblockNeverSleeps WokenReadsAll
PROPERTIES LatchesMessages BlockedReturns PollerReads
