SPECIFICATION FairSpec
CONSTANTS
    Writers = {w1, w2}
    Blocking = {r1}
    Nonblock = {r2}
    KbufCells = 2
INVARIANT PollinMeansData
