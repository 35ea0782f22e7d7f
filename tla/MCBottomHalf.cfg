SPECIFICATION FairSpec
CONSTANT CPUs = {c1, c2}
INVARIANTS BottomTypeOK OnlyKnownCrashes
PROPERTIES Served DeferredByHandlers
CHECK_DEADLOCK FALSE
