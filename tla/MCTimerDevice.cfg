SPECIFICATION FairSpec
CONSTANT Procs = {p1, p2}
INVARIANTS TypeOK CleanNeverCrashes TicksWhileOpen GarbageNeverArmed
PROPERTY SetTakesEffect
CHECK_DEADLOCK FALSE
