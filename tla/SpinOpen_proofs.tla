---------------------------- MODULE SpinOpen_proofs ----------------------------
(***************************************************************************)
(* Proofs about SpinOpen, for any set of processes and any size of kbuf:   *)
(* the type invariant, mutual exclusion together with the exclusive use of *)
(* kbuf, and the refinement of ExclusiveOpen.                              *)
(***************************************************************************)
EXTENDS SpinOpen, GuardedDevice_proofs

(* Between spin_lock and spin_unlock. *)
Locked == {"open_locked", "open_free", "open_taken", "open_busy",
           "release_locked", "release_cleared"}

Has(p) == pc[p] \in HoldsDevice

(* The spinlock is held by the process between its lock and its unlock.    *)
LockHeld == \A p \in Procs : pc[p] \in Locked <=> spinlock_test = p

(* At most one process has the device, and flag is 0 exactly while one has.*)
OneHolder ==
    /\ \A p, q \in Procs : Has(p) /\ Has(q) => p = q
    /\ flag = 0 <=> \E p \in Procs : Has(p)

(* What open_test saw under the lock still holds while it has the lock.    *)
TestHolds ==
    \A p \in Procs : /\ pc[p] = "open_free" => flag = 1
                     /\ pc[p] = "open_busy" => flag = 0

IInv == TypeOK /\ LockHeld /\ OneHolder /\ TestHolds /\ KbufInv

USE DEF SpinLock, SpinUnlock, appUnchanged

-----------------------------------------------------------------------------
(* The steps of open_test and release_test by the labels they go between.  *)
LockSteps(p) ==
    OpenLock(p) \/ ReleaseLock(p) \/ OpenTest(p) \/ OpenBusy(p) \/ OpenTake(p)
    \/ OpenUnlock(p) \/ ReleaseClear(p) \/ ReleaseUnlock(p)

LEMMA NextCases ==
  ASSUME NEW p \in Procs,
         Start(p) \/ AppOnly(p) \/ GuardStep(p) \/ OpenLock(p) \/ ReleaseLock(p)
  PROVE  \/ (AppStep(p) \/ RunApp(p)) /\ UNCHANGED <<spinlock_test, flag>>
         \/ LockSteps(p) /\ UNCHANGED <<word, copied, kbuf>>
BY DEF Start, AppOnly, GuardStep, LockSteps, OpenLock, ReleaseLock, OpenTest,
       OpenBusy, OpenTake, OpenUnlock, ReleaseClear, ReleaseUnlock

(* They stay clear of the part of write_test that uses kbuf.               *)
LEMMA LockStepPc ==
  ASSUME NEW p \in Procs, LockSteps(p)
  PROVE  \E to \in Labels \ (UsesKbuf \cup {"copy"}) :
            pc[p] # "copy" /\ pc' = [pc EXCEPT ![p] = to]
<1> USE DEF Goto, Labels, AppLabels, FdOpen, UsesKbuf
<1>1. CASE OpenLock(p)
  BY <1>1 DEF OpenLock
<1>2. CASE OpenTest(p)
  <2>1. CASE flag # 1
    BY <1>2, <2>1 DEF OpenTest
  <2>2. CASE flag = 1
    BY <1>2, <2>2 DEF OpenTest
  <2> QED
    BY <2>1, <2>2
<1>3. CASE OpenBusy(p) \/ OpenTake(p) \/ OpenUnlock(p)
  BY <1>3 DEF OpenBusy, OpenTake, OpenUnlock
<1>4. CASE ReleaseLock(p) \/ ReleaseClear(p) \/ ReleaseUnlock(p)
  BY <1>4 DEF ReleaseLock, ReleaseClear, ReleaseUnlock
<1> QED
  BY <1>1, <1>2, <1>3, <1>4 DEF LockSteps

-----------------------------------------------------------------------------
LEMMA InitIInv == Init => IInv
<1> SUFFICES ASSUME Init PROVE IInv
  OBVIOUS
<1>1. TypeOK
  BY AppInitType DEF Init, AppInit, TypeOK, Labels, AppLabels
<1>2. LockHeld /\ OneHolder /\ TestHolds
  BY NoOwnerAssumption DEF Init, AppInit, LockHeld, OneHolder, TestHolds, Has,
     Locked, HoldsDevice, FdOpen, UsesKbuf
<1>3. KbufInv
  BY DEF Init, AppInit, KbufInv, CopyMine, CopiedZero, KbufIsMine, UsesKbuf
<1> QED
  BY <1>1, <1>2, <1>3 DEF IInv

(* A step of the program or of write_test leaves the driver's lock alone.  *)
LEMMA AppStepIInv ==
  ASSUME IInv, NEW p \in Procs, AppStep(p) \/ RunApp(p),
         UNCHANGED <<spinlock_test, flag>>
  PROVE  IInv'
<1>1. PICK to \in AppLabels :
          /\ pc' = [pc EXCEPT ![p] = to]
          /\ \/ pc[p] \in FdOpen /\ to \in FdOpen
             \/ pc[p] = "ebusy" /\ to = "idle"
             \/ pc[p] = "idle" /\ to = "open"
  BY AppStepPc
<1>2. TypeOK'
  BY <1>1, AppStepType DEF IInv, TypeOK, Labels
<1>3. LockHeld'
  BY <1>1 DEF IInv, TypeOK, LockHeld, Locked, FdOpen, UsesKbuf
<1>4. OneHolder' /\ TestHolds'
  BY <1>1 DEF IInv, TypeOK, OneHolder, TestHolds, Has, HoldsDevice, FdOpen, UsesKbuf
<1>5. KbufInv'
  <2>1. OneOpen
    BY DEF IInv, OneHolder, Has, HoldsDevice, OneOpen
  <2> QED
    BY <2>1, AppStepKbuf DEF IInv, TypeOK
<1> QED
  BY <1>2, <1>3, <1>4, <1>5 DEF IInv

(* A step of open_test or release_test, action by action.                  *)
LEMMA LockStepIInv ==
  ASSUME IInv, NEW p \in Procs, LockSteps(p), UNCHANGED <<word, copied, kbuf>>
  PROVE  IInv'
<1> USE DEF IInv, TypeOK, Goto
<1>1. AppTypeOK'
  BY DEF AppTypeOK, Cells
<1>2. KbufInv'
  BY LockStepPc, GuardStepKbuf
<1> USE DEF Labels, AppLabels, LockHeld, OneHolder, TestHolds, Has, Locked,
            HoldsDevice, FdOpen, UsesKbuf
<1>3. CASE OpenLock(p)
  BY <1>1, <1>2, <1>3, NoOwnerAssumption DEF OpenLock
<1>4. CASE OpenTest(p)
  BY <1>1, <1>2, <1>4 DEF OpenTest
<1>5. CASE OpenBusy(p)
  BY <1>1, <1>2, <1>5, NoOwnerAssumption DEF OpenBusy
<1>6. CASE OpenTake(p)
  BY <1>1, <1>2, <1>6 DEF OpenTake
<1>7. CASE OpenUnlock(p)
  BY <1>1, <1>2, <1>7, NoOwnerAssumption DEF OpenUnlock
<1>8. CASE ReleaseLock(p)
  BY <1>1, <1>2, <1>8, NoOwnerAssumption DEF ReleaseLock
<1>9. CASE ReleaseClear(p)
  BY <1>1, <1>2, <1>9 DEF ReleaseClear
<1>10. CASE ReleaseUnlock(p)
  BY <1>1, <1>2, <1>10, NoOwnerAssumption DEF ReleaseUnlock
<1> QED
  BY <1>3, <1>4, <1>5, <1>6, <1>7, <1>8, <1>9, <1>10 DEF LockSteps

-----------------------------------------------------------------------------
LEMMA NextIInv == IInv /\ [Next]_vars => IInv'
<1> SUFFICES ASSUME IInv, [Next]_vars PROVE IInv'
  OBVIOUS
<1>1. CASE Next
  <2>1. PICK p \in Procs :
            Start(p) \/ AppOnly(p) \/ GuardStep(p) \/ OpenLock(p) \/ ReleaseLock(p)
    BY <1>1 DEF Next
  <2> QED
    BY <2>1, NextCases, AppStepIInv, LockStepIInv
<1>2. CASE UNCHANGED vars
  BY <1>2 DEF vars, appVars, IInv, TypeOK, AppTypeOK, LockHeld, OneHolder, Has,
     TestHolds, KbufInv, CopyMine, CopiedZero, KbufIsMine, Cells
<1> QED
  BY <1>1, <1>2

(* The inductive invariant holds in every reachable state.                 *)
THEOREM Invariance == Spec => []IInv
BY InitIInv, NextIInv, PTL DEF Spec

(* Type correctness of the spinlock driver, for all constants.             *)
THEOREM TypeCorrect == Spec => []TypeOK
<1>1. IInv => TypeOK
  BY DEF IInv
<1> QED
  BY <1>1, Invariance, PTL

(* However many processes race for the device, and however the steps of    *)
(* open_test, write_test and release_test interleave, no write_test finds  *)
(* another process's message in the global kbuf.                           *)
THEOREM KbufExclusive == Spec => []KbufIsMine
<1>1. IInv => KbufIsMine
  BY DEF IInv, KbufInv
<1> QED
  BY <1>1, Invariance, PTL

-----------------------------------------------------------------------------
(* The refinement: each step of the driver is a step of ExclusiveOpen or   *)
(* leaves every process's status as it is.                                 *)

st == [p \in Procs |-> statusOf(pc[p])]

LEMMA StatusChange ==
  ASSUME NEW L, pc \in [Procs -> L], NEW p \in Procs, NEW to,
         pc' = [pc EXCEPT ![p] = to]
  PROVE  /\ st[p] = statusOf(pc[p])
         /\ st' = [st EXCEPT ![p] = statusOf(to)]
BY DEF st

(* A process that moves between two labels of the same status stutters.    *)
LEMMA Stutter ==
  ASSUME NEW L, pc \in [Procs -> L], NEW p \in Procs, NEW to,
         pc' = [pc EXCEPT ![p] = to], statusOf(to) = statusOf(pc[p])
  PROVE  st' = st
BY DEF st

LEMMA SomeoneIsOpen ==
  ASSUME IInv PROVE Device!SomeoneOpen <=> flag = 0
<1>1. \A l \in Labels : statusOf(l) = "open" <=> l \in HoldsDevice
  BY DEF statusOf, Labels, AppLabels, HoldsDevice, FdOpen, UsesKbuf
<1> QED
  BY <1>1 DEF IInv, TypeOK, OneHolder, Has, Device!SomeoneOpen

LEMMA AppStepRefines ==
  ASSUME IInv, NEW p \in Procs, AppStep(p) \/ RunApp(p)
  PROVE  Device!Next \/ st' = st
<1>0. pc \in [Procs -> Labels]
  BY DEF IInv, TypeOK
<1>1. PICK to \in AppLabels :
          /\ pc' = [pc EXCEPT ![p] = to]
          /\ \/ pc[p] \in FdOpen /\ to \in FdOpen
             \/ pc[p] = "ebusy" /\ to = "idle"
             \/ pc[p] = "idle" /\ to = "open"
  BY AppStepPc
<1>2. CASE pc[p] \in FdOpen /\ to \in FdOpen
  <2>1. statusOf(to) = statusOf(pc[p])
    BY <1>2 DEF statusOf, FdOpen, UsesKbuf
  <2> QED
    BY <1>0, <1>1, <2>1, Stutter
<1>3. CASE pc[p] = "ebusy" /\ to = "idle"
  <2>1. Device!GiveUp(p)
    BY <1>0, <1>1, <1>3, StatusChange DEF Device!GiveUp, Device!Become, statusOf, st
  <2> QED
    BY <2>1 DEF Device!Next
<1>4. CASE pc[p] = "idle" /\ to = "open"
  <2>1. Device!Request(p)
    BY <1>0, <1>1, <1>4, StatusChange DEF Device!Request, Device!Become, statusOf, st
  <2> QED
    BY <2>1 DEF Device!Next
<1> QED
  BY <1>1, <1>2, <1>3, <1>4

LEMMA LockStepRefines ==
  ASSUME IInv, NEW p \in Procs, LockSteps(p)
  PROVE  Device!Next \/ st' = st
<1>0. pc \in [Procs -> Labels]
  BY DEF IInv, TypeOK
<1> USE DEF Goto
<1>1. CASE OpenLock(p)
  BY <1>0, <1>1, Stutter DEF OpenLock, statusOf
<1>2. CASE OpenTest(p) /\ flag # 1
  <2>1. Device!SomeoneOpen
    BY <1>2, SomeoneIsOpen DEF IInv, TypeOK
  <2>2. Device!Refuse(p)
    BY <1>0, <1>2, <2>1, StatusChange DEF OpenTest, Device!Refuse, Device!Become, statusOf, st
  <2> QED
    BY <2>2 DEF Device!Next
<1>3. CASE OpenTest(p) /\ flag = 1
  BY <1>0, <1>3, Stutter DEF OpenTest, statusOf
<1>4. CASE OpenBusy(p)
  BY <1>0, <1>4, Stutter DEF OpenBusy, statusOf
<1>5. CASE OpenTake(p)
  <2>1. ~Device!SomeoneOpen
    BY <1>5, SomeoneIsOpen DEF OpenTake, IInv, TestHolds
  <2>2. Device!Grant(p)
    BY <1>0, <1>5, <2>1, StatusChange DEF OpenTake, Device!Grant, Device!Become, statusOf, st
  <2> QED
    BY <2>2 DEF Device!Next
<1>6. CASE OpenUnlock(p)
  BY <1>0, <1>6, Stutter DEF OpenUnlock, statusOf
<1>7. CASE ReleaseLock(p)
  BY <1>0, <1>7, Stutter DEF ReleaseLock, statusOf
<1>8. CASE ReleaseClear(p)
  <2>1. Device!Close(p)
    BY <1>0, <1>8, StatusChange DEF ReleaseClear, Device!Close, Device!Become, statusOf, st
  <2> QED
    BY <2>1 DEF Device!Next
<1>9. CASE ReleaseUnlock(p)
  BY <1>0, <1>9, Stutter DEF ReleaseUnlock, statusOf
<1> QED
  BY <1>1, <1>2, <1>3, <1>4, <1>5, <1>6, <1>7, <1>8, <1>9 DEF LockSteps

(* The spinlock driver implements exclusive open, for all constants: a     *)
(* grant happens only while nobody has the device, a refusal only while    *)
(* somebody has it.                                                        *)
THEOREM Refinement == Spec => ExclusiveDevice
<1>1. Init => Device!Init
  BY DEF Init, AppInit, Device!Init, statusOf
<1>2. IInv /\ [Next]_vars => [Device!Next]_st
  <2> SUFFICES ASSUME IInv, [Next]_vars PROVE Device!Next \/ st' = st
    OBVIOUS
  <2>1. CASE Next
    <3>1. PICK p \in Procs :
              Start(p) \/ AppOnly(p) \/ GuardStep(p) \/ OpenLock(p) \/ ReleaseLock(p)
      BY <2>1 DEF Next
    <3> QED
      BY <3>1, NextCases, AppStepRefines, LockStepRefines
  <2>2. CASE UNCHANGED vars
    BY <2>2 DEF vars, appVars, st
  <2> QED
    BY <2>1, <2>2
<1> QED
  BY <1>1, <1>2, Invariance, PTL DEF Spec, ExclusiveDevice, Device!Spec, st
=============================================================================
