---------------------------- MODULE MutexOpen_proofs ----------------------------
(***************************************************************************)
(* Proofs about MutexOpen, for any set of processes and any size of kbuf:  *)
(* the type invariant, that the mutex is unlocked by the process that      *)
(* locked it, the exclusive use of kbuf, and the refinement of             *)
(* ExclusiveOpen.                                                          *)
(***************************************************************************)
EXTENDS MutexOpen, GuardedDevice_proofs

(* Who has the device open owns the mutex.                                 *)
OpenOwns == \A p \in Procs : pc[p] \in FdOpen => owner = p

(* A hand-off is only asked for by somebody who waits for it.              *)
HandoffAwaited == handoff => wait_list # <<>>

(* mutex_lock does not fail, so open_test does not either.                 *)
NeverBusy == \A p \in Procs : pc[p] # "ebusy"

IInv == TypeOK /\ OpenOwns /\ HandoffAwaited /\ NeverBusy /\ KbufInv

USE DEF appUnchanged

-----------------------------------------------------------------------------
LEMMA NextCases ==
  ASSUME NEW p \in Procs, Start(p) \/ AppOnly(p) \/ GuardStep(p)
  PROVE  \/ (AppStep(p) \/ RunApp(p)) /\ UNCHANGED mutexVars
         \/ GuardStep(p) /\ UNCHANGED <<word, copied, kbuf>>
BY DEF Start, AppOnly, GuardStep, LockFree, LockWait, LockWoken, LockBeaten,
       UnlockFree, UnlockHandOff

(* A step of mutex_lock or mutex_unlock stays clear of the part of         *)
(* write_test that uses kbuf.                                              *)
LEMMA GuardStepPc ==
  ASSUME NEW p \in Procs, GuardStep(p), pc \in [Procs -> Labels]
  PROVE  \E to \in Labels \ (UsesKbuf \cup {"copy", "ebusy"}) :
            pc[p] # "copy" /\ pc' = [pc EXCEPT ![p] = to]
<1> USE DEF Goto, Labels, AppLabels, FdOpen, UsesKbuf
<1>1. CASE LockBeaten(p)
  <2>1. pc[p] = "lock_wait" /\ pc' = [pc EXCEPT ![p] = "lock_wait"]
    BY <1>1 DEF LockBeaten
  <2> QED
    BY <2>1
<1>2. CASE LockFree(p) \/ LockWait(p) \/ LockWoken(p) \/ UnlockFree(p) \/ UnlockHandOff(p)
  BY <1>2 DEF LockFree, LockWait, LockWoken, UnlockFree, UnlockHandOff
<1> QED
  BY <1>1, <1>2 DEF GuardStep

LEMMA InitIInv == Init => IInv
<1> SUFFICES ASSUME Init PROVE IInv
  OBVIOUS
<1>1. TypeOK
  <2>1. AppTypeOK
    BY AppInitType DEF Init
  <2>2. pc \in [Procs -> Labels]
    BY DEF Init, AppInit, Labels, AppLabels
  <2>3. owner \in Procs \cup {NoOwner} /\ wait_list \in Seq(Procs)
    BY DEF Init
  <2>4. handoff \in BOOLEAN
    BY Zenon DEF Init
  <2> QED
    BY <2>1, <2>2, <2>3, <2>4 DEF TypeOK
<1>2. OpenOwns /\ HandoffAwaited /\ NeverBusy
  BY DEF Init, AppInit, OpenOwns, HandoffAwaited, NeverBusy, FdOpen, UsesKbuf
<1>3. KbufInv
  BY DEF Init, AppInit, KbufInv, CopyMine, CopiedZero, KbufIsMine, UsesKbuf
<1> QED
  BY <1>1, <1>2, <1>3 DEF IInv

(* A step of the program or of write_test leaves the mutex alone.          *)
LEMMA AppStepIInv ==
  ASSUME IInv, NEW p \in Procs, AppStep(p) \/ RunApp(p), UNCHANGED mutexVars
  PROVE  IInv'
<1>1. PICK to \in AppLabels :
          /\ pc' = [pc EXCEPT ![p] = to]
          /\ \/ pc[p] \in FdOpen /\ to \in FdOpen
             \/ pc[p] = "ebusy" /\ to = "idle"
             \/ pc[p] = "idle" /\ to = "open"
  BY AppStepPc
<1>2. TypeOK'
  BY <1>1, AppStepType DEF IInv, TypeOK, Labels, mutexVars
<1>3. OpenOwns' /\ HandoffAwaited' /\ NeverBusy'
  BY <1>1 DEF IInv, TypeOK, OpenOwns, HandoffAwaited, NeverBusy, mutexVars, FdOpen, UsesKbuf
<1>4. KbufInv'
  <2>1. OneOpen
    BY DEF IInv, OpenOwns, OneOpen
  <2> QED
    BY <2>1, AppStepKbuf DEF IInv, TypeOK
<1> QED
  BY <1>2, <1>3, <1>4 DEF IInv

(* A step of mutex_lock or mutex_unlock, action by action.                 *)
LEMMA GuardStepIInv ==
  ASSUME IInv, NEW p \in Procs, GuardStep(p), UNCHANGED <<word, copied, kbuf>>
  PROVE  IInv'
<1> USE DEF IInv, Goto
<1>1. AppTypeOK' /\ pc' \in [Procs -> Labels] /\ NeverBusy'
  <2>1. AppTypeOK'
    BY DEF TypeOK, AppTypeOK, Cells
  <2> QED
    BY <2>1, GuardStepPc DEF TypeOK, NeverBusy
<1>2. KbufInv'
  BY GuardStepPc, GuardStepKbuf DEF TypeOK
<1>3. (TypeOK /\ OpenOwns /\ HandoffAwaited)'
  <2> USE DEF TypeOK, OpenOwns, HandoffAwaited, FdOpen, UsesKbuf
  <2>1. CASE LockFree(p)
    BY <1>1, <2>1, NoOwnerAssumption DEF LockFree
  <2>2. CASE LockWait(p)
    <3>1. wait_list' \in Seq(Procs) /\ wait_list' # <<>>
      BY <2>2 DEF LockWait
    <3> QED
      BY <1>1, <2>2, <3>1 DEF LockWait
  <2>3. CASE LockWoken(p)
    <3>1. wait_list' \in Seq(Procs)
      BY <2>3 DEF LockWoken, FirstWaiter
    <3>2. \A q \in Procs : pc[q] \notin FdOpen
      BY <2>3, NoOwnerAssumption DEF LockWoken
    <3> QED
      BY <1>1, <2>3, <3>1, <3>2 DEF LockWoken
  <2>4. CASE LockBeaten(p)
    BY <1>1, <2>4 DEF LockBeaten, FirstWaiter
  <2>5. CASE UnlockFree(p)
    BY <1>1, <2>5 DEF UnlockFree
  <2>6. CASE UnlockHandOff(p)
    <3>1. Head(wait_list) \in Procs
      BY <2>6 DEF UnlockHandOff
    <3> QED
      BY <1>1, <2>6, <3>1 DEF UnlockHandOff
  <2> QED
    BY <2>1, <2>2, <2>3, <2>4, <2>5, <2>6 DEF GuardStep
<1> QED
  BY <1>1, <1>2, <1>3

LEMMA NextIInv == IInv /\ [Next]_vars => IInv'
<1> SUFFICES ASSUME IInv, [Next]_vars PROVE IInv'
  OBVIOUS
<1>1. CASE Next
  <2>1. PICK p \in Procs : Start(p) \/ AppOnly(p) \/ GuardStep(p)
    BY <1>1 DEF Next
  <2> QED
    BY <2>1, NextCases, AppStepIInv, GuardStepIInv
<1>2. CASE UNCHANGED vars
  BY <1>2 DEF vars, appVars, mutexVars, IInv, TypeOK, AppTypeOK, OpenOwns, HandoffAwaited,
     NeverBusy, KbufInv, CopyMine, CopiedZero, KbufIsMine, Cells
<1> QED
  BY <1>1, <1>2

(* The inductive invariant holds in every reachable state.                 *)
THEOREM Invariance == Spec => []IInv
BY InitIInv, NextIInv, PTL DEF Spec

(* Type correctness of the mutex driver, for all constants.                *)
THEOREM TypeCorrect == Spec => []TypeOK
<1>1. IInv => TypeOK
  BY DEF IInv
<1> QED
  BY <1>1, Invariance, PTL

(* Whichever process took the mutex, past the sleepers or by a hand-off,   *)
(* release_test unlocks it in the process that owns it.                    *)
THEOREM OwnerUnlocks == Spec => []UnlockedByOwner
<1>1. IInv => UnlockedByOwner
  BY DEF IInv, OpenOwns, UnlockedByOwner, FdOpen
<1> QED
  BY <1>1, Invariance, PTL

(* No write_test finds another process's message in the global kbuf.       *)
THEOREM KbufExclusive == Spec => []KbufIsMine
<1>1. IInv => KbufIsMine
  BY DEF IInv, KbufInv
<1> QED
  BY <1>1, Invariance, PTL

-----------------------------------------------------------------------------
(* The refinement: each step of the driver is a step of ExclusiveOpen or   *)
(* leaves every process's status as it is.                                 *)

st == [p \in Procs |-> statusOf(pc[p])]

LEMMA StatusChange ==
  ASSUME NEW L, pc \in [Procs -> L], NEW p \in Procs, NEW to,
         pc' = [pc EXCEPT ![p] = to]
  PROVE  /\ st[p] = statusOf(pc[p])
         /\ st' = [st EXCEPT ![p] = statusOf(to)]
         /\ statusOf(to) = statusOf(pc[p]) => st' = st
BY DEF st

LEMMA SomeoneIsOpen ==
  ASSUME IInv PROVE Device!SomeoneOpen <=> \E p \in Procs : pc[p] \in FdOpen
<1>1. \A l \in Labels \ {"ebusy"} : statusOf(l) = "open" <=> l \in FdOpen
  BY DEF statusOf, Labels, AppLabels, FdOpen, UsesKbuf
<1> QED
  BY <1>1 DEF IInv, TypeOK, NeverBusy, Device!SomeoneOpen

LEMMA AppStepRefines ==
  ASSUME IInv, NEW p \in Procs, AppStep(p) \/ RunApp(p)
  PROVE  Device!Next \/ st' = st
<1>0. pc \in [Procs -> Labels] /\ pc[p] # "ebusy"
  BY DEF IInv, TypeOK, NeverBusy
<1>1. PICK to \in AppLabels :
          /\ pc' = [pc EXCEPT ![p] = to]
          /\ \/ pc[p] \in FdOpen /\ to \in FdOpen
             \/ pc[p] = "ebusy" /\ to = "idle"
             \/ pc[p] = "idle" /\ to = "open"
  BY AppStepPc
<1>2. CASE pc[p] \in FdOpen /\ to \in FdOpen
  <2>1. statusOf(to) = statusOf(pc[p])
    BY <1>2 DEF statusOf, FdOpen, UsesKbuf
  <2> QED
    BY <1>0, <1>1, <2>1, StatusChange
<1>3. CASE pc[p] = "idle" /\ to = "open"
  <2>1. Device!Request(p)
    BY <1>0, <1>1, <1>3, StatusChange DEF Device!Request, Device!Become, statusOf, st
  <2> QED
    BY <2>1 DEF Device!Next
<1> QED
  BY <1>0, <1>1, <1>2, <1>3

LEMMA GuardStepRefines ==
  ASSUME IInv, NEW p \in Procs, GuardStep(p)
  PROVE  Device!Next \/ st' = st
<1>0. pc \in [Procs -> Labels]
  BY DEF IInv, TypeOK
<1>1. CASE LockFree(p) \/ LockWoken(p)
  <2>1. ~Device!SomeoneOpen
    <3>1. \A q \in Procs : pc[q] \notin FdOpen
      BY <1>1, NoOwnerAssumption
         DEF LockFree, LockWoken, Goto, IInv, OpenOwns, FdOpen, UsesKbuf
    <3> QED
      BY <3>1, SomeoneIsOpen
  <2>2. pc[p] \in {"open", "lock_wait"} /\ pc' = [pc EXCEPT ![p] = "opened"]
    BY <1>1 DEF LockFree, LockWoken, Goto
  <2>3. Device!Grant(p)
    BY <1>0, <2>1, <2>2, StatusChange DEF Device!Grant, Device!Become, statusOf, st
  <2> QED
    BY <2>3 DEF Device!Next
<1>2. CASE LockWait(p)
  <2>1. pc[p] = "open" /\ pc' = [pc EXCEPT ![p] = "lock_wait"]
    BY <1>2 DEF LockWait, Goto
  <2>2. statusOf("open") = statusOf("lock_wait")
    BY DEF statusOf
  <2> QED
    BY <1>0, <2>1, <2>2, StatusChange
<1>3. CASE LockBeaten(p)
  BY <1>3 DEF LockBeaten, st
<1>4. CASE UnlockFree(p) \/ UnlockHandOff(p)
  <2>1. pc[p] = "close" /\ pc' = [pc EXCEPT ![p] = "idle"]
    BY <1>4 DEF UnlockFree, UnlockHandOff, Goto
  <2>2. Device!Close(p)
    BY <1>0, <2>1, StatusChange DEF Device!Close, Device!Become, statusOf, st
  <2> QED
    BY <2>2 DEF Device!Next
<1> QED
  BY <1>1, <1>2, <1>3, <1>4 DEF GuardStep

(* The mutex driver implements exclusive open, for all constants: the      *)
(* device is granted only while nobody has it, and never refused.          *)
THEOREM Refinement == Spec => ExclusiveDevice
<1>1. Init => Device!Init
  BY DEF Init, AppInit, Device!Init, statusOf
<1>2. IInv /\ [Next]_vars => [Device!Next]_st
  <2> SUFFICES ASSUME IInv, [Next]_vars PROVE Device!Next \/ st' = st
    OBVIOUS
  <2>1. CASE Next
    <3>1. PICK p \in Procs : Start(p) \/ AppOnly(p) \/ GuardStep(p)
      BY <2>1 DEF Next
    <3> QED
      BY <3>1, NextCases, AppStepRefines, GuardStepRefines
  <2>2. CASE UNCHANGED vars
    BY <2>2 DEF vars, appVars, st
  <2> QED
    BY <2>1, <2>2
<1> QED
  BY <1>1, <1>2, Invariance, PTL DEF Spec, ExclusiveDevice, Device!Spec, st
=============================================================================
