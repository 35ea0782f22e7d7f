---------------------------- MODULE SemOpen_proofs ----------------------------
(***************************************************************************)
(* Proofs about SemOpen, for any set of processes and any size of kbuf:    *)
(* the type invariant, that there is one token, the exclusive use of kbuf, *)
(* the order of the queue, and the refinement of ExclusiveOpen.            *)
(***************************************************************************)
EXTENDS SemOpen, GuardedDevice_proofs

(* Nobody queues twice, or after up has chosen it.                         *)
QueueOK == Distinct(wait_list) /\ Waiting \cap up = {}

(* down does not fail, so open_test does not either.                       *)
NeverBusy == \A p \in Procs : pc[p] # "ebusy"

IInv == TypeOK /\ OneToken /\ QueueOK /\ NeverBusy /\ KbufInv

USE DEF appUnchanged

-----------------------------------------------------------------------------
LEMMA NextCases ==
  ASSUME NEW p \in Procs, Start(p) \/ AppOnly(p) \/ GuardStep(p)
  PROVE  \/ (AppStep(p) \/ RunApp(p)) /\ UNCHANGED semVars
         \/ GuardStep(p) /\ UNCHANGED <<word, copied, kbuf>>
BY DEF Start, AppOnly, GuardStep, DownFree, DownWait, DownWoken, UpNoWaiter, UpHandOver

(* A step of down or up stays clear of the part of write_test that uses    *)
(* kbuf.                                                                   *)
LEMMA GuardStepPc ==
  ASSUME NEW p \in Procs, GuardStep(p)
  PROVE  \E to \in Labels \ (UsesKbuf \cup {"copy", "ebusy"}) :
            pc[p] # "copy" /\ pc' = [pc EXCEPT ![p] = to]
BY DEF GuardStep, DownFree, DownWait, DownWoken, UpNoWaiter, UpHandOver, Goto,
       Labels, AppLabels, FdOpen, UsesKbuf

(* What append and tail do to the queue of this semaphore.                 *)
LEMMA WaitingIsQueue == Waiting = QueueOf(wait_list)
BY DEF Waiting, QueueOf

LEMMA InitIInv == Init => IInv
<1> SUFFICES ASSUME Init PROVE IInv
  OBVIOUS
<1>1. TypeOK
  BY AppInitType DEF Init, AppInit, TypeOK, Labels, AppLabels
<1>2. Waiting = {}
  BY DEF Init, Waiting
<1>3. OneToken /\ QueueOK /\ NeverBusy
  BY <1>2 DEF Init, AppInit, OneToken, HasToken, QueueOK, NeverBusy, Distinct, FdOpen, UsesKbuf
<1>4. KbufInv
  BY DEF Init, AppInit, KbufInv, CopyMine, CopiedZero, KbufIsMine, UsesKbuf
<1> QED
  BY <1>1, <1>3, <1>4 DEF IInv

(* A step of the program or of write_test leaves the semaphore alone.      *)
LEMMA AppStepIInv ==
  ASSUME IInv, NEW p \in Procs, AppStep(p) \/ RunApp(p), UNCHANGED semVars
  PROVE  IInv'
<1>1. PICK to \in AppLabels :
          /\ pc' = [pc EXCEPT ![p] = to]
          /\ \/ pc[p] \in FdOpen /\ to \in FdOpen
             \/ pc[p] = "ebusy" /\ to = "idle"
             \/ pc[p] = "idle" /\ to = "open"
  BY AppStepPc
<1>2. TypeOK'
  BY <1>1, AppStepType DEF IInv, TypeOK, Labels, semVars
<1>3. OneToken' /\ QueueOK' /\ NeverBusy'
  BY <1>1 DEF IInv, TypeOK, OneToken, HasToken, QueueOK, NeverBusy, Waiting, Distinct,
     semVars, FdOpen, UsesKbuf
<1>4. KbufInv'
  <2>1. OneOpen
    BY DEF IInv, OneToken, HasToken, OneOpen
  <2> QED
    BY <2>1, AppStepKbuf DEF IInv, TypeOK
<1> QED
  BY <1>2, <1>3, <1>4 DEF IInv

(* A step of down or up, action by action.                                 *)
LEMMA GuardStepIInv ==
  ASSUME IInv, NEW p \in Procs, GuardStep(p), UNCHANGED <<word, copied, kbuf>>
  PROVE  IInv'
<1> USE DEF IInv, Goto
<1>1. AppTypeOK' /\ pc' \in [Procs -> Labels] /\ NeverBusy'
  <2>1. AppTypeOK'
    BY DEF TypeOK, AppTypeOK, Cells
  <2> QED
    BY <2>1, GuardStepPc DEF TypeOK, NeverBusy
<1>2. KbufInv'
  BY GuardStepPc, GuardStepKbuf DEF TypeOK
<1>3. (OneToken /\ QueueOK /\ TypeOK)'
  <2> USE DEF TypeOK, OneToken, HasToken, QueueOK, FdOpen, UsesKbuf
  <2>0. Waiting' = QueueOf(wait_list') /\ Waiting = QueueOf(wait_list)
    BY DEF Waiting, QueueOf
  <2>1. CASE DownFree(p)
    BY <1>1, <2>0, <2>1 DEF DownFree
  <2>2. CASE DownWait(p)
    <3>1. p \notin Waiting /\ p \notin up
      BY <2>2 DEF DownWait
    <3>2. /\ wait_list' \in Seq(Procs) /\ Distinct(wait_list')
          /\ Waiting' = Waiting \cup {p}
      BY <2>0, <2>2, <3>1, QueueAppend DEF DownWait
    <3> QED
      BY <1>1, <2>2, <3>1, <3>2 DEF DownWait
  <2>3. CASE DownWoken(p)
    BY <1>1, <2>0, <2>3 DEF DownWoken
  <2>4. CASE UpNoWaiter(p)
    BY <1>1, <2>0, <2>4 DEF UpNoWaiter
  <2>5. CASE UpHandOver(p)
    <3>1. /\ wait_list' \in Seq(Procs) /\ Distinct(wait_list')
          /\ Waiting' = Waiting \ {Head(wait_list)}
          /\ Head(wait_list) \in Waiting /\ Head(wait_list) \in Procs
      BY <2>0, <2>5, QueueTail DEF UpHandOver
    <3> QED
      BY <1>1, <2>5, <3>1 DEF UpHandOver
  <2> QED
    BY <2>1, <2>2, <2>3, <2>4, <2>5 DEF GuardStep
<1> QED
  BY <1>1, <1>2, <1>3

LEMMA NextIInv == IInv /\ [Next]_vars => IInv'
<1> SUFFICES ASSUME IInv, [Next]_vars PROVE IInv'
  OBVIOUS
<1>1. CASE Next
  <2>1. PICK p \in Procs : Start(p) \/ AppOnly(p) \/ GuardStep(p)
    BY <1>1 DEF Next
  <2> QED
    BY <2>1, NextCases, AppStepIInv, GuardStepIInv
<1>2. CASE UNCHANGED vars
  BY <1>2 DEF vars, appVars, semVars, IInv, TypeOK, AppTypeOK, OneToken, HasToken,
     QueueOK, Distinct, Waiting, NeverBusy, KbufInv, CopyMine, CopiedZero, KbufIsMine, Cells
<1> QED
  BY <1>1, <1>2

(* The inductive invariant holds in every reachable state.                 *)
THEOREM Invariance == Spec => []IInv
BY InitIInv, NextIInv, PTL DEF Spec

(* Type correctness of the semaphore driver, for all constants.            *)
THEOREM TypeCorrect == Spec => []TypeOK
<1>1. IInv => TypeOK
  BY DEF IInv
<1> QED
  BY <1>1, Invariance, PTL

(* However many processes call open_test and release_test, the semaphore   *)
(* is never lost nor doubled, and nobody sleeps in down while it is free.  *)
THEOREM TokenUnique == Spec => []OneToken
<1>1. IInv => OneToken
  BY DEF IInv
<1> QED
  BY <1>1, Invariance, PTL

(* No write_test finds another process's message in the global kbuf.       *)
THEOREM KbufExclusive == Spec => []KbufIsMine
<1>1. IInv => KbufIsMine
  BY DEF IInv, KbufInv
<1> QED
  BY <1>1, Invariance, PTL

-----------------------------------------------------------------------------
(* The order of the queue.                                                 *)

(* A place in the queue ahead of q.                                        *)
Before(p, q) ==
    \E i \in DOMAIN wait_list : wait_list[i] = p /\ \A j \in 1..i : wait_list[j] # q

(* Appending behind them changes nothing for those who are in the queue.   *)
LEMMA BeforeAppend ==
  ASSUME NEW p, NEW q, NEW r \in Procs, wait_list \in Seq(Procs), Before(p, q),
         wait_list' = Append(wait_list, r)
  PROVE  Before(p, q)'
<1>1. /\ DOMAIN wait_list = 1..Len(wait_list) /\ Len(wait_list) \in Nat
      /\ DOMAIN wait_list' = 1..(Len(wait_list) + 1)
      /\ \A i \in 1..Len(wait_list) : wait_list'[i] = wait_list[i]
  OBVIOUS
<1> QED
  BY <1>1 DEF Before

(* When the first leaves, it is p, or p is still ahead.                    *)
LEMMA BeforeTail ==
  ASSUME NEW p, NEW q, wait_list \in Seq(Procs), wait_list # <<>>, Before(p, q),
         wait_list' = Tail(wait_list)
  PROVE  Head(wait_list) # q /\ (Head(wait_list) = p \/ Before(p, q)')
<1>1. /\ DOMAIN wait_list = 1..Len(wait_list) /\ Len(wait_list) \in Nat \ {0}
      /\ DOMAIN wait_list' = 1..(Len(wait_list) - 1)
      /\ Head(wait_list) = wait_list[1]
  OBVIOUS
<1>2. \A i \in 1..(Len(wait_list) - 1) : wait_list'[i] = wait_list[i + 1]
  OBVIOUS
<1>3. PICK i \in DOMAIN wait_list : wait_list[i] = p /\ \A j \in 1..i : wait_list[j] # q
  BY DEF Before
<1>4. Head(wait_list) # q
  BY <1>1, <1>3
<1>5. CASE i = 1
  BY <1>1, <1>3, <1>4, <1>5
<1>6. CASE i # 1
  <2>1. i - 1 \in 1..(Len(wait_list) - 1) /\ (i - 1) + 1 = i
    BY <1>1, <1>6
  <2>2. wait_list'[i - 1] = p
    BY <1>2, <1>3, <2>1
  <2>3. \A j \in 1..(i - 1) : wait_list'[j] # q
    BY <1>1, <1>2, <1>3, <2>1
  <2> QED
    BY <1>1, <1>4, <2>1, <2>2, <2>3 DEF Before
<1> QED
  BY <1>5, <1>6

LEMMA StepKeepsOrder ==
  ASSUME IInv, NEW r \in Procs, Start(r) \/ AppOnly(r) \/ GuardStep(r),
         NEW p \in Procs, NEW q \in Procs, Ahead(p, q)
  PROVE  Ahead(p, q)' \/ pc'[p] = "opened"
<1> USE DEF IInv, TypeOK, Goto
<1>0. pc[q] \notin FdOpen /\ q \notin up /\ (p \in up \/ Before(p, q))
  BY DEF Ahead, Before
<1>1. SUFFICES \/ pc'[q] \notin FdOpen /\ q \notin up' /\ (p \in up' \/ Before(p, q)')
               \/ pc'[p] = "opened"
  BY DEF Ahead, Before
<1>2. CASE (AppStep(r) \/ RunApp(r)) /\ UNCHANGED semVars
  <2>1. PICK to \in AppLabels :
          /\ pc' = [pc EXCEPT ![r] = to]
          /\ \/ pc[r] \in FdOpen /\ to \in FdOpen
             \/ pc[r] = "ebusy" /\ to = "idle"
             \/ pc[r] = "idle" /\ to = "open"
    BY <1>2, AppStepPc
  <2>2. pc'[q] \notin FdOpen
    BY <1>0, <2>1 DEF FdOpen, UsesKbuf
  <2> QED
    BY <1>0, <1>2, <2>2 DEF semVars, Before
<1>3. CASE DownFree(r)
  <2>1. p \notin up /\ wait_list = <<>>
    BY <1>3 DEF DownFree, OneToken, HasToken
  <2> QED
    BY <1>0, <2>1 DEF Before
<1>4. CASE DownWait(r)
  <2>1. Before(p, q) => Before(p, q)'
    BY <1>4, BeforeAppend DEF DownWait
  <2> QED
    BY <1>0, <1>4, <2>1 DEF DownWait, FdOpen, UsesKbuf
<1>5. CASE DownWoken(r)
  <2>1. CASE r = p
    BY <1>5, <2>1 DEF DownWoken
  <2>2. CASE r # p
    BY <1>0, <1>5, <2>2 DEF DownWoken, Before
  <2> QED
    BY <2>1, <2>2
<1>6. CASE UpNoWaiter(r)
  BY <1>0, <1>6 DEF UpNoWaiter, Before, FdOpen, UsesKbuf
<1>7. CASE UpHandOver(r)
  <2>1. HasToken(r) /\ pc[r] = "close"
    BY <1>7 DEF UpHandOver, HasToken, FdOpen
  <2>2. p \notin up
    <3>1. p \in up => p = r /\ pc[p] = "down"
      BY <2>1 DEF OneToken, HasToken
    <3> QED
      BY <2>1, <3>1
  <2>3. Head(wait_list) # q /\ (Head(wait_list) = p \/ Before(p, q)')
    BY <1>0, <1>7, <2>2, BeforeTail DEF UpHandOver
  <2>4. pc'[q] \notin FdOpen
    BY <1>0, <1>7 DEF UpHandOver, FdOpen, UsesKbuf
  <2> QED
    BY <1>0, <1>7, <2>3, <2>4 DEF UpHandOver
<1> QED
  BY <1>2, <1>3, <1>4, <1>5, <1>6, <1>7, NextCases DEF GuardStep

(* Nobody is overtaken in the queue of down, however many processes come   *)
(* and go, because up hands the semaphore over instead of raising the      *)
(* count.                                                                  *)
THEOREM InOrder == Spec => NoOvertaking
<1>1. IInv /\ [Next]_vars =>
        [\A p, q \in Procs : Ahead(p, q) => Ahead(p, q)' \/ pc'[p] = "opened"]_vars
  BY StepKeepsOrder DEF Next
<1> QED
  BY <1>1, Invariance, PTL DEF Spec, NoOvertaking

-----------------------------------------------------------------------------
(* The refinement: each step of the driver is a step of ExclusiveOpen or   *)
(* leaves every process's status as it is.                                 *)

st == [p \in Procs |-> statusOf(pc[p])]

LEMMA StatusChange ==
  ASSUME NEW L, pc \in [Procs -> L], NEW p \in Procs, NEW to,
         pc' = [pc EXCEPT ![p] = to]
  PROVE  /\ st[p] = statusOf(pc[p])
         /\ st' = [st EXCEPT ![p] = statusOf(to)]
         /\ statusOf(to) = statusOf(pc[p]) => st' = st
BY DEF st

LEMMA SomeoneIsOpen ==
  ASSUME IInv PROVE Device!SomeoneOpen <=> \E p \in Procs : pc[p] \in FdOpen
<1>1. \A l \in Labels \ {"ebusy"} : statusOf(l) = "open" <=> l \in FdOpen
  BY DEF statusOf, Labels, AppLabels, FdOpen, UsesKbuf
<1> QED
  BY <1>1 DEF IInv, TypeOK, NeverBusy, Device!SomeoneOpen

LEMMA AppStepRefines ==
  ASSUME IInv, NEW p \in Procs, AppStep(p) \/ RunApp(p)
  PROVE  Device!Next \/ st' = st
<1>0. pc \in [Procs -> Labels] /\ pc[p] # "ebusy"
  BY DEF IInv, TypeOK, NeverBusy
<1>1. PICK to \in AppLabels :
          /\ pc' = [pc EXCEPT ![p] = to]
          /\ \/ pc[p] \in FdOpen /\ to \in FdOpen
             \/ pc[p] = "ebusy" /\ to = "idle"
             \/ pc[p] = "idle" /\ to = "open"
  BY AppStepPc
<1>2. CASE pc[p] \in FdOpen /\ to \in FdOpen
  <2>1. statusOf(to) = statusOf(pc[p])
    BY <1>2 DEF statusOf, FdOpen, UsesKbuf
  <2> QED
    BY <1>0, <1>1, <2>1, StatusChange
<1>3. CASE pc[p] = "idle" /\ to = "open"
  <2>1. Device!Request(p)
    BY <1>0, <1>1, <1>3, StatusChange DEF Device!Request, Device!Become, statusOf, st
  <2> QED
    BY <2>1 DEF Device!Next
<1> QED
  BY <1>0, <1>1, <1>2, <1>3

LEMMA GuardStepRefines ==
  ASSUME IInv, NEW p \in Procs, GuardStep(p)
  PROVE  Device!Next \/ st' = st
<1>0. pc \in [Procs -> Labels]
  BY DEF IInv, TypeOK
<1>1. CASE DownFree(p) \/ DownWoken(p)
  <2>1. ~Device!SomeoneOpen
    <3>1. \A q \in Procs : pc[q] \notin FdOpen
      BY <1>1 DEF DownFree, DownWoken, Goto, IInv, TypeOK, OneToken, HasToken, FdOpen, UsesKbuf
    <3> QED
      BY <3>1, SomeoneIsOpen
  <2>2. pc[p] \in {"open", "down"} /\ pc' = [pc EXCEPT ![p] = "opened"]
    BY <1>1 DEF DownFree, DownWoken, Goto
  <2>3. Device!Grant(p)
    BY <1>0, <2>1, <2>2, StatusChange DEF Device!Grant, Device!Become, statusOf, st
  <2> QED
    BY <2>3 DEF Device!Next
<1>2. CASE DownWait(p)
  <2>1. pc[p] = "open" /\ pc' = [pc EXCEPT ![p] = "down"]
    BY <1>2 DEF DownWait, Goto
  <2>2. statusOf("open") = statusOf("down")
    BY DEF statusOf
  <2> QED
    BY <1>0, <2>1, <2>2, StatusChange
<1>3. CASE UpNoWaiter(p) \/ UpHandOver(p)
  <2>1. pc[p] = "close" /\ pc' = [pc EXCEPT ![p] = "idle"]
    BY <1>3 DEF UpNoWaiter, UpHandOver, Goto
  <2>2. Device!Close(p)
    BY <1>0, <2>1, StatusChange DEF Device!Close, Device!Become, statusOf, st
  <2> QED
    BY <2>2 DEF Device!Next
<1> QED
  BY <1>1, <1>2, <1>3 DEF GuardStep

(* The semaphore driver implements exclusive open, for all constants: the  *)
(* device is granted only while nobody has it, and never refused.          *)
THEOREM Refinement == Spec => ExclusiveDevice
<1>1. Init => Device!Init
  BY DEF Init, AppInit, Device!Init, statusOf
<1>2. IInv /\ [Next]_vars => [Device!Next]_st
  <2> SUFFICES ASSUME IInv, [Next]_vars PROVE Device!Next \/ st' = st
    OBVIOUS
  <2>1. CASE Next
    <3>1. PICK p \in Procs : Start(p) \/ AppOnly(p) \/ GuardStep(p)
      BY <2>1 DEF Next
    <3> QED
      BY <3>1, NextCases, AppStepRefines, GuardStepRefines
  <2>2. CASE UNCHANGED vars
    BY <2>2 DEF vars, appVars, st
  <2> QED
    BY <2>1, <2>2
<1> QED
  BY <1>1, <1>2, Invariance, PTL DEF Spec, ExclusiveDevice, Device!Spec, st
=============================================================================
