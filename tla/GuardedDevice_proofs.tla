------------------------- MODULE GuardedDevice_proofs -------------------------
(***************************************************************************)
(* Facts about app.c and write_test that the proofs of the guarded drivers *)
(* share.                                                                  *)
(***************************************************************************)
EXTENDS GuardedDevice, Sequences, TLAPS

(* The initial state of app.c and of kbuf is well typed.                   *)
LEMMA AppInitType == AppInit => AppTypeOK
BY KbufCellsAssumption DEF AppInit, AppTypeOK, Zero

(* Every step of app.c and write_test keeps word, copied and kbuf well     *)
(* typed; in particular copied[p] + 1 is always a cell of kbuf.            *)
LEMMA AppStepType ==
  ASSUME NEW p \in Procs, AppTypeOK, AppStep(p) \/ RunApp(p)
  PROVE  AppTypeOK'
<1>1. CASE OpenFailed(p)
  BY <1>1 DEF OpenFailed, AppTypeOK, Cells
<1>2. CASE CallWrite(p)
  BY <1>2 DEF CallWrite, AppTypeOK, Cells
<1>3. CASE SkipWrite(p)
  BY <1>3 DEF SkipWrite, AppTypeOK, Cells
<1>4. CASE CopyCell(p)
  BY <1>4, KbufCellsAssumption DEF CopyCell, AppTypeOK, Cells
<1>5. CASE CopyFault(p)
  BY <1>5, KbufCellsAssumption DEF CopyFault, AppTypeOK, Cells
<1>6. CASE Strcmp(p)
  BY <1>6 DEF Strcmp, AppTypeOK, Cells
<1>7. CASE Ssleep(p)
  BY <1>7 DEF Ssleep, AppTypeOK, Cells
<1>8. CASE Printk(p)
  BY <1>8 DEF Printk, AppTypeOK, Cells
<1>9. CASE RunApp(p)
  BY <1>9 DEF RunApp, AppTypeOK, Cells
<1> QED
  BY <1>1, <1>2, <1>3, <1>4, <1>5, <1>6, <1>7, <1>8, <1>9 DEF AppStep

-----------------------------------------------------------------------------
(* Where a step of app.c or write_test can take a process.                 *)
LEMMA AppStepPc ==
  ASSUME NEW p \in Procs, AppStep(p) \/ RunApp(p)
  PROVE  \E to \in AppLabels :
            /\ pc' = [pc EXCEPT ![p] = to]
            /\ \/ pc[p] \in FdOpen /\ to \in FdOpen
               \/ pc[p] = "ebusy" /\ to = "idle"
               \/ pc[p] = "idle" /\ to = "open"
BY DEF AppStep, OpenFailed, CallWrite, SkipWrite, CopyCell, CopyFault, Strcmp,
       Ssleep, Printk, RunApp, Goto, AppLabels, FdOpen, UsesKbuf

-----------------------------------------------------------------------------
(* The cells that a copy_from_user has filled hold its word.               *)
CopyMine ==
    \A p \in Procs : pc[p] = "copy" =>
        \A c \in Cells : c <= copied[p] => kbuf[c] = word[p]

(* Outside the copy, nothing has been counted as copied.                   *)
CopiedZero == \A p \in Procs : pc[p] # "copy" => copied[p] = 0

KbufInv == CopyMine /\ CopiedZero /\ KbufIsMine

OneOpen == \A p, q \in Procs : pc[p] \in FdOpen /\ pc[q] \in FdOpen => p = q

(* As long as one process at most has the device open, kbuf belongs to it: *)
(* each step of write_test keeps what kbuf holds in step with the word.    *)
LEMMA AppStepKbuf ==
  ASSUME NEW L, AppTypeOK, pc \in [Procs -> L], OneOpen, KbufInv,
         NEW p \in Procs, AppStep(p) \/ RunApp(p)
  PROVE  KbufInv'
<1> USE DEF KbufInv, CopyMine, CopiedZero, KbufIsMine, AppTypeOK
<1>1. CASE OpenFailed(p)
  BY <1>1 DEF OpenFailed, Goto, UsesKbuf, Cells
<1>2. CASE CallWrite(p)
  <2>1. copied[p] = 0
    BY <1>2 DEF CallWrite, Goto
  <2> QED
    BY <1>2, <2>1 DEF CallWrite, Goto, UsesKbuf, Cells
<1>3. CASE SkipWrite(p)
  BY <1>3 DEF SkipWrite, Goto, UsesKbuf, Cells
<1>4. CASE CopyCell(p)
  <2>1. \A q \in Procs \ {p} : pc[q] \notin FdOpen /\ pc'[q] = pc[q]
    BY <1>4 DEF CopyCell, Goto, OneOpen, FdOpen
  <2> QED
    BY <1>4, <2>1, KbufCellsAssumption DEF CopyCell, Goto, UsesKbuf, FdOpen, Cells
<1>5. CASE CopyFault(p)
  <2>1. \A q \in Procs \ {p} : pc[q] \notin FdOpen /\ pc'[q] = pc[q]
    BY <1>5 DEF CopyFault, Goto, OneOpen, FdOpen
  <2> QED
    BY <1>5, <2>1, KbufCellsAssumption DEF CopyFault, Goto, UsesKbuf, FdOpen, Cells
<1>6. CASE Strcmp(p)
  BY <1>6 DEF Strcmp, Goto, UsesKbuf, Cells
<1>7. CASE Ssleep(p)
  BY <1>7 DEF Ssleep, Goto, UsesKbuf, Cells
<1>8. CASE Printk(p)
  BY <1>8 DEF Printk, Goto, UsesKbuf, Cells
<1>9. CASE RunApp(p)
  BY <1>9 DEF RunApp, Goto, UsesKbuf, Cells
<1> QED
  BY <1>1, <1>2, <1>3, <1>4, <1>5, <1>6, <1>7, <1>8, <1>9 DEF AppStep

(* A step of open_test or release_test does not disturb kbuf.              *)
LEMMA GuardStepKbuf ==
  ASSUME NEW L, pc \in [Procs -> L], KbufInv,
         NEW p \in Procs, NEW to, to \notin UsesKbuf, to # "copy",
         pc[p] # "copy", pc' = [pc EXCEPT ![p] = to],
         UNCHANGED <<word, copied, kbuf>>
  PROVE  KbufInv'
BY DEF KbufInv, CopyMine, CopiedZero, KbufIsMine, UsesKbuf, Cells

-----------------------------------------------------------------------------
(* The queues of the semaphore and of the mutex: who is in it, and that    *)
(* nobody is in it twice.                                                  *)
QueueOf(s) == {s[i] : i \in DOMAIN s}

Distinct(s) == \A i, j \in DOMAIN s : s[i] = s[j] => i = j

LEMMA QueueAppend ==
  ASSUME NEW S, NEW s \in Seq(S), NEW e \in S
  PROVE  /\ Append(s, e) \in Seq(S)
         /\ QueueOf(Append(s, e)) = QueueOf(s) \cup {e}
         /\ Distinct(s) /\ e \notin QueueOf(s) => Distinct(Append(s, e))
<1>1. /\ DOMAIN s = 1..Len(s) /\ Len(s) \in Nat
      /\ DOMAIN Append(s, e) = 1..(Len(s) + 1)
      /\ Append(s, e) \in Seq(S)
  OBVIOUS
<1>2. /\ \A i \in 1..Len(s) : Append(s, e)[i] = s[i]
      /\ Append(s, e)[Len(s) + 1] = e
  OBVIOUS
<1>3. QueueOf(Append(s, e)) = QueueOf(s) \cup {e}
  <2>1. \A x \in QueueOf(Append(s, e)) : x \in QueueOf(s) \cup {e}
    BY <1>1, <1>2 DEF QueueOf
  <2>2. \A x \in QueueOf(s) \cup {e} : x \in QueueOf(Append(s, e))
    BY <1>1, <1>2 DEF QueueOf
  <2> QED
    BY <2>1, <2>2
<1>4. Distinct(s) /\ e \notin QueueOf(s) => Distinct(Append(s, e))
  BY <1>1, <1>2 DEF QueueOf, Distinct
<1> QED
  BY <1>1, <1>3, <1>4

LEMMA QueueTail ==
  ASSUME NEW S, NEW s \in Seq(S), s # <<>>
  PROVE  /\ Tail(s) \in Seq(S) /\ Head(s) \in S
         /\ Head(s) \in QueueOf(s)
         /\ Distinct(s) => QueueOf(Tail(s)) = QueueOf(s) \ {Head(s)} /\ Distinct(Tail(s))
<1>1. /\ DOMAIN s = 1..Len(s) /\ Len(s) \in Nat \ {0}
      /\ Tail(s) \in Seq(S) /\ Head(s) \in S
      /\ DOMAIN Tail(s) = 1..(Len(s) - 1)
      /\ Head(s) = s[1]
  OBVIOUS
<1>2. \A i \in 1..(Len(s) - 1) : Tail(s)[i] = s[i + 1]
  OBVIOUS
<1>3. Head(s) \in QueueOf(s)
  BY <1>1 DEF QueueOf
<1>4. ASSUME Distinct(s)
      PROVE  QueueOf(Tail(s)) = QueueOf(s) \ {Head(s)} /\ Distinct(Tail(s))
  <2>1. \A x \in QueueOf(Tail(s)) : x \in QueueOf(s) \ {Head(s)}
    BY <1>1, <1>2, <1>4 DEF QueueOf, Distinct
  <2>2. ASSUME NEW x \in QueueOf(s) \ {Head(s)} PROVE x \in QueueOf(Tail(s))
    <3>1. PICK i \in 1..Len(s) : s[i] = x
      BY <1>1, <2>2 DEF QueueOf
    <3>2. i - 1 \in 1..(Len(s) - 1) /\ (i - 1) + 1 = i
      BY <1>1, <2>2, <3>1
    <3> QED
      BY <1>1, <1>2, <3>1, <3>2 DEF QueueOf
  <2>3. Distinct(Tail(s))
    BY <1>1, <1>2, <1>4 DEF Distinct
  <2> QED
    BY <2>1, <2>2, <2>3
<1> QED
  BY <1>1, <1>3, <1>4
=============================================================================
