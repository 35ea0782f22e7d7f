--------------------------- MODULE PollDevice_proofs ---------------------------
(***************************************************************************)
(* Proofs about PollDevice, for any sets of writers and readers and any    *)
(* size of kbuf: the type invariant, that no wake-up is lost, that         *)
(* O_NONBLOCK readers never sleep in read, that a woken reader gets the    *)
(* whole message, and the refinement of MessageLatch.                      *)
(***************************************************************************)
EXTENDS PollDevice, FiniteSetTheorems, TLAPS

(* Each process is where its own program can be.                           *)
RolesOK ==
    /\ \A w \in Writers : pc[w] \in WriterLabels
    /\ \A r \in Blocking : pc[r] \in ReaderLabels \ (PollLabels \cup {"eagain"})
    /\ \A r \in Nonblock : pc[r] \in ReaderLabels \ WaitLabels

(* A wake-up finds flag set.  Whoever comes past the test of O_NONBLOCK    *)
(* with O_NONBLOCK, or past a poll, can rely on it: nothing resets it.     *)
FlagSeen ==
    /\ \A w \in Writers : pc[w] = "wake" => flag = 1
    /\ \A r \in Nonblock :
          pc[r] \in {"wait_event", "strlen", "copy_to_user", "done"} => flag = 1
    /\ \A r \in polling : pc[r] = "read" => flag = 1

(* The programs that poll are 18_Poll/read.c from their start on.          *)
PollersPoll ==
    \A r \in Nonblock :
        /\ pc[r] \in PollLabels => r \in polling
        /\ pc[r] = "idle" => r \notin polling

(* A sleep that a signal ended is remembered until the read returns.       *)
EndedOK ==
    \A r \in Readers :
        /\ ended[r] = "signal" => pc[r] \in {"strlen", "copy_to_user", "done"}
        /\ pc[r] \in {"strlen", "copy_to_user", "done"} /\ ended[r] # "signal" => flag = 1

(* What is stored of a message is text, as long as no write has failed.    *)
KbufFull == \A c \in Cells : kbuf[c] = Text

StoredIsText ==
    ~faulted => \A w \in Writers : pc[w] \in {"copy", "wake"} =>
        \A c \in Cells \ todo[w] : kbuf[c] = Text

(* What a wake-up publishes stays: a reader off the queue finds the whole  *)
(* message in kbuf, and so does it after its sleep.                        *)
WokenSeesAll ==
    ~faulted => \A r \in Readers :
        /\ pc[r] \in {"recheck", "schedule"} /\ r \notin read_wq => KbufFull
        /\ ended[r] = "woken" => KbufFull
        /\ pc[r] = "copy_to_user" /\ ended[r] = "woken" => len[r] = KbufCells

Roles == TypeOK /\ RolesOK /\ FlagSeen /\ PollersPoll /\ EndedOK
Data == StoredIsText /\ WokenSeesAll /\ WokenReadsAll
IInv == Roles /\ NoLostWakeup /\ Data

USE DEF Readers, Procs, Goto, writerVars, readerVars

-----------------------------------------------------------------------------
(* A reader receives at most the cells of kbuf, and all of a whole message. *)
LEMMA ReceivedType ==
  ASSUME NEW n \in 0..KbufCells
  PROVE  /\ Received(n) \in 0..KbufCells
         /\ KbufFull => Received(KbufCells) = KbufCells
<1> DEFINE S(m) == {c \in 1..m : kbuf[c] = Text}
<1>1. IsFiniteSet(1..n) /\ Cardinality(1..n) = n
  BY KbufCellsAssumption, FS_Interval
<1>2. IsFiniteSet(1..KbufCells) /\ Cardinality(1..KbufCells) = KbufCells
  BY KbufCellsAssumption, FS_Interval
<1>3. Cardinality(S(n)) \in Nat /\ Cardinality(S(n)) <= n
  <2>1. S(n) \subseteq 1..n
    OBVIOUS
  <2> HIDE DEF S
  <2> QED
    BY <1>1, <2>1, FS_Subset, FS_CardinalityType
<1>4. KbufFull => S(KbufCells) = 1..KbufCells
  BY DEF KbufFull, Cells
<1>5. \A m : Received(m) = Cardinality(S(m))
  BY DEF Received
<1> HIDE DEF S
<1>6. Received(n) \in 0..KbufCells
  BY <1>3, <1>5, KbufCellsAssumption
<1> QED
  BY <1>2, <1>4, <1>5, <1>6

LEMMA InitIInv == Init => IInv
<1> SUFFICES ASSUME Init PROVE IInv
  OBVIOUS
<1>1. TypeOK
  <2>1. kbuf \in [Cells -> {Text, Blank}] /\ faulted \in BOOLEAN
    BY Zenon DEF Init
  <2>2. 0 \in 0..KbufCells
    BY KbufCellsAssumption
  <2> QED
    BY <2>1, <2>2 DEF Init, TypeOK, WriterLabels
<1>2. RolesOK /\ FlagSeen /\ PollersPoll /\ EndedOK /\ NoLostWakeup
  BY DEF Init, RolesOK, FlagSeen, PollersPoll, EndedOK, NoLostWakeup, WriterLabels,
     ReaderLabels, WaitLabels, PollLabels
<1>3. Data
  BY RolesAssumption DEF Init, Data, StoredIsText, WokenSeesAll, WokenReadsAll
<1> QED
  BY <1>1, <1>2, <1>3 DEF IInv, Roles

(* The steps of a writer.                                                  *)
LEMMA WriterType ==
  ASSUME IInv, NEW w \in Writers, BeginWrite(w) \/ Write(w)
  PROVE  TypeOK'
<1>1. CASE BeginWrite(w)
  BY <1>1, KbufCellsAssumption DEF BeginWrite, IInv, Roles, TypeOK, WriterLabels, Cells
<1>2. CASE StoreCell(w)
  BY <1>2, KbufCellsAssumption DEF StoreCell, IInv, Roles, TypeOK, WriterLabels, Cells
<1>3. CASE CopyFailed(w)
  BY <1>3, KbufCellsAssumption DEF CopyFailed, IInv, Roles, TypeOK, WriterLabels, Cells
<1>4. CASE SetFlag(w)
  BY <1>4, KbufCellsAssumption DEF SetFlag, IInv, Roles, TypeOK, WriterLabels, Cells
<1>5. CASE WakeUp(w)
  BY <1>5, KbufCellsAssumption DEF WakeUp, IInv, Roles, TypeOK, WriterLabels, Cells
<1> QED
  BY <1>1, <1>2, <1>3, <1>4, <1>5 DEF Write

LEMMA WriterRoles ==
  ASSUME IInv, NEW w \in Writers, BeginWrite(w) \/ Write(w)
  PROVE  (RolesOK /\ FlagSeen /\ PollersPoll /\ EndedOK /\ NoLostWakeup)'
<1> USE DEF IInv, Roles, TypeOK, RolesOK, FlagSeen, PollersPoll, EndedOK, NoLostWakeup
<1>1. CASE BeginWrite(w)
  BY <1>1, RolesAssumption DEF BeginWrite, WriterLabels
<1>2. CASE StoreCell(w)
  BY <1>2, RolesAssumption DEF StoreCell, WriterLabels
<1>3. CASE CopyFailed(w)
  BY <1>3, RolesAssumption DEF CopyFailed, WriterLabels
<1>4. CASE SetFlag(w)
  BY <1>4, RolesAssumption DEF SetFlag, WriterLabels
<1>5. CASE WakeUp(w)
  BY <1>5, RolesAssumption DEF WakeUp, WriterLabels
<1> QED
  BY <1>1, <1>2, <1>3, <1>4, <1>5 DEF Write

(* The steps of a reader.                                                  *)
ReaderStep(r) == RunBlocking(r) \/ RunNonblock(r) \/ RunPoller(r) \/ Poll(r) \/ Read(r) \/ Signal(r)

LEMMA ReaderType ==
  ASSUME IInv, NEW r \in Readers, ReaderStep(r)
  PROVE  TypeOK'
<1> USE DEF IInv, Roles, TypeOK, ReaderLabels, WaitLabels, PollLabels
<1>1. CASE RunBlocking(r)
  BY <1>1 DEF RunBlocking
<1>2. CASE RunNonblock(r)
  BY <1>2 DEF RunNonblock
<1>3. CASE RunPoller(r)
  BY <1>3 DEF RunPoller
<1>4. CASE PollWait(r)
  BY <1>4 DEF PollWait
<1>5. CASE PollTest(r)
  BY <1>5 DEF PollTest, Pollin
<1>6. CASE PollWoken(r)
  BY <1>6 DEF PollWoken
<1>7. CASE PollTimeout(r)
  BY <1>7 DEF PollTimeout
<1>8. CASE PollLast(r)
  BY <1>8 DEF PollLast, Pollin
<1>9. CASE TestNonblock(r)
  BY <1>9 DEF TestNonblock
<1>10. CASE WaitEvent(r)
  BY <1>10 DEF WaitEvent
<1>11. CASE PrepareToWait(r)
  BY <1>11 DEF PrepareToWait
<1>12. CASE Recheck(r)
  BY <1>12 DEF Recheck
<1>13. CASE RecheckSignal(r)
  BY <1>13 DEF RecheckSignal
<1>14. CASE Schedule(r)
  BY <1>14 DEF Schedule
<1>15. CASE Signal(r)
  BY <1>15 DEF Signal
<1>16. CASE ReadStrlen(r)
  BY <1>16 DEF ReadStrlen
<1>17. CASE CopyToUser(r)
  BY <1>17, ReceivedType DEF CopyToUser
<1>18. CASE CopyToUserFailed(r) \/ ReadDone(r) \/ ReadEagain(r)
  BY <1>18, KbufCellsAssumption DEF CopyToUserFailed, ReadDone, ReadEagain, ReadReturns
<1> QED
  BY <1>1, <1>2, <1>3, <1>4, <1>5, <1>6, <1>7, <1>8, <1>9, <1>10, <1>11, <1>12, <1>13, <1>14, <1>15, <1>16, <1>17, <1>18 DEF ReaderStep, Poll, Read

LEMMA ReaderRoles ==
  ASSUME IInv, NEW r \in Readers, ReaderStep(r)
  PROVE  (RolesOK /\ FlagSeen /\ PollersPoll /\ EndedOK /\ NoLostWakeup)'
<1> USE RolesAssumption
    DEF IInv, Roles, TypeOK, RolesOK, FlagSeen, PollersPoll, EndedOK, NoLostWakeup,
        ReaderLabels, WaitLabels, PollLabels
<1>1. CASE RunBlocking(r)
  BY <1>1 DEF RunBlocking
<1>2. CASE RunNonblock(r)
  BY <1>2 DEF RunNonblock
<1>3. CASE RunPoller(r)
  BY <1>3 DEF RunPoller
<1>4. CASE PollWait(r)
  BY <1>4 DEF PollWait
<1>5. CASE PollTest(r)
  BY <1>5 DEF PollTest, Pollin
<1>6. CASE PollWoken(r)
  BY <1>6 DEF PollWoken
<1>7. CASE PollTimeout(r)
  BY <1>7 DEF PollTimeout
<1>8. CASE PollLast(r)
  BY <1>8 DEF PollLast, Pollin
<1>9. CASE TestNonblock(r)
  BY <1>9 DEF TestNonblock
<1>10. CASE WaitEvent(r)
  BY <1>10 DEF WaitEvent
<1>11. CASE PrepareToWait(r)
  BY <1>11 DEF PrepareToWait
<1>12. CASE Recheck(r)
  BY <1>12 DEF Recheck
<1>13. CASE RecheckSignal(r)
  BY <1>13 DEF RecheckSignal
<1>14. CASE Schedule(r)
  BY <1>14 DEF Schedule
<1>15. CASE Signal(r)
  BY <1>15 DEF Signal
<1>16. CASE ReadStrlen(r)
  BY <1>16 DEF ReadStrlen
<1>17. CASE CopyToUser(r)
  BY <1>17 DEF CopyToUser
<1>18. CASE CopyToUserFailed(r) \/ ReadDone(r) \/ ReadEagain(r)
  BY <1>18 DEF CopyToUserFailed, ReadDone, ReadEagain, ReadReturns
<1> QED
  BY <1>1, <1>2, <1>3, <1>4, <1>5, <1>6, <1>7, <1>8, <1>9, <1>10, <1>11, <1>12, <1>13, <1>14, <1>15, <1>16, <1>17, <1>18 DEF ReaderStep, Poll, Read

-----------------------------------------------------------------------------
(* The message itself, through the stores of all writers and the sleep and *)
(* the two passes over kbuf of every reader.                               *)
LEMMA WriterData ==
  ASSUME IInv, NEW w \in Writers, BeginWrite(w) \/ Write(w)
  PROVE  Data'
<1> USE RolesAssumption
    DEF IInv, Roles, TypeOK, Data, StoredIsText, WokenSeesAll, WokenReadsAll, KbufFull
<1>1. CASE BeginWrite(w)
  BY <1>1 DEF BeginWrite
<1>2. CASE StoreCell(w)
  <2>1. PICK c \in todo[w] :
          /\ kbuf' = [kbuf EXCEPT ![c] = IF c <= filled[w] THEN Text ELSE Blank]
          /\ todo' = [todo EXCEPT ![w] = @ \ {c}]
          /\ faulted' = (faulted \/ c > filled[w])
          /\ UNCHANGED <<flag, read_wq, pc, polling, filled, readerVars>>
    BY <1>2 DEF StoreCell
  <2>2. ~faulted' => ~faulted /\ kbuf' = [kbuf EXCEPT ![c] = Text]
    <3>1. c > filled[w] \/ c <= filled[w]
      <4>1. c \in 1..KbufCells /\ filled[w] \in 0..KbufCells
        BY DEF Cells
      <4> QED
        BY ONLY <4>1, KbufCellsAssumption
    <3>2. ~faulted' => ~faulted /\ ~(c > filled[w])
      BY ONLY <2>1, Zenon
    <3> QED
      BY <2>1, <3>1, <3>2
  <2>3. UNCHANGED <<read_wq, pc, ended, len, got>>
    BY <2>1
  <2>4. StoredIsText'
    BY <2>1, <2>2
  <2>5. KbufFull /\ ~faulted' => KbufFull'
    BY <2>2
  <2>6. WokenSeesAll' /\ WokenReadsAll'
    <3> HIDE DEF KbufFull
    <3> QED
      BY <2>2, <2>3, <2>5
  <2> QED
    BY <2>4, <2>6
<1>3. CASE CopyFailed(w)
  BY <1>3 DEF CopyFailed
<1>4. CASE SetFlag(w)
  BY <1>4 DEF SetFlag
<1>5. CASE WakeUp(w)
  BY <1>5 DEF WakeUp
<1> QED
  BY <1>1, <1>2, <1>3, <1>4, <1>5 DEF Write

LEMMA ReaderData ==
  ASSUME IInv, NEW r \in Readers, ReaderStep(r)
  PROVE  Data'
<1>0. StoredIsText'
  <2>1. UNCHANGED <<kbuf, todo, faulted>> /\ \A w \in Writers : pc'[w] = pc[w]
    BY RolesAssumption DEF IInv, Roles, TypeOK, ReaderStep, Poll, Read, RunBlocking, RunNonblock,
       RunPoller, PollWait, PollTest, PollWoken, PollTimeout, PollLast, TestNonblock,
       WaitEvent, PrepareToWait, Recheck, RecheckSignal, Schedule, Signal, ReadStrlen,
       CopyToUser, CopyToUserFailed, ReadDone, ReadEagain, ReadReturns
  <2> QED
    BY <2>1 DEF IInv, Data, StoredIsText
<1> SUFFICES (WokenSeesAll /\ WokenReadsAll)'
  BY <1>0 DEF Data
<1> USE DEF IInv, Roles, TypeOK, Data, WokenSeesAll, WokenReadsAll, KbufFull
<1>1. CASE RunBlocking(r)
  BY <1>1 DEF RunBlocking
<1>2. CASE RunNonblock(r)
  BY <1>2 DEF RunNonblock
<1>3. CASE RunPoller(r)
  BY <1>3 DEF RunPoller
<1>4. CASE PollWait(r)
  BY <1>4 DEF PollWait
<1>5. CASE PollTest(r)
  BY <1>5 DEF PollTest
<1>6. CASE PollWoken(r)
  BY <1>6 DEF PollWoken
<1>7. CASE PollTimeout(r)
  BY <1>7 DEF PollTimeout
<1>8. CASE PollLast(r)
  BY <1>8 DEF PollLast
<1>9. CASE TestNonblock(r)
  BY <1>9 DEF TestNonblock
<1>10. CASE WaitEvent(r)
  BY <1>10 DEF WaitEvent
<1>11. CASE PrepareToWait(r)
  BY <1>11 DEF PrepareToWait
<1>12. CASE Recheck(r)
  BY <1>12 DEF Recheck
<1>13. CASE RecheckSignal(r)
  BY <1>13 DEF RecheckSignal
<1>14. CASE Schedule(r)
  BY <1>14 DEF Schedule
<1>15. CASE Signal(r)
  BY <1>15 DEF Signal
<1>16. CASE ReadStrlen(r)
  <2>1. PICK n \in 0..KbufCells :
          (n < KbufCells => kbuf[n + 1] = Blank) /\ len' = [len EXCEPT ![r] = n]
    BY <1>16 DEF ReadStrlen
  <2>2. KbufFull => n = KbufCells
    <3>1. n = KbufCells \/ (n < KbufCells /\ n + 1 \in Cells)
      BY ONLY KbufCellsAssumption, n \in 0..KbufCells DEF Cells
    <3>2. Text # Blank
      BY DEF Text, Blank
    <3> QED
      BY <2>1, <3>1, <3>2
  <2> QED
    BY <1>16, <2>1, <2>2 DEF ReadStrlen
<1>17. CASE CopyToUser(r)
  <2>1. KbufFull => Received(KbufCells) = KbufCells
    BY ReceivedType, KbufCellsAssumption
  <2> QED
    BY <1>17, <2>1 DEF CopyToUser
<1>18. CASE CopyToUserFailed(r) \/ ReadDone(r) \/ ReadEagain(r)
  BY <1>18 DEF CopyToUserFailed, ReadDone, ReadEagain, ReadReturns
<1> QED
  BY <1>1, <1>2, <1>3, <1>4, <1>5, <1>6, <1>7, <1>8, <1>9, <1>10, <1>11, <1>12, <1>13, <1>14, <1>15, <1>16, <1>17, <1>18 DEF ReaderStep, Poll, Read

LEMMA NextCases ==
  ASSUME Next
  PROVE  \/ \E w \in Writers : BeginWrite(w) \/ Write(w)
         \/ \E r \in Readers : ReaderStep(r)
BY DEF Next, ReaderStep

LEMMA NextIInv == IInv /\ [Next]_vars => IInv'
<1> SUFFICES ASSUME IInv, [Next]_vars PROVE IInv'
  OBVIOUS
<1>1. CASE Next
  BY <1>1, NextCases, WriterType, WriterRoles, WriterData, ReaderType, ReaderRoles,
     ReaderData DEF IInv, Roles
<1>2. CASE UNCHANGED vars
  BY <1>2 DEF vars, IInv, Roles, TypeOK, RolesOK, FlagSeen, PollersPoll, EndedOK,
     NoLostWakeup, Data, StoredIsText, WokenSeesAll, WokenReadsAll, KbufFull
<1> QED
  BY <1>1, <1>2

(* The inductive invariant holds in every reachable state.                 *)
THEOREM Invariance == Spec => []IInv
BY InitIInv, NextIInv, PTL DEF Spec

(* Type correctness of the blocking, non-blocking and polled reads, for    *)
(* all constants.                                                          *)
THEOREM TypeCorrect == Spec => []TypeOK
<1>1. IInv => TypeOK
  BY DEF IInv, Roles
<1> QED
  BY <1>1, Invariance, PTL

(* However many writers set flag and wake the queue, and however many      *)
(* readers come to it meanwhile, a reader asleep with flag set has a       *)
(* wake-up coming.                                                         *)
THEOREM WakeupsKept == Spec => []NoLostWakeup
<1>1. IInv => NoLostWakeup
  BY DEF IInv
<1> QED
  BY <1>1, Invariance, PTL

(* No reader with O_NONBLOCK ever sleeps in read, for all constants.       *)
THEOREM NonblockReturns == Spec => []NonblockNeverSleeps
<1>1. IInv => NonblockNeverSleeps
  BY DEF IInv, Roles, RolesOK, NonblockNeverSleeps
<1> QED
  BY <1>1, Invariance, PTL

(* A reader woken by any writer receives the whole message, however the    *)
(* stores of the other writers interleave with its two passes over kbuf.   *)
THEOREM MessageWhole == Spec => []WokenReadsAll
<1>1. IInv => WokenReadsAll
  BY DEF IInv, Data
<1> QED
  BY <1>1, Invariance, PTL

-----------------------------------------------------------------------------
(* The refinement: each step of the device is a step of MessageLatch or    *)
(* leaves flag and every reader's status as they are.                      *)

st == <<flag = 1, [r \in Readers |-> statusOf(r)]>>

Asking == {"read", "wait_event"} \cup WaitLabels
Past == {"strlen", "copy_to_user", "done"}

Stat(l, polls, end) ==
    IF l \in Asking THEN IF polls THEN "promised" ELSE "reading"
    ELSE IF l \in Past THEN IF end = "signal" THEN "cut" ELSE "passed"
    ELSE IF l = "eagain" THEN "refused" ELSE "away"

LEMMA StatusIs ==
  ASSUME NEW r
  PROVE  /\ statusOf(r) = Stat(pc[r], r \in polling, ended[r])
         /\ statusOf(r)' = Stat(pc'[r], r \in polling', ended'[r])
BY DEF statusOf, Stat, Asking, Past, WaitLabels

(* A step of a reader changes nobody else's status, and no flag.           *)
LEMMA OthersKeep ==
  ASSUME IInv, NEW r \in Readers, ReaderStep(r)
  PROVE  /\ flag' = flag
         /\ \A q \in Readers \ {r} :
               pc'[q] = pc[q] /\ (q \in polling' <=> q \in polling) /\ ended'[q] = ended[q]
BY DEF IInv, Roles, TypeOK, ReaderStep, Poll, Read, RunBlocking, RunNonblock,
   RunPoller, PollWait, PollTest, PollWoken, PollTimeout, PollLast, TestNonblock,
   WaitEvent, PrepareToWait, Recheck, RecheckSignal, Schedule, Signal, ReadStrlen,
   CopyToUser, CopyToUserFailed, ReadDone, ReadEagain, ReadReturns

(* What a step of a reader makes of its own status.                        *)
Changes(r, from, to) ==
    \/ from = to
    \/ from = "away" /\ to = "reading"
    \/ from = "away" /\ to = "promised" /\ flag = 1 /\ r \in Nonblock
    \/ from \in {"reading", "promised"} /\ to = "passed" /\ flag = 1
    \/ from = "reading" /\ to = "cut" /\ flag # 1 /\ r \in Blocking
    \/ from = "reading" /\ to = "refused" /\ flag # 1 /\ r \in Nonblock
    \/ from \in {"passed", "cut", "refused"} /\ to = "away"

LEMMA ReaderChanges ==
  ASSUME IInv, NEW r \in Readers, ReaderStep(r)
  PROVE  Changes(r, Stat(pc[r], r \in polling, ended[r]),
                    Stat(pc'[r], r \in polling', ended'[r]))
<1> USE RolesAssumption
    DEF IInv, Roles, TypeOK, RolesOK, FlagSeen, PollersPoll, EndedOK, ReaderLabels,
        WaitLabels, PollLabels, Changes, Stat, Asking, Past
<1>1. CASE RunBlocking(r)
  BY <1>1 DEF RunBlocking
<1>2. CASE RunNonblock(r)
  BY <1>2 DEF RunNonblock
<1>3. CASE RunPoller(r)
  BY <1>3 DEF RunPoller
<1>4. CASE PollWait(r)
  BY <1>4 DEF PollWait
<1>5. CASE PollTest(r)
  BY <1>5 DEF PollTest, Pollin
<1>6. CASE PollWoken(r)
  BY <1>6 DEF PollWoken
<1>7. CASE PollTimeout(r)
  BY <1>7 DEF PollTimeout
<1>8. CASE PollLast(r)
  BY <1>8 DEF PollLast, Pollin
<1>9. CASE TestNonblock(r)
  BY <1>9 DEF TestNonblock
<1>10. CASE WaitEvent(r)
  BY <1>10 DEF WaitEvent
<1>11. CASE PrepareToWait(r)
  BY <1>11 DEF PrepareToWait
<1>12. CASE Recheck(r)
  BY <1>12 DEF Recheck
<1>13. CASE RecheckSignal(r)
  BY <1>13 DEF RecheckSignal
<1>14. CASE Schedule(r)
  BY <1>14 DEF Schedule
<1>15. CASE Signal(r)
  BY <1>15 DEF Signal
<1>16. CASE ReadStrlen(r)
  BY <1>16 DEF ReadStrlen
<1>17. CASE CopyToUser(r)
  BY <1>17 DEF CopyToUser
<1>18. CASE CopyToUserFailed(r) \/ ReadDone(r) \/ ReadEagain(r)
  BY <1>18 DEF CopyToUserFailed, ReadDone, ReadEagain, ReadReturns
<1> QED
  BY <1>1, <1>2, <1>3, <1>4, <1>5, <1>6, <1>7, <1>8, <1>9, <1>10, <1>11, <1>12, <1>13, <1>14, <1>15, <1>16, <1>17, <1>18 DEF ReaderStep, Poll, Read

LEMMA ReaderRefines ==
  ASSUME IInv, NEW r \in Readers, ReaderStep(r)
  PROVE  Latch!Next \/ st' = st
<1> DEFINE from == statusOf(r)
           to == statusOf(r)'
           status == [q \in Readers |-> statusOf(q)]
<1>1. Changes(r, from, to)
  BY StatusIs, ReaderChanges
<1>2. flag' = flag /\ \A q \in Readers \ {r} : statusOf(q)' = statusOf(q)
  BY StatusIs, OthersKeep
<1>3. /\ status' = [status EXCEPT ![r] = to]
      /\ status[r] = from
  BY <1>2
<1>4. CASE from = to
  BY <1>2, <1>4 DEF st
<1> HIDE DEF from, to
<1> USE DEF Latch!Become
<1>5. CASE from = "away" /\ to = "reading"
  <2>1. Latch!Begin(r)
    BY <1>2, <1>3, <1>5 DEF Latch!Begin
  <2> QED
    BY <2>1 DEF Latch!Next, Latch!Readers
<1>6. CASE from = "away" /\ to = "promised" /\ flag = 1 /\ r \in Nonblock
  <2>1. Latch!Promise(r)
    BY <1>2, <1>3, <1>6 DEF Latch!Promise
  <2> QED
    BY <2>1 DEF Latch!Next, Latch!Readers
<1>7. CASE from \in {"reading", "promised"} /\ to = "passed" /\ flag = 1
  <2>1. Latch!Pass(r)
    BY <1>2, <1>3, <1>7 DEF Latch!Pass
  <2> QED
    BY <2>1 DEF Latch!Next, Latch!Readers
<1>8. CASE from = "reading" /\ to = "cut" /\ flag # 1 /\ r \in Blocking
  <2>1. Latch!Cut(r)
    BY <1>2, <1>3, <1>8 DEF Latch!Cut
  <2> QED
    BY <2>1 DEF Latch!Next, Latch!Readers
<1>9. CASE from = "reading" /\ to = "refused" /\ flag # 1 /\ r \in Nonblock
  <2>1. Latch!Refuse(r)
    BY <1>2, <1>3, <1>9 DEF Latch!Refuse
  <2> QED
    BY <2>1 DEF Latch!Next, Latch!Readers
<1>10. CASE from \in {"passed", "cut", "refused"} /\ to = "away"
  <2>1. Latch!Return(r)
    BY <1>2, <1>3, <1>10 DEF Latch!Return
  <2> QED
    BY <2>1 DEF Latch!Next, Latch!Readers
<1> QED
  BY <1>1, <1>4, <1>5, <1>6, <1>7, <1>8, <1>9, <1>10 DEF Changes

LEMMA WriterRefines ==
  ASSUME IInv, NEW w \in Writers, BeginWrite(w) \/ Write(w)
  PROVE  Latch!Next \/ st' = st
<1>1. \A q \in Readers :
        pc'[q] = pc[q] /\ (q \in polling' <=> q \in polling) /\ ended'[q] = ended[q]
  BY RolesAssumption DEF IInv, Roles, TypeOK, Write, BeginWrite, StoreCell, CopyFailed,
     SetFlag, WakeUp
<1>2. \A q \in Readers : statusOf(q)' = statusOf(q)
  BY <1>1, StatusIs
<1>3. CASE flag' = flag
  BY <1>2, <1>3 DEF st
<1>4. CASE flag' = 1
  <2>1. Latch!Set
    BY <1>2, <1>4 DEF Latch!Set
  <2> QED
    BY <2>1 DEF Latch!Next
<1>5. flag' = flag \/ flag' = 1
  BY DEF Write, BeginWrite, StoreCell, CopyFailed, SetFlag, WakeUp
<1> QED
  BY <1>3, <1>4, <1>5

(* The driver implements the latch, for all constants: whatever the        *)
(* writers and the other readers do between its tests of flag, a reader    *)
(* passes it, is cut short or is refused only when it may be.              *)
THEOREM Refinement == Spec => LatchesMessages
<1>1. Init => Latch!Init
  <2> SUFFICES ASSUME Init PROVE Latch!Init
    OBVIOUS
  <2>1. \A r \in Readers : statusOf(r) = "away"
    BY StatusIs DEF Init, Stat, Asking, Past, WaitLabels
  <2>2. (flag = 1) = FALSE
    BY DEF Init
  <2> QED
    BY <2>1, <2>2 DEF Latch!Init, Latch!Readers
<1>2. IInv /\ [Next]_vars => [Latch!Next]_st
  <2> SUFFICES ASSUME IInv, [Next]_vars PROVE Latch!Next \/ st' = st
    OBVIOUS
  <2>1. CASE Next
    BY <2>1, NextCases, WriterRefines, ReaderRefines
  <2>2. CASE UNCHANGED vars
    <3>1. \A r \in Readers : statusOf(r)' = statusOf(r)
      BY <2>2, StatusIs DEF vars
    <3> QED
      BY <2>2, <3>1 DEF vars, st
  <2> QED
    BY <2>1, <2>2
<1> QED
  BY <1>1, <1>2, Invariance, PTL DEF Spec, LatchesMessages, Latch!Spec, Latch!vars, st
===============================================================================
