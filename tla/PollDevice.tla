------------------------------ MODULE PollDevice ------------------------------
(***************************************************************************)
(* 18_Poll/poll.c, with the programs of 16_wait_queue, 17_no_wait_queue    *)
(* and 18_Poll that use it: a writer fills kbuf, sets flag and wakes the   *)
(* wait queue read_wq; a reader blocks until flag is set, or gets -EAGAIN  *)
(* (O_NONBLOCK), or polls first.  The driver of 16 is the one of 18        *)
(* without the O_NONBLOCK test and without poll, the driver of 17 without  *)
(* poll, so their readers are the Blocking and the Nonblock ones here.     *)
(*                                                                         *)
(* kbuf is KbufCells cells, Text in a cell that the message covers, Blank  *)
(* where it is zero.  No lock and no barrier orders the stores into kbuf   *)
(* before the store into flag, so on the arm64 that the Makefiles build    *)
(* for, a process may see flag = 1 before it sees the message: todo holds  *)
(* the cells of a write that are not visible yet.  The wait queue's lock,  *)
(* taken by wake_up_interruptible, makes all of them visible.              *)
(***************************************************************************)
EXTENDS Naturals, FiniteSets

CONSTANTS Writers,     (* run write.c                                        *)
          Blocking,    (* run 16_wait_queue/read.c: open without O_NONBLOCK  *)
          Nonblock,    (* run 17_no_wait_queue/read.c or 18_Poll/read.c:     *)
                       (* open with O_NONBLOCK, 18 polls before it reads     *)
          KbufCells    (* number of cells that stand for kbuf[32]            *)

ASSUME KbufCellsAssumption == KbufCells \in Nat \ {0}
ASSUME RolesAssumption ==
    /\ Writers \cap (Blocking \cup Nonblock) = {}
    /\ Blocking \cap Nonblock = {}

Readers == Blocking \cup Nonblock
Procs   == Writers \cup Readers
Cells   == 1..KbufCells
Text    == "nihao"
Blank   == ""

VARIABLES flag,      (* dev1.flag                                            *)
          kbuf,      (* dev1.kbuf, as the other processors see it            *)
          read_wq,   (* on the wait queue and asleep or about to sleep       *)
          pc,        (* where each process is in its program and the driver  *)
          polling,   (* the readers that run 18_Poll/read.c                  *)
          filled,    (* cells that the writer's copy_from_user manages       *)
          todo,      (* cells of the write that are not visible yet          *)
          sig,       (* readers in wait_event with a pending signal          *)
          ended,     (* what ended the reader's sleep in wait_event, if any  *)
          len,       (* the reader's strlen(kbuf)                            *)
          got,       (* cells of message text that the reader received       *)
          faulted    (* some copy_from_user has failed (history)             *)

writerVars == <<filled, todo, faulted>>
readerVars == <<sig, ended, len, got>>
vars == <<flag, kbuf, read_wq, pc, polling, writerVars, readerVars>>

WriterLabels == {"idle", "copy", "wake"}
WaitLabels   == {"prepare", "recheck", "recheck_signal", "schedule"}
PollLabels   == {"poll", "poll_test", "poll_sleep", "poll_last"}
ReaderLabels == {"idle", "read", "eagain", "wait_event", "strlen", "copy_to_user",
                 "done"} \cup WaitLabels \cup PollLabels

TypeOK ==
    /\ flag \in {0, 1}
    /\ kbuf \in [Cells -> {Text, Blank}]
    /\ read_wq \in SUBSET Readers
    /\ pc \in [Procs -> WriterLabels \cup ReaderLabels]
    /\ polling \in SUBSET Nonblock
    /\ filled \in [Writers -> 0..KbufCells]
    /\ todo \in [Writers -> SUBSET Cells]
    /\ sig \in SUBSET Blocking
    /\ ended \in [Readers -> {"no", "woken", "signal"}]
    /\ len \in [Readers -> 0..KbufCells]
    /\ got \in [Readers -> 0..KbufCells]
    /\ faulted \in BOOLEAN

Init ==
    /\ flag = 0
    /\ kbuf = [c \in Cells |-> Blank]
    /\ read_wq = {}
    /\ pc = [p \in Procs |-> "idle"]
    /\ polling = {}
    /\ filled = [w \in Writers |-> 0]
    /\ todo = [w \in Writers |-> {}]
    /\ sig = {}
    /\ ended = [r \in Readers |-> "no"]
    /\ len = [r \in Readers |-> 0]
    /\ got = [r \in Readers |-> 0]
    /\ faulted = FALSE

Goto(p, from, to) ==
    /\ pc[p] = from
    /\ pc' = [pc EXCEPT ![p] = to]

-----------------------------------------------------------------------------
(* write.c and cdev_test_write.  A copy_from_user that manages fewer than  *)
(* all cells zeroes the rest of kbuf and makes the write return -1.        *)

BeginWrite(w) ==
    /\ Goto(w, "idle", "copy")
    /\ \E n \in 0..KbufCells : filled' = [filled EXCEPT ![w] = n]
    /\ todo' = [todo EXCEPT ![w] = Cells]
    /\ UNCHANGED <<flag, kbuf, read_wq, polling, readerVars, faulted>>

StoreCell(w) ==
    \E c \in todo[w] :
        /\ kbuf' = [kbuf EXCEPT ![c] = IF c <= filled[w] THEN Text ELSE Blank]
        /\ todo' = [todo EXCEPT ![w] = @ \ {c}]
        /\ faulted' = (faulted \/ c > filled[w])
        /\ UNCHANGED <<flag, read_wq, pc, polling, filled, readerVars>>

CopyFailed(w) ==
    /\ filled[w] < KbufCells
    /\ todo[w] = {}
    /\ Goto(w, "copy", "idle")
    /\ filled' = [filled EXCEPT ![w] = 0]
    /\ UNCHANGED <<flag, kbuf, read_wq, polling, todo, faulted, readerVars>>

SetFlag(w) ==
    /\ filled[w] = KbufCells
    /\ Goto(w, "copy", "wake")
    /\ flag' = 1
    /\ UNCHANGED <<kbuf, read_wq, polling, writerVars, readerVars>>

(* Mutant: wake_up_interruptible is forgotten. *)
WakeUpForgotten(w) ==
    /\ todo[w] = {}
    /\ Goto(w, "wake", "idle")
    /\ filled' = [filled EXCEPT ![w] = 0]
    /\ UNCHANGED <<flag, kbuf, read_wq, polling, todo, faulted, readerVars>>

(* Mutant: the readers are woken by a means that orders no memory.         *)
WakeUpUnordered(w) ==
    /\ pc[w] = "wake" /\ read_wq # {}
    /\ read_wq' = {}
    /\ UNCHANGED <<flag, kbuf, pc, polling, writerVars, readerVars>>

WakeUp(w) ==
    /\ todo[w] = {}
    /\ Goto(w, "wake", "idle")
    /\ read_wq' = {}
    /\ filled' = [filled EXCEPT ![w] = 0]
    /\ UNCHANGED <<flag, kbuf, polling, todo, faulted, readerVars>>

-----------------------------------------------------------------------------
(* 18_Poll/read.c: poll with a timeout of three seconds.  The first call   *)
(* of cdev_test_poll puts the process on read_wq; a wake-up or the timeout *)
(* makes the kernel call it again.                                         *)

(* The POLLIN of cdev_test_poll. *)
(* Mutant: the test of flag is inverted. *)
PollinInverted == flag # 1

Pollin == flag = 1

PollWait(r) ==
    /\ Goto(r, "poll", "poll_test")
    /\ read_wq' = read_wq \cup {r}
    /\ UNCHANGED <<flag, kbuf, polling, writerVars, readerVars>>

PollTest(r) ==
    /\ Goto(r, "poll_test", IF Pollin THEN "read" ELSE "poll_sleep")
    /\ read_wq' = IF Pollin THEN read_wq \ {r} ELSE read_wq
    /\ UNCHANGED <<flag, kbuf, polling, writerVars, readerVars>>

PollWoken(r) ==
    /\ r \notin read_wq
    /\ Goto(r, "poll_sleep", "poll_test")
    /\ read_wq' = read_wq \cup {r}
    /\ UNCHANGED <<flag, kbuf, polling, writerVars, readerVars>>

PollTimeout(r) ==
    /\ Goto(r, "poll_sleep", "poll_last")
    /\ UNCHANGED <<flag, kbuf, read_wq, polling, writerVars, readerVars>>

PollLast(r) ==
    /\ Goto(r, "poll_last", IF Pollin THEN "read" ELSE "poll")
    /\ read_wq' = read_wq \ {r}
    /\ UNCHANGED <<flag, kbuf, polling, writerVars, readerVars>>

-----------------------------------------------------------------------------
(* cdev_test_read, up to the end of wait_event_interruptible. *)

RunBlocking(r) ==
    /\ r \in Blocking
    /\ Goto(r, "idle", "read")
    /\ UNCHANGED <<flag, kbuf, read_wq, polling, writerVars, readerVars>>

RunNonblock(r) ==
    /\ r \in Nonblock
    /\ Goto(r, "idle", "read")
    /\ UNCHANGED <<flag, kbuf, read_wq, polling, writerVars, readerVars>>

RunPoller(r) ==
    /\ r \in Nonblock
    /\ Goto(r, "idle", "poll")
    /\ polling' = polling \cup {r}
    /\ UNCHANGED <<flag, kbuf, read_wq, writerVars, readerVars>>

(* Mutant: cdev_test_read without wait_event_interruptible. *)
TestNonblockOnly(r) ==
    /\ Goto(r, "read", IF r \notin Blocking /\ flag # 1 THEN "eagain" ELSE "strlen")
    /\ UNCHANGED <<flag, kbuf, read_wq, polling, writerVars, readerVars>>

TestNonblock(r) ==
    /\ Goto(r, "read", IF r \notin Blocking /\ flag # 1 THEN "eagain" ELSE "wait_event")
    /\ UNCHANGED <<flag, kbuf, read_wq, polling, writerVars, readerVars>>

(* wait_event_interruptible returns at once if flag is set already.        *)
WaitEvent(r) ==
    /\ Goto(r, "wait_event", IF flag # 0 THEN "strlen" ELSE "prepare")
    /\ UNCHANGED <<flag, kbuf, read_wq, polling, writerVars, readerVars>>

PrepareToWait(r) ==
    /\ Goto(r, "prepare", IF r \in sig THEN "recheck_signal" ELSE "recheck")
    /\ read_wq' = IF r \in sig THEN read_wq \ {r} ELSE read_wq \cup {r}
    /\ UNCHANGED <<flag, kbuf, polling, writerVars, readerVars>>

(* Mutant: the reader goes to sleep without looking at flag again. *)
RecheckDropped(r) ==
    /\ Goto(r, "recheck", "schedule")
    /\ UNCHANGED <<flag, kbuf, read_wq, polling, writerVars, readerVars>>

(* The condition is evaluated once more after the process is on the queue. *)
Recheck(r) ==
    /\ Goto(r, "recheck", IF flag # 0 THEN "strlen" ELSE "schedule")
    /\ read_wq' = IF flag # 0 THEN read_wq \ {r} ELSE read_wq
    /\ sig' = IF flag # 0 THEN sig \ {r} ELSE sig
    /\ UNCHANGED <<flag, kbuf, polling, writerVars, ended, len, got>>

RecheckSignal(r) ==
    /\ Goto(r, "recheck_signal", "strlen")
    /\ sig' = sig \ {r}
    /\ ended' = [ended EXCEPT ![r] = IF flag = 0 THEN "signal" ELSE @]
    /\ UNCHANGED <<flag, kbuf, read_wq, polling, writerVars, len, got>>

(* schedule() returns when a wake-up has taken the process off the queue,  *)
(* or for a signal.                                                        *)
Schedule(r) ==
    /\ r \notin read_wq \/ r \in sig
    /\ Goto(r, "schedule", "prepare")
    /\ ended' = [ended EXCEPT ![r] = IF r \notin read_wq THEN "woken" ELSE "no"]
    /\ read_wq' = read_wq \ {r}
    /\ UNCHANGED <<flag, kbuf, polling, writerVars, sig, len, got>>

(* A signal for a reader inside wait_event: with the programs' default     *)
(* dispositions a job-control stop, after which the process goes on.       *)
Signal(r) ==
    /\ r \in Blocking \ sig
    /\ pc[r] \in WaitLabels
    /\ sig' = sig \cup {r}
    /\ UNCHANGED <<flag, kbuf, read_wq, pc, polling, writerVars, ended, len, got>>

-----------------------------------------------------------------------------
(* The rest of cdev_test_read: it looks at neither the result of           *)
(* wait_event_interruptible nor flag again.                                *)

StrLen(n) == \A c \in 1..n : kbuf[c] = Text
Received(n) == Cardinality({c \in 1..n : kbuf[c] = Text})

(* Mutant: the terminating zero is copied as well. *)
ReadStrlenPlusOne(r) ==
    /\ Goto(r, "strlen", "copy_to_user")
    /\ \E n \in 0..KbufCells :
          /\ StrLen(n) /\ (n < KbufCells => kbuf[n + 1] = Blank)
          /\ len' = [len EXCEPT ![r] = n + 1]
    /\ UNCHANGED <<flag, kbuf, read_wq, polling, writerVars, sig, ended, got>>

ReadStrlen(r) ==
    /\ Goto(r, "strlen", "copy_to_user")
    /\ \E n \in 0..KbufCells :
          /\ StrLen(n) /\ (n < KbufCells => kbuf[n + 1] = Blank)
          /\ len' = [len EXCEPT ![r] = n]
    /\ UNCHANGED <<flag, kbuf, read_wq, polling, writerVars, sig, ended, got>>

(* Mutant: the read consumes the message, it resets flag. *)
CopyToUserConsumes(r) ==
    /\ Goto(r, "copy_to_user", "done")
    /\ got' = [got EXCEPT ![r] = Received(len[r])]
    /\ flag' = 0
    /\ UNCHANGED <<kbuf, read_wq, polling, writerVars, sig, ended, len>>

CopyToUser(r) ==
    /\ Goto(r, "copy_to_user", "done")
    /\ got' = [got EXCEPT ![r] = Received(len[r])]
    /\ UNCHANGED <<flag, kbuf, read_wq, polling, writerVars, sig, ended, len>>

(* The programs ignore what read returns; only 18_Poll/read.c goes on.     *)
ReadReturns(r, from) ==
    /\ Goto(r, from, IF r \in polling THEN "poll" ELSE "idle")
    /\ ended' = [ended EXCEPT ![r] = "no"]
    /\ len' = [len EXCEPT ![r] = 0]
    /\ got' = [got EXCEPT ![r] = 0]
    /\ UNCHANGED <<flag, kbuf, read_wq, polling, writerVars, sig>>

CopyToUserFailed(r) == ReadReturns(r, "copy_to_user")
ReadDone(r) == ReadReturns(r, "done")
ReadEagain(r) == ReadReturns(r, "eagain")

-----------------------------------------------------------------------------
Write(w) == StoreCell(w) \/ CopyFailed(w) \/ SetFlag(w) \/ WakeUp(w)

Poll(r) == PollWait(r) \/ PollTest(r) \/ PollWoken(r) \/ PollTimeout(r) \/ PollLast(r)

Read(r) ==
    \/ TestNonblock(r) \/ WaitEvent(r) \/ PrepareToWait(r)
    \/ Recheck(r) \/ RecheckSignal(r) \/ Schedule(r)
    \/ ReadStrlen(r) \/ CopyToUser(r) \/ CopyToUserFailed(r)
    \/ ReadDone(r) \/ ReadEagain(r)

Next ==
    \/ \E w \in Writers : BeginWrite(w) \/ Write(w)
    \/ \E r \in Readers :
            \/ RunBlocking(r) \/ RunNonblock(r) \/ RunPoller(r)
            \/ Poll(r) \/ Read(r) \/ Signal(r)

(* A process inside a system call keeps running, and so does the poller's  *)
(* endless loop; its timeout expires.  Nothing makes anyone start a        *)
(* program, and signals need not come.                                     *)
Fairness ==
    /\ \A w \in Writers : WF_vars(Write(w))
    /\ \A r \in Readers : WF_vars(Poll(r) \/ Read(r))

Spec == Init /\ [][Next]_vars
FairSpec == Spec /\ Fairness

-----------------------------------------------------------------------------
(* A reader sleeps on read_wq with flag set only while the writer that set *)
(* it has not reached its wake-up: the test of flag after queueing closes  *)
(* the window between a reader's first look and its sleep.                 *)
NoLostWakeup ==
    flag = 1 /\ (\E r \in Readers : pc[r] \in {"schedule", "poll_sleep"} /\ r \in read_wq)
        => \E w \in Writers : pc[w] = "wake"

(* A program that opened the device with O_NONBLOCK never sleeps in read,  *)
(* although read tests flag twice and sleeps if the second test fails.     *)
NonblockNeverSleeps ==
    \A r \in Nonblock : pc[r] \notin WaitLabels

(* A reader whom a writer woke receives the whole message, unless some     *)
(* write failed: what waking it publishes includes kbuf.                   *)
WokenReadsAll ==
    \A r \in Readers :
        pc[r] = "done" /\ ended[r] = "woken" /\ ~faulted => got[r] = KbufCells

(* What each reader is to the latch.  A read that follows a POLLIN is      *)
(* promised; one that a signal let through before any message is cut.      *)
statusOf(r) ==
    CASE pc[r] \in {"read", "wait_event"} \cup WaitLabels ->
             IF r \in polling THEN "promised" ELSE "reading"
      [] pc[r] \in {"strlen", "copy_to_user", "done"} ->
             IF ended[r] = "signal" THEN "cut" ELSE "passed"
      [] pc[r] = "eagain" -> "refused"
      [] OTHER -> "away"

Latch == INSTANCE MessageLatch WITH
            Patient <- Blocking, Impatient <- Nonblock,
            set <- flag = 1, status <- [r \in Readers |-> statusOf(r)]

(* The device implements the latch: no read gets past wait_event before    *)
(* the first message unless a signal ends it, -EAGAIN is returned only     *)
(* before it, and what POLLIN promised holds at the read, whatever other   *)
(* readers and writers do between the tests of flag.                       *)
LatchesMessages == Latch!Spec

(* Once flag is set, every blocked reader returns.                         *)
BlockedReturns ==
    \A r \in Blocking : (flag = 1 /\ pc[r] \in WaitLabels) ~> pc[r] = "idle"

(* Once flag is set, the polling program gets to its read again and again. *)
PollerReads == \A r \in Nonblock : (flag = 1 /\ pc[r] \in PollLabels) ~> pc[r] = "strlen"

(* What 18_Poll/read.c takes POLLIN for: there is a message to read.  The  *)
(* code breaks it: a later write that fails leaves kbuf zeroed under a     *)
(* flag that stays 1, and the stores into kbuf may become visible after    *)
(* the store into flag.                                                    *)
PollinMeansData ==
    \A r \in polling : pc[r] = "done" => got[r] > 0
=============================================================================
