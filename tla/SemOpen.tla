------------------------------- MODULE SemOpen -------------------------------
(***************************************************************************)
(* 14_sem/sem.c: open_test is down(&semaphore_test), release_test is       *)
(* up(&semaphore_test), and the semaphore starts at 1.  A process that     *)
(* finds it at 0 sleeps in open_test, uninterruptibly, until its turn.     *)
(*                                                                         *)
(* The kernel's semaphore is external: a count and a first-in first-out    *)
(* list of waiters under an internal lock.  up() on a non-empty list does  *)
(* not raise the count but hands the semaphore to the first waiter, which  *)
(* returns from down() when it next runs.                                  *)
(***************************************************************************)
EXTENDS GuardedDevice, Sequences

VARIABLES count,      (* semaphore_test.count                                *)
          wait_list,  (* semaphore_test.wait_list, first waiter first        *)
          up          (* waiters handed the semaphore that still have to run *)

semVars == <<count, wait_list, up>>
vars == <<appVars, semVars>>

appUnchanged == UNCHANGED <<word, copied, kbuf>>

Labels == AppLabels \cup {"down"}

Waiting == {wait_list[i] : i \in DOMAIN wait_list}

TypeOK ==
    /\ AppTypeOK
    /\ pc \in [Procs -> Labels]
    /\ count \in {0, 1}
    /\ wait_list \in Seq(Procs)
    /\ up \in SUBSET Procs

(* Mutant: sema_init(&semaphore_test, 2). *)
InitTwo ==
    /\ AppInit
    /\ count = 2
    /\ wait_list = <<>>
    /\ up = {}

Init ==
    /\ AppInit
    /\ count = 1
    /\ wait_list = <<>>
    /\ up = {}

-----------------------------------------------------------------------------
(* open_test: down() takes the semaphore at once, or queues and sleeps. *)

DownFree(p) ==
    /\ count > 0
    /\ Goto(p, "open", "opened")
    /\ count' = count - 1
    /\ UNCHANGED <<wait_list, up>> /\ appUnchanged

DownWait(p) ==
    /\ count = 0
    /\ Goto(p, "open", "down")
    /\ wait_list' = Append(wait_list, p)
    /\ UNCHANGED <<count, up>> /\ appUnchanged

(* Mutant: down_interruptible, whose result open_test does not look at. *)
DownInterrupted(p) ==
    /\ Goto(p, "down", "opened")
    /\ up' = up \ {p}
    /\ wait_list' = SelectSeq(wait_list, LAMBDA q : q # p)
    /\ UNCHANGED count /\ appUnchanged

DownWoken(p) ==
    /\ p \in up
    /\ Goto(p, "down", "opened")
    /\ up' = up \ {p}
    /\ UNCHANGED <<count, wait_list>> /\ appUnchanged

-----------------------------------------------------------------------------
(* release_test: up() raises the count, or hands over to the first waiter. *)

(* Mutant: release_test calls up twice. *)
UpTwice(p) ==
    /\ wait_list = <<>>
    /\ Goto(p, "close", "idle")
    /\ count' = count + 2
    /\ UNCHANGED <<wait_list, up>> /\ appUnchanged

UpNoWaiter(p) ==
    /\ wait_list = <<>>
    /\ Goto(p, "close", "idle")
    /\ count' = count + 1
    /\ UNCHANGED <<wait_list, up>> /\ appUnchanged

(* Mutant: release_test returns before its up. *)
UpForgotten(p) ==
    /\ wait_list # <<>>
    /\ Goto(p, "close", "idle")
    /\ UNCHANGED semVars /\ appUnchanged

UpHandOver(p) ==
    /\ wait_list # <<>>
    /\ Goto(p, "close", "idle")
    /\ up' = up \cup {Head(wait_list)}
    /\ wait_list' = Tail(wait_list)
    /\ UNCHANGED count /\ appUnchanged

-----------------------------------------------------------------------------
GuardStep(p) ==
    \/ DownFree(p) \/ DownWait(p) \/ DownWoken(p)
    \/ UpNoWaiter(p) \/ UpHandOver(p)

AppOnly(p) == AppStep(p) /\ UNCHANGED semVars

Start(p) == RunApp(p) /\ UNCHANGED semVars

Next == \E p \in Procs : Start(p) \/ AppOnly(p) \/ GuardStep(p)

(* A running or woken process keeps running; whether a user starts the     *)
(* program is left open.  The hand-over in up() makes weak fairness enough.*)
Fairness == \A p \in Procs : WF_vars(AppOnly(p) \/ GuardStep(p))

Spec == Init /\ [][Next]_vars
FairSpec == Spec /\ Fairness

-----------------------------------------------------------------------------
statusOf(l) ==
    CASE l = "idle" -> "idle"
      [] l \in {"open", "down"} -> "opening"
      [] OTHER -> "open"

Device == INSTANCE ExclusiveOpen WITH status <- [p \in Procs |-> statusOf(pc[p])]

(* The semaphore driver implements exclusive open (and never refuses).     *)
ExclusiveDevice == Device!Spec

(* The semaphore is in exactly one place: in the count, with a process     *)
(* that has the device open, or on its way to a waiter that up() chose.    *)
(* Nobody waits for it while it lies in the count, so a late caller of     *)
(* open cannot slip past the queue, and no hand-over is lost or doubled.   *)
HasToken(p) == pc[p] \in FdOpen \/ p \in up

OneToken ==
    /\ \A p, q \in Procs : HasToken(p) /\ HasToken(q) => p = q
    /\ count = 1 <=> \A p \in Procs : ~HasToken(p)
    /\ count = 1 => wait_list = <<>>
    /\ \A p \in Procs : pc[p] = "down" <=> (p \in Waiting \/ p \in up)

(* Whoever is ahead in the queue of down() stays ahead until it has the    *)
(* device: neither a process behind it, nor one that calls open later,     *)
(* nor one that the hand-over finds first on a processor, gets past it.    *)
Ahead(p, q) ==
    /\ pc[q] \notin FdOpen
    /\ q \notin up
    /\ \/ p \in up
       \/ \E i \in DOMAIN wait_list :
            wait_list[i] = p /\ \A j \in 1..i : wait_list[j] # q

NoOvertaking ==
    [][\A p, q \in Procs : Ahead(p, q) => Ahead(p, q)' \/ pc'[p] = "opened"]_vars
=============================================================================
