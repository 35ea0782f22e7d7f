------------------------------ MODULE MutexOpen ------------------------------
(***************************************************************************)
(* 15_mutex/mutex.c: open_test is mutex_lock(&mutex_test), release_test is *)
(* mutex_unlock(&mutex_test).                                              *)
(*                                                                         *)
(* The kernel's mutex is external: an owner word, a list of sleeping       *)
(* waiters and a hand-off flag.  A caller that finds the mutex free takes  *)
(* it even past the sleepers; the first sleeper, woken by an unlock and    *)
(* beaten to the mutex in this way, sets the flag, and the next unlock     *)
(* passes the ownership directly to it.                                    *)
(***************************************************************************)
EXTENDS GuardedDevice, Sequences

CONSTANT NoOwner     (* the owner word is empty *)

ASSUME NoOwnerAssumption == NoOwner \notin Procs

VARIABLES owner,      (* mutex_test.owner                                    *)
          wait_list,  (* mutex_test.wait_list, first waiter first            *)
          handoff     (* the first waiter wants the next unlock to hand over *)

mutexVars == <<owner, wait_list, handoff>>
vars == <<appVars, mutexVars>>

appUnchanged == UNCHANGED <<word, copied, kbuf>>

Labels == AppLabels \cup {"lock_wait"}

TypeOK ==
    /\ AppTypeOK
    /\ pc \in [Procs -> Labels]
    /\ owner \in Procs \cup {NoOwner}
    /\ wait_list \in Seq(Procs)
    /\ handoff \in BOOLEAN

Init ==
    /\ AppInit
    /\ owner = NoOwner
    /\ wait_list = <<>>
    /\ handoff = FALSE

FirstWaiter(p) == wait_list # <<>> /\ Head(wait_list) = p

-----------------------------------------------------------------------------
(* open_test: mutex_lock *)

(* Mutant: mutex_trylock, whose result open_test does not look at. *)
LockTried(p) ==
    /\ Goto(p, "open", "opened")
    /\ owner' = IF owner = NoOwner THEN p ELSE owner
    /\ UNCHANGED <<wait_list, handoff>> /\ appUnchanged

LockFree(p) ==
    /\ owner = NoOwner
    /\ Goto(p, "open", "opened")
    /\ owner' = p
    /\ UNCHANGED <<wait_list, handoff>> /\ appUnchanged

LockWait(p) ==
    /\ owner # NoOwner
    /\ Goto(p, "open", "lock_wait")
    /\ wait_list' = Append(wait_list, p)
    /\ UNCHANGED <<owner, handoff>> /\ appUnchanged

(* Mutant: mutex_lock_interruptible, whose result open_test does not look  *)
(* at.                                                                     *)
LockInterrupted(p) ==
    /\ Goto(p, "lock_wait", "opened")
    /\ owner' = IF owner = NoOwner THEN p ELSE owner
    /\ wait_list' = SelectSeq(wait_list, LAMBDA q : q # p)
    /\ handoff' = (handoff /\ ~FirstWaiter(p))
    /\ appUnchanged

(* The first waiter takes a free mutex, or one that was handed to it. *)
LockWoken(p) ==
    /\ FirstWaiter(p)
    /\ owner \in {NoOwner, p}
    /\ Goto(p, "lock_wait", "opened")
    /\ owner' = p
    /\ wait_list' = Tail(wait_list)
    /\ handoff' = FALSE
    /\ appUnchanged

LockBeaten(p) ==
    /\ FirstWaiter(p)
    /\ pc[p] = "lock_wait"
    /\ owner \notin {NoOwner, p}
    /\ ~handoff
    /\ handoff' = TRUE
    /\ UNCHANGED <<pc, owner, wait_list>> /\ appUnchanged

-----------------------------------------------------------------------------
(* release_test: mutex_unlock *)

(* Mutant: release_test returns before its mutex_unlock. *)
UnlockForgotten(p) ==
    /\ ~handoff
    /\ Goto(p, "close", "idle")
    /\ UNCHANGED mutexVars /\ appUnchanged

UnlockFree(p) ==
    /\ ~handoff
    /\ Goto(p, "close", "idle")
    /\ owner' = NoOwner
    /\ UNCHANGED <<wait_list, handoff>> /\ appUnchanged

UnlockHandOff(p) ==
    /\ handoff
    /\ Goto(p, "close", "idle")
    /\ owner' = Head(wait_list)
    /\ handoff' = FALSE
    /\ UNCHANGED wait_list /\ appUnchanged

-----------------------------------------------------------------------------
GuardStep(p) ==
    \/ LockFree(p) \/ LockWait(p) \/ LockWoken(p) \/ LockBeaten(p)
    \/ UnlockFree(p) \/ UnlockHandOff(p)

AppOnly(p) == AppStep(p) /\ UNCHANGED mutexVars

Start(p) == RunApp(p) /\ UNCHANGED mutexVars

Next == \E p \in Procs : Start(p) \/ AppOnly(p) \/ GuardStep(p)

(* A running or woken process keeps running; whether a user starts the     *)
(* program is left open.                                                   *)
Fairness == \A p \in Procs : WF_vars(AppOnly(p) \/ GuardStep(p))

Spec == Init /\ [][Next]_vars
FairSpec == Spec /\ Fairness

-----------------------------------------------------------------------------
statusOf(l) ==
    CASE l = "idle" -> "idle"
      [] l \in {"open", "lock_wait"} -> "opening"
      [] OTHER -> "open"

Device == INSTANCE ExclusiveOpen WITH status <- [p \in Procs |-> statusOf(pc[p])]

(* The mutex driver implements exclusive open (and never refuses).         *)
ExclusiveDevice == Device!Spec

(* A mutex may be unlocked only by the task that locked it.  release_test  *)
(* runs in the process that closes the descriptor; that it is the one      *)
(* whose open_test locked the mutex is a matter of the whole history.      *)
UnlockedByOwner == \A p \in Procs : pc[p] = "close" => owner = p
=============================================================================
