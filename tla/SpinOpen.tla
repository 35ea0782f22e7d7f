------------------------------ MODULE SpinOpen ------------------------------
(***************************************************************************)
(* 12_spinlock/spin_lock.c: open_test and release_test keep a flag under a *)
(* spinlock.  flag = 1 means that the device is free; open_test takes it,  *)
(* or returns -EBUSY.                                                      *)
(***************************************************************************)
EXTENDS GuardedDevice

CONSTANT NoOwner     (* the spinlock is not held *)

ASSUME NoOwnerAssumption == NoOwner \notin Procs

VARIABLES spinlock_test,   (* the process that holds the spinlock, or NoOwner *)
          flag             (* 1: device free, 0: taken                         *)

vars == <<appVars, spinlock_test, flag>>

appUnchanged == UNCHANGED <<word, copied, kbuf>>

Labels == AppLabels \cup
    {"open_locked", "open_free", "open_taken", "open_busy",
     "release_locked", "release_cleared"}

TypeOK ==
    /\ AppTypeOK
    /\ pc \in [Procs -> Labels]
    /\ spinlock_test \in Procs \cup {NoOwner}
    /\ flag \in {0, 1}

Init ==
    /\ AppInit
    /\ spinlock_test = NoOwner
    /\ flag = 1

-----------------------------------------------------------------------------
(* spin_lock and spin_unlock, as the driver uses them. *)

SpinLock(p) ==
    /\ spinlock_test = NoOwner
    /\ spinlock_test' = p

SpinUnlock(p) == spinlock_test' = NoOwner

-----------------------------------------------------------------------------
(* open_test *)

(* Mutant: open_test forgets spin_lock. *)
OpenLockForgotten(p) ==
    /\ Goto(p, "open", "open_locked")
    /\ UNCHANGED <<spinlock_test, flag>> /\ appUnchanged

OpenLock(p) ==
    /\ Goto(p, "open", "open_locked")
    /\ SpinLock(p)
    /\ UNCHANGED flag /\ appUnchanged

(* Mutant: the test of flag is dropped. *)
OpenTestDropped(p) ==
    /\ Goto(p, "open_locked", "open_free")
    /\ UNCHANGED <<spinlock_test, flag>> /\ appUnchanged

OpenTest(p) ==
    /\ Goto(p, "open_locked", IF flag # 1 THEN "open_busy" ELSE "open_free")
    /\ UNCHANGED <<spinlock_test, flag>> /\ appUnchanged

(* Mutant: -EBUSY is returned without spin_unlock. *)
OpenBusyLocked(p) ==
    /\ Goto(p, "open_busy", "ebusy")
    /\ UNCHANGED <<spinlock_test, flag>> /\ appUnchanged

OpenBusy(p) ==
    /\ Goto(p, "open_busy", "ebusy")
    /\ SpinUnlock(p)
    /\ UNCHANGED flag /\ appUnchanged

OpenTake(p) ==
    /\ Goto(p, "open_free", "open_taken")
    /\ flag' = 0
    /\ UNCHANGED spinlock_test /\ appUnchanged

OpenUnlock(p) ==
    /\ Goto(p, "open_taken", "opened")
    /\ SpinUnlock(p)
    /\ UNCHANGED flag /\ appUnchanged

-----------------------------------------------------------------------------
(* release_test, called by the close of the only descriptor *)

ReleaseLock(p) ==
    /\ Goto(p, "close", "release_locked")
    /\ SpinLock(p)
    /\ UNCHANGED flag /\ appUnchanged

ReleaseClear(p) ==
    /\ Goto(p, "release_locked", "release_cleared")
    /\ flag' = 1
    /\ UNCHANGED spinlock_test /\ appUnchanged

ReleaseUnlock(p) ==
    /\ Goto(p, "release_cleared", "idle")
    /\ SpinUnlock(p)
    /\ UNCHANGED flag /\ appUnchanged

-----------------------------------------------------------------------------
GuardStep(p) ==
    \/ OpenTest(p) \/ OpenBusy(p) \/ OpenTake(p) \/ OpenUnlock(p)
    \/ ReleaseClear(p) \/ ReleaseUnlock(p)

AppOnly(p) == AppStep(p) /\ UNCHANGED <<spinlock_test, flag>>

Start(p) == RunApp(p) /\ UNCHANGED <<spinlock_test, flag>>

Next == \E p \in Procs :
    Start(p) \/ AppOnly(p) \/ GuardStep(p) \/ OpenLock(p) \/ ReleaseLock(p)

(* A process inside the kernel or the program keeps running; the kernel's  *)
(* queued spinlock serves the processes that spin on it in turn, so one    *)
(* that keeps finding it free between two others gets it (strong           *)
(* fairness).  Whether a user starts the program is left open.             *)
Fairness == \A p \in Procs :
    /\ WF_vars(AppOnly(p) \/ GuardStep(p))
    /\ SF_vars(OpenLock(p) \/ ReleaseLock(p))

Spec == Init /\ [][Next]_vars
FairSpec == Spec /\ Fairness

-----------------------------------------------------------------------------
(* open_test has set flag to 0 and release_test has not set it back to 1. *)
HoldsDevice == FdOpen \cup {"open_taken", "release_locked"}

statusOf(l) ==
    CASE l \in {"idle", "release_cleared"} -> "idle"
      [] l \in {"open", "open_locked", "open_free"} -> "opening"
      [] l \in {"open_busy", "ebusy"} -> "refused"
      [] OTHER -> "open"

Device == INSTANCE ExclusiveOpen WITH status <- [p \in Procs |-> statusOf(pc[p])]

(* The spinlock driver implements exclusive open: the device is granted    *)
(* only while nobody has it, and -EBUSY is returned only while somebody    *)
(* does.                                                                   *)
ExclusiveDevice == Device!Spec
=============================================================================
