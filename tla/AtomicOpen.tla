------------------------------ MODULE AtomicOpen ------------------------------
(***************************************************************************)
(* 11_atomic/atom.c: open_test reads the atomic v and, if it is 1, sets it *)
(* to 0; release_test sets it back to 1.  The read and the set are atomic, *)
(* each for itself, and nothing keeps them together.                       *)
(***************************************************************************)
EXTENDS GuardedDevice

VARIABLE v            (* 1: device free, 0: taken *)

vars == <<appVars, v>>

appUnchanged == UNCHANGED <<word, copied, kbuf>>

Labels == AppLabels \cup {"open_free"}

TypeOK ==
    /\ AppTypeOK
    /\ pc \in [Procs -> Labels]
    /\ v \in {0, 1}

Init ==
    /\ AppInit
    /\ v = 1

-----------------------------------------------------------------------------
(* open_test *)

OpenRead(p) ==
    /\ Goto(p, "open", IF v # 1 THEN "ebusy" ELSE "open_free")
    /\ UNCHANGED v /\ appUnchanged

OpenSet(p) ==
    /\ Goto(p, "open_free", "opened")
    /\ v' = 0
    /\ appUnchanged

(* release_test *)
Release(p) ==
    /\ Goto(p, "close", "idle")
    /\ v' = 1
    /\ appUnchanged

-----------------------------------------------------------------------------
GuardStep(p) == OpenRead(p) \/ OpenSet(p) \/ Release(p)

AppOnly(p) == AppStep(p) /\ UNCHANGED v

Start(p) == RunApp(p) /\ UNCHANGED v

Next == \E p \in Procs : Start(p) \/ AppOnly(p) \/ GuardStep(p)

Fairness == \A p \in Procs : WF_vars(AppOnly(p) \/ GuardStep(p))

Spec == Init /\ [][Next]_vars
FairSpec == Spec /\ Fairness

-----------------------------------------------------------------------------
(* What the -EBUSY of open_test is there for: at most one process has the  *)
(* device open.  The code breaks it: two processes can both read 1 before  *)
(* either sets 0.                                                          *)
OneOpener ==
    \A p, q \in Procs : pc[p] \in FdOpen /\ pc[q] \in FdOpen => p = q
=============================================================================
