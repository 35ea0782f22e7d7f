---------------------------- MODULE ExclusiveOpen ----------------------------
(***************************************************************************)
(* What the guarded drivers (11_atomic, 12_spinlock, 14_sem, 15_mutex) are *)
(* for: the device node is open in at most one process at a time.  A       *)
(* process that asks for the device is granted it, or refused with -EBUSY, *)
(* and a refusal is only given while another process has the device open.  *)
(* The locking that achieves this is left to the modules that implement    *)
(* this specification.                                                     *)
(***************************************************************************)
CONSTANT Procs      (* the processes that run app.c *)

VARIABLE status     (* what each process is to the device *)

Status == {"idle", "opening", "open", "refused"}

TypeOK == status \in [Procs -> Status]

Init == status = [p \in Procs |-> "idle"]

SomeoneOpen == \E q \in Procs : status[q] = "open"

Become(p, from, to) ==
    /\ status[p] = from
    /\ status' = [status EXCEPT ![p] = to]

Request(p) == Become(p, "idle", "opening")

Grant(p) == ~SomeoneOpen /\ Become(p, "opening", "open")

Refuse(p) == SomeoneOpen /\ Become(p, "opening", "refused")

GiveUp(p) == Become(p, "refused", "idle")

Close(p) == Become(p, "open", "idle")

Next == \E p \in Procs :
            Request(p) \/ Grant(p) \/ Refuse(p) \/ GiveUp(p) \/ Close(p)

Spec == Init /\ [][Next]_status
=============================================================================
