----------------------------- MODULE MessageLatch -----------------------------
(***************************************************************************)
(* What flag and the wait queue of 16_wait_queue, 17_no_wait_queue and     *)
(* 18_Poll are for: a latch that the first message sets and nothing ever   *)
(* resets.  A read passes it only once it is set, unless a signal cuts the *)
(* wait short; a reader that does not want to wait is refused only while   *)
(* it is not set; and a reader to whom poll has promised a message is      *)
(* never refused nor kept waiting for another one.  Queueing, sleeping and *)
(* waking up are left to the module that implements this.                  *)
(***************************************************************************)
CONSTANTS Patient,    (* readers that wait for a message                     *)
          Impatient   (* readers that would rather be refused                *)

VARIABLES set,        (* there has been a message                            *)
          status      (* what each reader is to the latch                    *)

vars == <<set, status>>

Readers == Patient \cup Impatient
Status == {"away", "promised", "reading", "passed", "cut", "refused"}

TypeOK ==
    /\ set \in BOOLEAN
    /\ status \in [Readers -> Status]

Init ==
    /\ set = FALSE
    /\ status = [r \in Readers |-> "away"]

Become(r, from, to) ==
    /\ status[r] = from
    /\ status' = [status EXCEPT ![r] = to]
    /\ UNCHANGED set

Set == set' = TRUE /\ UNCHANGED status

Begin(r) == Become(r, "away", "reading")

Promise(r) == set /\ r \in Impatient /\ Become(r, "away", "promised")

Pass(r) == set /\ \E asked \in {"reading", "promised"} : Become(r, asked, "passed")

Cut(r) == ~set /\ r \in Patient /\ Become(r, "reading", "cut")

Refuse(r) == ~set /\ r \in Impatient /\ Become(r, "reading", "refused")

Return(r) == \E out \in {"passed", "cut", "refused"} : Become(r, out, "away")

Next ==
    \/ Set
    \/ \E r \in Readers :
            Begin(r) \/ Promise(r) \/ Pass(r) \/ Cut(r) \/ Refuse(r) \/ Return(r)

Spec == Init /\ [][Next]_vars
=============================================================================
