------------------------------ MODULE DeferredWork ------------------------------
(***************************************************************************)
(* What a driver that defers work promises: each time the work begins it   *)
(* answers a request that was made since the one before began, or several, *)
(* and it begins only while the driver is loaded.  Requests are made, and  *)
(* the work is done, at several places; those of one place before the work *)
(* begins count as one.  Whether the work may run at two places at a time  *)
(* is not said: for tasklets and work items it does not, for a softirq it  *)
(* does.                                                                   *)
(***************************************************************************)

CONSTANT Places

VARIABLES loaded,   (* the driver is in memory                           *)
          asked,    (* the places with a request that is not answered    *)
          running   (* the places where the work is being done           *)

vars == <<loaded, asked, running>>

Init == loaded = FALSE /\ asked = {} /\ running = {}

Load ==
    /\ ~loaded /\ running = {}
    /\ loaded' = TRUE /\ asked' = {}
    /\ UNCHANGED running

Ask(p) ==
    /\ loaded
    /\ asked' = asked \cup {p}
    /\ UNCHANGED <<loaded, running>>

Begin(p, answered) ==
    /\ loaded /\ answered # {} /\ p \notin running
    /\ asked' = asked \ answered /\ running' = running \cup {p}
    /\ UNCHANGED loaded

End(p) ==
    /\ p \in running
    /\ running' = running \ {p}
    /\ UNCHANGED <<loaded, asked>>

Unload ==
    /\ loaded
    /\ loaded' = FALSE
    /\ UNCHANGED <<asked, running>>

Next ==
    \/ Load \/ Unload
    \/ \E p \in Places : Ask(p) \/ End(p)
    \/ \E p \in Places : \E answered \in SUBSET asked : Begin(p, answered)

Spec == Init /\ [][Next]_vars
=============================================================================
