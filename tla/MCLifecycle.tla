----------------------------- MODULE MCLifecycle -----------------------------
(* Three drivers, two in memory at the same time and two dynamic device    *)
(* numbers, so that the number that one driver releases is taken by        *)
(* another.                                                                *)
EXTENDS Lifecycle
=============================================================================
