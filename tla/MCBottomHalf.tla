----------------------------- MODULE MCBottomHalf -----------------------------
(* Each of the six modules, loaded and unloaded as often as one likes.     *)
EXTENDS BottomHalf
=============================================================================
