----------------------------- MODULE MCSpinOpen -----------------------------
(* Three processes and a two-cell kbuf: one can hold the device while the  *)
(* other two race in open_test, and one copy can be half done while        *)
(* another begins.                                                         *)
EXTENDS SpinOpen
=============================================================================
