---------------------------- MODULE MCAtomicOpen ----------------------------
(* Three processes: two race in open_test while a third can close.         *)
EXTENDS AtomicOpen
=============================================================================
