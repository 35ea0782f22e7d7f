------------------------------ MODULE MCSemOpen ------------------------------
(* Three processes: one holds the semaphore and two queue for it.          *)
EXTENDS SemOpen
=============================================================================
