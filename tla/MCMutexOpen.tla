----------------------------- MODULE MCMutexOpen -----------------------------
(* Three processes: a holder, a sleeper and one that can steal the mutex.  *)
EXTENDS MutexOpen
=============================================================================
