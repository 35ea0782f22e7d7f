---------------------------- MODULE MCLseekDevice ----------------------------
(* Three threads that share two open files in every way, a buffer          *)
(* of two bytes and a loff_t of four bits: every offset is tried, the ones *)
(* whose sums wrap included.                                               *)
EXTENDS LseekDevice
=============================================================================
