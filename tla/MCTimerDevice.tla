---------------------------- MODULE MCTimerDevice ----------------------------
(* Two processes, which run ioctl.c one after the other or at the same     *)
(* time, as often as they like.                                            *)
EXTENDS TimerDevice
=============================================================================
