----------------------------- MODULE MCLedDevice -----------------------------
(* Drivers of every shape, two in memory at the same time, and two writers *)
(* of the light, which is loaded alone.                                    *)
EXTENDS LedDevice
=============================================================================
