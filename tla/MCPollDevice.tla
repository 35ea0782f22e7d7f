---------------------------- MODULE MCPollDevice ----------------------------
(* One reader of each kind and two writers, so that one write can fail or  *)
(* be overtaken while the other completes.  A message is one cell for the  *)
(* properties, two for the race, where half of it can be visible.          *)
EXTENDS PollDevice
=============================================================================
