--------------------------- MODULE MCMotionPoller ---------------------------
(* MotionPoller, its numbers given by the configuration. *)
EXTENDS MotionPoller
=============================================================================
