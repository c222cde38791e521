------------------------ MODULE MCRecorderStartup ------------------------
(* RecorderStartup over every history of three rows on a short timeline. *)
EXTENDS RecorderStartup
=============================================================================
