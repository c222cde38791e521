--------------------------- MODULE MCCameraWorker ---------------------------
(* CameraWorker in units of ten seconds: a lease of 12, a renewal every 9,  *)
(* and a long poll that counts from 10 s.                                  *)
EXTENDS CameraWorker
=============================================================================
