----------------------------- MODULE MCMsrClient -----------------------------
(* MsrClient with a threshold of two failures instead of five, and a short   *)
(* clock, given by the configuration.                                        *)
EXTENDS MsrClient
=============================================================================
