-------------------------- MODULE MCThrottledWorker --------------------------
(***************************************************************************)
(* ThrottledWorker for TLC: the bounds are in the configurations.          *)
(***************************************************************************)
EXTENDS ThrottledWorker
=============================================================================
