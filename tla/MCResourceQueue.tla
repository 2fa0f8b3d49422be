--------------------------- MODULE MCResourceQueue ---------------------------
(***************************************************************************)
(* ResourceQueue for TLC: the bounds are in the configurations.            *)
(***************************************************************************)
EXTENDS ResourceQueue
=============================================================================
