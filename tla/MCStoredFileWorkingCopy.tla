----------------------- MODULE MCStoredFileWorkingCopy -----------------------
(***************************************************************************)
(* StoredFileWorkingCopy for TLC: the bounds are in the configurations.    *)
(***************************************************************************)
EXTENDS StoredFileWorkingCopy
=============================================================================
