------------------------ MODULE MCWorkingCopyBackup ------------------------
(* Model values for the runs of WorkingCopyBackup. *)
EXTENDS WorkingCopyBackup

CONSTANTS pad, doc
=============================================================================
