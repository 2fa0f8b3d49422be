------------------------ MODULE MCRemoteConnection ------------------------
(***************************************************************************)
(* RemoteConnection for TLC: a window's management connection, a           *)
(* connection to an extension host, or both.                               *)
(***************************************************************************)
EXTENDS RemoteConnection
=============================================================================
