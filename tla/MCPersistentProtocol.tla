------------------------ MODULE MCPersistentProtocol ------------------------
(***************************************************************************)
(* Small instances of PersistentProtocol for TLC.                          *)
(***************************************************************************)
EXTENDS PersistentProtocol, TLC

CONSTANTS ClientMessages, ServerMessages  \* bounds on what each end sends

MCMaxMessages == (Client :> ClientMessages) @@ (Server :> ServerMessages)
=============================================================================
