------------------------------ MODULE MCCopper ------------------------------
(***************************************************************************)
(* A daemon with one extension and one client.                             *)
(***************************************************************************)
EXTENDS Copper

MCRequests == {"trigger", "reload", "shutdown"}
MCPrints == {"noise", "binary"}
=============================================================================
