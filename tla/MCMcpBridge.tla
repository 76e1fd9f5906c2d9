------------------------------ MODULE MCMcpBridge ------------------------------
(***************************************************************************)
(* Finite instances of McpBridge.                                          *)
(***************************************************************************)
EXTENDS McpBridge

CONSTANTS c1, c2

=============================================================================
