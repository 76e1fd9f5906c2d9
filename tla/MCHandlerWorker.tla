---------------------------- MODULE MCHandlerWorker ----------------------------
(***************************************************************************)
(* A finite instance of HandlerWorker.                                     *)
(***************************************************************************)
EXTENDS HandlerWorker

=============================================================================
