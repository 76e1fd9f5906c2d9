----------------------------- MODULE MCAdminQueue -----------------------------
(***************************************************************************)
(* Finite instances of AdminQueue: one command, two or three dispatches.   *)
(***************************************************************************)
EXTENDS AdminQueue

=============================================================================
