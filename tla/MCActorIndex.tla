----------------------------- MODULE MCActorIndex -----------------------------
(***************************************************************************)
(* A finite instance of ActorIndex: three peers, two names.                *)
(***************************************************************************)
EXTENDS ActorIndex

=============================================================================
