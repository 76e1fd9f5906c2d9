-------------------------- MODULE MCSessionLifecycle --------------------------
(***************************************************************************)
(* Finite instances of SessionLifecycle.  c1 is bound to a workspace, c2   *)
(* is not; m1 and m2 come from c1, m3 from c2; n1 comes from c1, n2 from   *)
(* the command line, and both ask for one name.                            *)
(***************************************************************************)
EXTENDS SessionLifecycle, TLC

CONSTANTS c1, c2, m1, m2, m3, n1, n2, name

MCChatOf == [m \in Msgs |-> IF m = m3 THEN c2 ELSE c1]
MCNewChat == [n \in News |-> IF n = n1 THEN c1 ELSE NoChat]
MCNameOf == [n \in News |-> name]
MCSymmetry == Permutations(Sids)
=============================================================================
