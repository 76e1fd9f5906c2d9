------------------------------ MODULE MCChatProxy ------------------------------
(***************************************************************************)
(* Finite instances of ChatProxy: t1 is a text message, d1 has media.      *)
(***************************************************************************)
EXTENDS ChatProxy

CONSTANTS t1, d1

MCKindOf == [m \in Msgs |-> IF m = d1 THEN "media" ELSE "text"]

=============================================================================
