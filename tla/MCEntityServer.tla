---------------------------- MODULE MCEntityServer ----------------------------
(***************************************************************************)
(* A finite instance of EntityServer: two events that share a key, one     *)
(* with its own key and one without a key.                                 *)
(***************************************************************************)
EXTENDS EntityServer

CONSTANTS e1, e2, e3, e4, k1, k2, NEvents

MCEvents == CASE NEvents = 1 -> {e1}
              [] NEvents = 2 -> {e1, e2}
              [] NEvents = 3 -> {e1, e2, e3}
              [] OTHER -> {e1, e2, e3, e4}
MCKeyOf == [e \in MCEvents |-> CASE e \in {e1, e3} -> k1
                                 [] e = e2 -> k2
                                 [] OTHER -> NoKey]
MCActionLists == {<< >>, <<"other", "emit">>}
MCNoActions == {<< >>}
=============================================================================
