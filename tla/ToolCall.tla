-------------------------------- MODULE ToolCall --------------------------------
(***************************************************************************)
(* What the MCP bridge promises Claude Code about tool calls, whatever     *)
(* happens to the WebSocket underneath: a call is executed at most once    *)
(* and never before it was made, it is answered at most once, and an       *)
(* answer that carries a result carries its own and comes after its        *)
(* execution.                                                              *)
(***************************************************************************)
CONSTANTS Calls

VARIABLES
  stage,     \* [Calls -> {"idle", "open", "closed"}]
  executed,  \* [Calls -> how often the agent's peer has executed it]
  told       \* [Calls -> whose result it was answered with, or NoResult]

vars == <<stage, executed, told>>

NoResult == "none"

Init ==
  /\ stage = [c \in Calls |-> "idle"]
  /\ executed = [c \in Calls |-> 0]
  /\ told = [c \in Calls |-> NoResult]

Invoke(c) ==
  /\ stage[c] = "idle"
  /\ stage' = [stage EXCEPT ![c] = "open"]
  /\ UNCHANGED <<executed, told>>

(* The execution may come after the bridge has given the call up. *)
Execute(c) ==
  /\ stage[c] # "idle"
  /\ executed[c] = 0
  /\ executed' = [executed EXCEPT ![c] = 1]
  /\ UNCHANGED <<stage, told>>

AnswerResult(c) ==
  /\ stage[c] = "open"
  /\ executed[c] = 1
  /\ stage' = [stage EXCEPT ![c] = "closed"]
  /\ told' = [told EXCEPT ![c] = c]
  /\ UNCHANGED executed

(* An error answer says nothing about the execution. *)
AnswerError(c) ==
  /\ stage[c] \in {"idle", "open"}
  /\ stage' = [stage EXCEPT ![c] = "closed"]
  /\ UNCHANGED <<executed, told>>

(* The bridge ends and its open calls with it. *)
Abandon ==
  /\ \E c \in Calls : stage[c] = "open"
  /\ stage' = [c \in Calls |-> IF stage[c] = "open" THEN "closed" ELSE stage[c]]
  /\ UNCHANGED <<executed, told>>

Next ==
  \/ \E c \in Calls : Invoke(c) \/ Execute(c) \/ AnswerResult(c) \/ AnswerError(c)
  \/ Abandon

Spec == Init /\ [][Next]_vars

=============================================================================
