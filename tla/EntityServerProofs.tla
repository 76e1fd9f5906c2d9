-------------------------- MODULE EntityServerProofs --------------------------
(***************************************************************************)
(* Proofs about EntityServer, for every set of events, keys and requests   *)
(* and every value of the limits.                                          *)
(***************************************************************************)
EXTENDS EntityServer, FiniteSetTheorems, TLAPS

USE DEF vars, serverVars, callVars, envVars, histVars, boundVars

---------------------------------------------------------------------------
(* Types *)

\* The messages the actions build are messages.
LEMMA MessageTypes ==
  /\ \A e \in Events : Inbound(e) \in Messages
  /\ \A r \in Reqs, t \in Tools : ToolInvoke(r, t) \in Messages
  /\ \A d \in Nat : DirectiveAck(d) \in Messages /\ DirectiveDeadline(d) \in Messages
  /\ \A op \in {"pause", "resume"} : GenCall(op) \in Messages
  /\ HandlerReply \in Messages
  BY DEF Messages, Inbound, ToolInvoke, DirectiveAck, DirectiveDeadline, GenCall,
         HandlerReply

\* What the head of the mailbox carries, by its type.
LEMMA MsgFields ==
  ASSUME mailbox \in Seq(Messages), NEW t, Receive(t)
  PROVE  /\ Msg \in Messages
         /\ Msg.type = t
         /\ Tail(mailbox) \in Seq(Messages)
         /\ t = "inbound_event" => Msg.event \in Events
         /\ t = "tool_invoke" => Msg.req \in Reqs /\ Msg.tool \in Tools
         /\ t \in {"directive_ack", "directive_deadline"} => Msg.id \in Nat
<1>1. /\ Msg \in Messages
      /\ Msg.type = t
      /\ Tail(mailbox) \in Seq(Messages)
  BY DEF Receive, Msg
<1>2. QED
  BY <1>1 DEF Messages

\* The three ways a step changes the directive tables: emitting a directive,
LEMMA EmitType ==
  ASSUME TypeOK, Emit(next_id)
  PROVE  /\ subs' \subseteq Nat /\ timers' \subseteq Nat
         /\ pending_directives' \subseteq Nat /\ next_id' \in Nat
         /\ wire' \in [DOMAIN wire' -> [acks: Nat, basis: Seq(Events)]]
         /\ DOMAIN wire' \subseteq Nat
<1> DEFINE Rec == [acks: Nat, basis: Seq(Events)]
<1>1. [acks |-> 0, basis |-> state] \in Rec
  BY DEF TypeOK
<1>2. \A d \in DOMAIN wire : wire[d] \in Rec
  BY DEF TypeOK
<1>3. DOMAIN wire' = DOMAIN wire \cup {next_id} /\ next_id \in Nat
  BY DEF TypeOK, Emit
<1>4. \A d \in DOMAIN wire' : wire'[d] \in Rec
  BY <1>1, <1>2, <1>3 DEF Emit
<1>5. wire' \in [DOMAIN wire' -> Rec]
  BY <1>4 DEF Emit
<1>6. /\ subs' \subseteq Nat /\ timers' \subseteq Nat
      /\ pending_directives' \subseteq Nat /\ next_id' \in Nat
  BY SMTT(30) DEF TypeOK, Emit, Deadline
<1>7. QED
  BY <1>3, <1>5, <1>6 DEF TypeOK

\* answering a tool request,
LEMMA AnswerType ==
  ASSUME TypeOK, NEW r \in Reqs, NEW o \in ToolResults, Answer(r, o)
  PROVE  results' \in [Reqs -> Seq(ToolResults)]
<1>1. results \in [Reqs -> Seq(ToolResults)]
  BY DEF TypeOK
<1>2. Append(results[r], o) \in Seq(ToolResults)
  BY <1>1
<1>3. QED
  BY <1>1, <1>2 DEF Answer

\* and completing a directive by its ack or its deadline.
LEMMA CompleteType ==
  ASSUME TypeOK, NEW d \in Nat, NEW o \in ToolResults, Complete(d, o)
  PROVE  /\ subs' \subseteq Nat /\ pending_directives' \subseteq Nat
         /\ pending_tool_reqs' \in [DOMAIN pending_tool_reqs' -> Reqs]
         /\ DOMAIN pending_tool_reqs' \subseteq Nat
         /\ results' \in [Reqs -> Seq(ToolResults)]
<1>1. results' \in [Reqs -> Seq(ToolResults)]
  <2>1. CASE d \in DOMAIN pending_tool_reqs
    <3>1. pending_tool_reqs[d] \in Reqs
      BY <2>1 DEF TypeOK
    <3>2. QED
      BY <2>1, <3>1, AnswerType DEF Complete
  <2>2. CASE d \notin DOMAIN pending_tool_reqs
    BY <2>2 DEF TypeOK, Complete
  <2>3. QED
    BY <2>1, <2>2
<1>2. QED
  BY <1>1 DEF TypeOK, Complete, ForgetToolReq

\* Starting a handler call gives a well-typed call.
LEMMA CallHandlerType ==
  ASSUME TypeOK, NEW e \in Events, CallHandler(e)
  PROVE  /\ call' \in CallRecords /\ calls' \subseteq CallRecords
         /\ next_id' \in Nat /\ pc' = "calling" /\ call' # NoCall
  BY SMTT(30), NoCallAssumption DEF TypeOK, CallHandler, CallRecords

\* A fresh process satisfies the type invariant.
LEMMA TypeInit == Init => TypeOK
<1> SUFFICES ASSUME Init PROVE TypeOK
  OBVIOUS
<1>1. /\ pending_tool_reqs \in [DOMAIN pending_tool_reqs -> Reqs]
      /\ DOMAIN pending_tool_reqs \subseteq Nat
      /\ wire \in [DOMAIN wire -> [acks: Nat, basis: Seq(Events)]]
      /\ DOMAIN wire \subseteq Nat
  BY DEF Init, EmptyMap
<1>2. /\ outcome \in [Events -> Outcomes]
      /\ results \in [Reqs -> Seq(ToolResults)]
  BY DEF Init, Outcomes
<1>3. /\ mailbox \in Seq(Messages) /\ pending_events \in Seq(Events)
      /\ dedup_order \in Seq(Keys) /\ state \in Seq(Events)
      /\ actions \in Seq(ActionKinds) /\ persisted \in Seq(Events)
      /\ arrival \in Seq(Events) /\ started \in Seq(Events)
      /\ committed \in Seq(Keys)
  BY DEF Init
<1>4. paused \in BOOLEAN
  BY Zenon DEF Init
<1>5. QED
  BY <1>1, <1>2, <1>3, <1>4 DEF Init, TypeOK, PCs

\* The environment only appends messages and moves timers and counters.
LEMMA TypeEnvironment == TypeOK /\ Environment => TypeOK'
<1> SUFFICES ASSUME TypeOK, Environment PROVE TypeOK'
  OBVIOUS
<1>1. ASSUME NEW e \in Events, DeliverEvent(e) PROVE TypeOK'
  <2>1. mailbox' \in Seq(Messages) /\ arrival' \in Seq(Events)
    BY <1>1, MessageTypes DEF TypeOK, DeliverEvent
  <2>2. QED
    BY <1>1, <2>1 DEF TypeOK, DeliverEvent
<1>2. ASSUME NEW r \in Reqs, NEW t \in Tools, DeliverToolInvoke(r, t) PROVE TypeOK'
  <2>1. mailbox' \in Seq(Messages)
    BY <1>2, MessageTypes DEF TypeOK, DeliverToolInvoke
  <2>2. QED
    BY <1>2, <2>1 DEF TypeOK, DeliverToolInvoke
<1>3. ASSUME NEW op \in {"pause", "resume"}, DeliverGenCall(op) PROVE TypeOK'
  <2>1. mailbox' \in Seq(Messages)
    BY <1>3, MessageTypes DEF TypeOK, DeliverGenCall
  <2>2. QED
    BY SMTT(30), <1>3, <2>1 DEF TypeOK, DeliverGenCall
<1>4. ASSUME NEW d \in DOMAIN wire, AdapterAck(d) PROVE TypeOK'
  <2>1. d \in Nat /\ mailbox' \in Seq(Messages)
    BY <1>4, MessageTypes DEF TypeOK, AdapterAck
  <2>2. /\ wire' \in [DOMAIN wire' -> [acks: Nat, basis: Seq(Events)]]
        /\ DOMAIN wire' \subseteq Nat
    <3>1. wire[d] \in [acks: Nat, basis: Seq(Events)]
      BY DEF TypeOK
    <3>2. [wire[d] EXCEPT !.acks = @ + 1] \in [acks: Nat, basis: Seq(Events)]
      BY <3>1
    <3>3. wire' = [wire EXCEPT ![d] = [wire[d] EXCEPT !.acks = @ + 1]]
      BY <1>4 DEF AdapterAck
    <3>4. QED
      BY <3>2, <3>3 DEF TypeOK
  <2>3. QED
    BY <1>4, <2>1, <2>2 DEF TypeOK, AdapterAck
<1>5. ASSUME NEW d \in timers, FireDeadline(d) PROVE TypeOK'
  BY SMTT(30), <1>5, MessageTypes DEF TypeOK, FireDeadline
<1>6. ASSUME NEW c \in calls, LateReply(c) PROVE TypeOK'
  BY SMTT(30), <1>6, MessageTypes DEF TypeOK, LateReply
<1>7. QED
  BY <1>1, <1>2, <1>3, <1>4, <1>5, <1>6 DEF Environment

\* A process restarted from its stored row is well typed.
LEMMA TypeRestart ==
  ASSUME TypeOK, Restart, crashes' = crashes + 1
  PROVE  TypeOK'
<1>1. /\ pending_tool_reqs' \in [DOMAIN pending_tool_reqs' -> Reqs]
      /\ DOMAIN pending_tool_reqs' \subseteq Nat
  BY DEF Restart, EmptyMap
<1>2. outcome' \in [Events -> Outcomes]
  BY DEF Restart, TypeOK, Outcomes
<1>3. /\ mailbox' \in Seq(Messages) /\ pending_events' \in Seq(Events)
      /\ dedup_order' \in Seq(Keys) /\ actions' \in Seq(ActionKinds)
      /\ committed' \in Seq(Keys)
  BY DEF Restart
<1>4. paused' \in BOOLEAN
  BY Zenon DEF Restart
<1>5. QED
  BY SMTT(30), <1>1, <1>2, <1>3, <1>4 DEF TypeOK, Restart, PCs

\* Handling the head of the mailbox keeps the types.
LEMMA TypeMailbox == TypeOK /\ Mailbox => TypeOK'
<1> SUFFICES ASSUME TypeOK, Mailbox PROVE TypeOK'
  OBVIOUS
<1>0. mailbox \in Seq(Messages)
  BY DEF TypeOK
<1>1. CASE HandlePause
  BY <1>0, <1>1, MsgFields DEF TypeOK, HandlePause, Consume
<1>2. CASE HandleResume
  <2>1. HeldMessages \in Seq(Messages)
    BY MessageTypes DEF TypeOK, HeldMessages
  <2>2. mailbox' \in Seq(Messages)
    BY <1>0, <1>2, <2>1, MsgFields DEF HandleResume
  <2>3. QED
    <3>1. paused' \in BOOLEAN
      BY <1>2, Zenon DEF HandleResume
    <3>2. pending_events' \in Seq(Events)
      BY <1>2 DEF HandleResume
    <3>3. QED
      BY <1>2, <2>2, <3>1, <3>2 DEF TypeOK, HandleResume
<1>3. CASE HandleInboundPaused
  <2>1. Msg.event \in Events /\ mailbox' \in Seq(Messages)
    BY <1>0, <1>3, MsgFields DEF HandleInboundPaused, Consume
  <2>2. pending_events' \in Seq(Events) /\ outcome' \in [Events -> Outcomes]
    <3>1. <<Msg.event>> \in Seq(Events) /\ pending_events \in Seq(Events)
      BY <2>1 DEF TypeOK
    <3>2. pending_events' \in Seq(Events)
      BY <1>3, <3>1 DEF HandleInboundPaused
    <3>3. outcome' \in [Events -> Outcomes]
      BY <1>3, <2>1 DEF TypeOK, HandleInboundPaused, Outcomes
    <3>4. QED
      BY <3>2, <3>3
  <2>3. QED
    BY <1>3, <2>1, <2>2 DEF TypeOK, HandleInboundPaused
<1>4. CASE HandleInboundDenied
  BY <1>0, <1>4, MsgFields DEF TypeOK, HandleInboundDenied, Consume, Outcomes
<1>5. CASE HandleInboundDuplicate
  BY <1>0, <1>5, MsgFields DEF TypeOK, HandleInboundDuplicate, Consume, Outcomes
<1>6. CASE HandleInbound
  <2>1. Msg.event \in Events /\ mailbox' \in Seq(Messages)
    BY <1>0, <1>6, MsgFields DEF HandleInbound, Consume
  <2>2. QED
    <3>1. /\ call' \in CallRecords /\ calls' \subseteq CallRecords
          /\ next_id' \in Nat /\ pc' = "calling" /\ call' # NoCall
      BY <1>6, <2>1, CallHandlerType DEF HandleInbound
    <3>2. started' \in Seq(Events)
      BY <1>6, <2>1 DEF TypeOK, HandleInbound
    <3>3. QED
      BY <1>6, <2>1, <3>1, <3>2 DEF TypeOK, HandleInbound, PCs
<1>7. CASE HandleToolInvoke
  <2>1. /\ Msg.req \in Reqs /\ Msg.tool \in Tools
        /\ mailbox' \in Seq(Messages)
    BY <1>0, <1>7, MsgFields DEF HandleToolInvoke, Consume
  <2>2. CASE /\ Emit(next_id)
             /\ pending_tool_reqs' =
                  [d \in DOMAIN pending_tool_reqs \cup {next_id} |->
                     IF d = next_id THEN Msg.req ELSE pending_tool_reqs[d]]
             /\ UNCHANGED results
    <3>1. /\ pending_tool_reqs' \in [DOMAIN pending_tool_reqs' -> Reqs]
          /\ DOMAIN pending_tool_reqs' \subseteq Nat
      BY <2>1, <2>2 DEF TypeOK
    <3>2. QED
      BY <1>7, <2>1, <2>2, <3>1, EmitType DEF TypeOK, HandleToolInvoke
  <2>3. CASE \E o \in {"direct_ack", "invalid_args", "unauthorized"} :
               /\ Answer(Msg.req, o)
               /\ UNCHANGED <<subs, timers, wire, pending_directives, next_id,
                              pending_tool_reqs>>
    <3>1. results' \in [Reqs -> Seq(ToolResults)]
      BY <2>1, <2>3, AnswerType DEF ToolResults
    <3>2. QED
      BY <1>7, <2>1, <2>3, <3>1 DEF TypeOK, HandleToolInvoke
  <2>4. QED
    BY <1>7, <2>2, <2>3 DEF HandleToolInvoke, BuildEmitForTool
<1>8. CASE HandleAck
  <2>1. Msg.id \in Nat /\ mailbox' \in Seq(Messages)
    BY <1>0, <1>8, MsgFields DEF HandleAck, Consume
  <2>2. QED
    BY <1>8, <2>1, CompleteType DEF TypeOK, HandleAck, ToolResults
<1>9. CASE HandleDeadline
  <2>1. Msg.id \in Nat /\ mailbox' \in Seq(Messages)
    BY <1>0, <1>9, MsgFields DEF HandleDeadline, Consume
  <2>2. QED
    BY <1>9, <2>1, CompleteType DEF TypeOK, HandleDeadline, ToolResults
<1>10. CASE HandleStrayReply
  BY <1>10, TypeRestart DEF HandleStrayReply
<1>11. QED
  BY <1>1, <1>2, <1>3, <1>4, <1>5, <1>6, <1>7, <1>8, <1>9, <1>10 DEF Mailbox

\* So does every step of a handler invocation.
LEMMA TypeInvocation == TypeOK /\ Invocation => TypeOK'
<1> SUFFICES ASSUME TypeOK, Invocation PROVE TypeOK'
  OBVIOUS
<1>0. /\ pc # "idle" => call \in CallRecords /\ call.event \in Events
      /\ calls \subseteq CallRecords
  BY DEF TypeOK, CallRecords
<1>1. ASSUME NEW c \in calls, NEW acts \in ActionLists, ReplyOk(c, acts)
      PROVE  TypeOK'
  <2>1. /\ state' \in Seq(Events)
        /\ actions' \in Seq(ActionKinds)
        /\ calls' \subseteq CallRecords
    BY SMTT(30), <1>0, <1>1, ActionAssumption DEF ReplyOk, CallRecords, TypeOK
  <2>2. KeyOf[call.event] \in Keys \cup {NoKey}
    BY <1>0, <1>1, KeyAssumption DEF ReplyOk
  <2>3. /\ dedup_keys' \subseteq Keys
        /\ dedup_order' \in Seq(Keys)
        /\ committed' \in Seq(Keys)
    <3>1. CASE KeyOf[call.event] = NoKey
      BY <1>1, <3>1 DEF ReplyOk, RecordDedup, TypeOK
    <3>2. CASE KeyOf[call.event] # NoKey
      <4> DEFINE k == KeyOf[call.event]
      <4>1. k \in Keys /\ dedup_order \in Seq(Keys) /\ committed \in Seq(Keys)
        BY <2>2, <3>2 DEF TypeOK
      <4>2. /\ Append(dedup_order, k) \in Seq(Keys)
            /\ Tail(Append(dedup_order, k)) \in Seq(Keys)
            /\ Append(committed, k) \in Seq(Keys)
        BY <4>1
      <4>3. QED
        BY <1>1, <3>2, <4>1, <4>2 DEF ReplyOk, RecordDedup, EvictOldest, TypeOK
    <3>3. QED
      BY <3>1, <3>2
  <2>4. QED
    BY <1>0, <1>1, <2>1, <2>3 DEF ReplyOk, TypeOK, PCs
<1>2. ASSUME NEW c \in calls, ReplyError(c) PROVE TypeOK'
  BY SMTT(30), <1>0, <1>2 DEF ReplyError, GiveUp, TypeOK, PCs, Outcomes
<1>3. CASE CallTimeout
  BY <1>3 DEF CallTimeout, TypeOK, PCs
<1>4. CASE Unsubscribe
  <2>1. CASE RetriesLeft
    <3>1. /\ CallHandler(call.event) /\ call.event \in Events /\ attempt' = 2
      BY <1>0, <1>4, <2>1 DEF Unsubscribe, RetriesLeft
    <3>2. /\ call' \in CallRecords /\ calls' \subseteq CallRecords
          /\ next_id' \in Nat /\ pc' = "calling" /\ call' # NoCall
      BY <3>1, CallHandlerType
    <3>3. QED
      BY <1>4, <2>1, <3>1, <3>2 DEF Unsubscribe, TypeOK, PCs
  <2>2. CASE ~RetriesLeft
    <3>1. GiveUp("dead_letter") /\ call.event \in Events /\ attempt' = attempt
          /\ UNCHANGED <<calls, next_id>>
      BY <1>0, <1>4, <2>2 DEF Unsubscribe
    <3>2. outcome' \in [Events -> Outcomes]
      BY <3>1 DEF GiveUp, TypeOK, Outcomes
    <3>3. QED
      BY SMTT(30), <1>4, <3>1, <3>2 DEF Unsubscribe, GiveUp, TypeOK, PCs
  <2>3. QED
    BY <2>1, <2>2
<1>5. CASE PersistState
  BY <1>0, <1>5 DEF PersistState, Row, TypeOK, PCs, Outcomes
<1>6. CASE DispatchAction
  <2>1. actions' \in Seq(ActionKinds)
    BY <1>6 DEF DispatchAction, TypeOK
  <2>2. CASE Emit(next_id)
    BY <1>6, <2>1, <2>2, EmitType DEF DispatchAction, TypeOK
  <2>3. CASE UNCHANGED <<subs, timers, wire, pending_directives, next_id>>
    BY <1>6, <2>1, <2>3 DEF DispatchAction, TypeOK
  <2>4. QED
    BY <1>6, <2>2, <2>3 DEF DispatchAction
<1>7. CASE FinishInvocation
  BY <1>7 DEF FinishInvocation, TypeOK, PCs
<1>8. QED
  BY <1>1, <1>2, <1>3, <1>4, <1>5, <1>6, <1>7 DEF Invocation

\* Every step keeps the types.
LEMMA TypeNext == TypeOK /\ [Next]_vars => TypeOK'
<1> SUFFICES ASSUME TypeOK, [Next]_vars PROVE TypeOK'
  OBVIOUS
<1>1. CASE Environment
  BY <1>1, TypeEnvironment
<1>2. CASE Mailbox
  BY <1>2, TypeMailbox
<1>3. CASE Invocation
  BY <1>3, TypeInvocation
<1>4. CASE Crash
  BY <1>4, TypeRestart DEF Crash
<1>5. CASE UNCHANGED vars
  BY <1>5 DEF TypeOK
<1>6. QED
  BY <1>1, <1>2, <1>3, <1>4, <1>5 DEF Next

\* Every variable of the actor process keeps its type in every behaviour.
THEOREM TypeCorrect == Spec => []TypeOK
  BY TypeInit, TypeNext, PTL DEF Spec

---------------------------------------------------------------------------
(* Persist before dispatch *)

\* Prefixes: reflexive, kept by appending, and transitive.
LEMMA PrefixFacts ==
  ASSUME NEW S, NEW s \in Seq(S), NEW t \in Seq(S), NEW x \in S, IsPrefixOf(s, t)
  PROVE  IsPrefixOf(t, t) /\ IsPrefixOf(t, Append(t, x)) /\ IsPrefixOf(s, Append(t, x))
  BY DEF IsPrefixOf

\* A directive broadcast while the process and the store agree is recorded.
LEMMA EmitRecorded ==
  ASSUME TypeOK, NoUnrecordedEmit, state = persisted, persisted' = persisted,
         Emit(next_id)
  PROVE  NoUnrecordedEmit'
<1>1. IsPrefixOf(state, persisted)
  BY DEF TypeOK, IsPrefixOf
<1>2. ASSUME NEW d \in DOMAIN wire' PROVE IsPrefixOf(wire'[d].basis, persisted)
  <2>1. CASE d = next_id
    BY <1>1, <2>1 DEF Emit
  <2>2. CASE d # next_id
    BY <2>2 DEF Emit, NoUnrecordedEmit
  <2>3. QED
    BY <2>1, <2>2
<1>3. QED
  BY <1>2 DEF NoUnrecordedEmit

\* PersistInv is inductive.
LEMMA PersistStep == TypeOK /\ PersistInv /\ [Next]_vars => PersistInv'
<1> SUFFICES ASSUME TypeOK, PersistInv, [Next]_vars PROVE PersistInv'
  OBVIOUS
<1> USE DEF PersistInv
<1>1. CASE Environment
  <2>1. ASSUME NEW d \in DOMAIN wire, AdapterAck(d) PROVE PersistInv'
    <3>1. \A x \in DOMAIN wire' : x \in DOMAIN wire /\ wire'[x].basis = wire[x].basis
      BY <2>1 DEF AdapterAck, TypeOK
    <3>2. NoUnrecordedEmit'
      BY <2>1, <3>1 DEF AdapterAck, NoUnrecordedEmit
    <3>3. QED
      BY <2>1, <3>2 DEF AdapterAck
  <2>2. CASE UNCHANGED <<pc, state, persisted, call, wire>>
    BY <2>2 DEF NoUnrecordedEmit
  <2>3. QED
    BY <1>1, <2>1, <2>2 DEF Environment, DeliverEvent, DeliverToolInvoke,
       DeliverGenCall, FireDeadline, LateReply
<1>2. CASE Mailbox
  <2>1. CASE HandleInbound
    BY <2>1 DEF HandleInbound, CallHandler, NoUnrecordedEmit, Receive
  <2>2. CASE HandleToolInvoke
    <3>1. CASE Emit(next_id)
      BY <2>2, <3>1, EmitRecorded DEF HandleToolInvoke, Receive
    <3>2. CASE UNCHANGED wire
      BY <2>2, <3>2 DEF HandleToolInvoke, Receive, NoUnrecordedEmit
    <3>3. QED
      BY <2>2, <3>1, <3>2 DEF HandleToolInvoke
  <2>3. CASE HandleStrayReply
    BY <2>3 DEF HandleStrayReply, Restart, NoUnrecordedEmit
  <2>4. CASE UNCHANGED <<pc, state, persisted, call, wire>>
    BY <2>4 DEF NoUnrecordedEmit
  <2>5. QED
    BY <1>2, <2>1, <2>2, <2>3, <2>4 DEF Mailbox, HandlePause, HandleResume,
       HandleInboundPaused, HandleInboundDenied, HandleInboundDuplicate,
       HandleAck, HandleDeadline
<1>3. CASE Invocation
  <2>1. ASSUME NEW c \in calls, NEW acts \in ActionLists, ReplyOk(c, acts)
        PROVE  PersistInv'
    BY <2>1 DEF ReplyOk, Matches, NoUnrecordedEmit
  <2>2. ASSUME NEW c \in calls, ReplyError(c) PROVE PersistInv'
    BY <2>2 DEF ReplyError, GiveUp, NoUnrecordedEmit
  <2>3. CASE CallTimeout
    BY <2>3 DEF CallTimeout, NoUnrecordedEmit
  <2>4. CASE Unsubscribe
    BY <2>4 DEF Unsubscribe, CallHandler, GiveUp, NoUnrecordedEmit
  <2>5. CASE PersistState
    <3>1. call.event \in Events /\ persisted \in Seq(Events)
      BY <2>5 DEF PersistState, TypeOK, CallRecords
    <3>2. \A d \in DOMAIN wire : wire[d].basis \in Seq(Events)
      BY DEF TypeOK
    <3>3. persisted' = Append(persisted, call.event)
      BY <2>5 DEF PersistState, Row
    <3>4. NoUnrecordedEmit'
      BY <2>5, <3>1, <3>2, <3>3, PrefixFacts DEF PersistState, NoUnrecordedEmit
    <3>5. QED
      BY <2>5, <3>4 DEF PersistState, Row
  <2>6. CASE DispatchAction
    <3>1. CASE Emit(next_id)
      BY <2>6, <3>1, EmitRecorded DEF DispatchAction
    <3>2. CASE UNCHANGED wire
      BY <2>6, <3>2 DEF DispatchAction, NoUnrecordedEmit
    <3>3. QED
      BY <2>6, <3>1, <3>2 DEF DispatchAction
  <2>7. CASE FinishInvocation
    BY <2>7 DEF FinishInvocation, NoUnrecordedEmit
  <2>8. QED
    BY <1>3, <2>1, <2>2, <2>3, <2>4, <2>5, <2>6, <2>7 DEF Invocation
<1>4. CASE Crash
  BY <1>4 DEF Crash, Restart, NoUnrecordedEmit
<1>5. CASE UNCHANGED vars
  BY <1>5 DEF NoUnrecordedEmit
<1>6. QED
  BY <1>1, <1>2, <1>3, <1>4, <1>5 DEF Next

\* PersistInv holds in every reachable state.
LEMMA PersistInvariant == Spec => []PersistInv
<1>1. Init => PersistInv
  BY DEF Init, PersistInv, NoUnrecordedEmit, EmptyMap
<1>2. QED
  BY <1>1, PersistStep, TypeCorrect, PTL DEF Spec

\* No directive is ever on the wire for a state the store has no record of,
\* wherever the process crashes.
THEOREM NoUnrecordedEmitHolds == Spec => []NoUnrecordedEmit
<1>1. PersistInv => NoUnrecordedEmit
  BY DEF PersistInv
<1>2. QED
  BY <1>1, PersistInvariant, PTL

\* No step overwrites a committed transition: the row only grows.
THEOREM NoLostUpdateHolds == Spec => NoLostUpdate
<1>1. TypeOK /\ PersistInv /\ [Next]_vars => [IsPrefixOf(persisted, persisted')]_vars
  <2> SUFFICES ASSUME TypeOK, PersistInv, [Next]_vars
               PROVE  IsPrefixOf(persisted, persisted')
    OBVIOUS
  <2>1. IsPrefixOf(persisted, persisted)
    BY DEF TypeOK, IsPrefixOf
  <2>2. CASE PersistState
    <3>1. call.event \in Events /\ persisted \in Seq(Events)
      BY <2>2 DEF PersistState, TypeOK, CallRecords
    <3>2. persisted' = Append(persisted, call.event)
      BY <2>2 DEF PersistState, Row, PersistInv
    <3>3. QED
      BY <2>1, <3>1, <3>2, PrefixFacts
  <2>3. CASE persisted' = persisted
    BY <2>1, <2>3
  <2>4. QED
    BY <2>2, <2>3 DEF Next, Environment, Mailbox, Invocation, DeliverEvent,
       DeliverToolInvoke, DeliverGenCall, AdapterAck, FireDeadline, LateReply,
       HandlePause, HandleResume, HandleInboundPaused, HandleInboundDenied,
       HandleInboundDuplicate, HandleInbound, HandleToolInvoke, HandleAck,
       HandleDeadline, HandleStrayReply, ReplyOk, ReplyError, CallTimeout,
       Unsubscribe, DispatchAction, FinishInvocation, Crash, Restart
<1>2. QED
  BY <1>1, TypeCorrect, PersistInvariant, PTL DEF Spec, NoLostUpdate

---------------------------------------------------------------------------
(* The dedup window *)

\* Committing a key that is not in the window keeps the window's invariant.
LEMMA RecordKeyStep ==
  ASSUME TypeOK, DedupInv, NEW k \in Keys, k # NoKey, k \notin dedup_keys,
         RecordDedup(k)
  PROVE  /\ DedupConsistent' /\ DedupWindow'
         /\ Len(dedup_order') = (IF Len(committed') < DedupLimit
                                   THEN Len(committed') ELSE DedupLimit)
         /\ \A i \in DOMAIN dedup_order' :
              dedup_order'[i] = committed'[Len(committed') - Len(dedup_order') + i]
         /\ IsFiniteSet(dedup_keys') /\ Cardinality(dedup_keys') = Len(dedup_order')
<1> DEFINE n == Len(committed)
           m == Len(dedup_order)
           o == Append(dedup_order, k)
           ks == dedup_keys \cup {k}
<1>1. /\ committed \in Seq(Keys) /\ dedup_order \in Seq(Keys)
      /\ n \in Nat /\ m \in Nat /\ DedupLimit \in Nat
  BY SMTT(30), LimitAssumption DEF TypeOK
<1>2. /\ dedup_keys = Elems(dedup_order) /\ m <= DedupLimit
      /\ m = (IF n < DedupLimit THEN n ELSE DedupLimit)
      /\ \A i \in 1..m : dedup_order[i] = committed[n - m + i]
      /\ IsFiniteSet(dedup_keys) /\ Cardinality(dedup_keys) = m
  <2>1. DOMAIN dedup_order = 1..m
    BY <1>1
  <2>2. \A i \in 1..m : dedup_order[i] = committed[n - m + i]
    BY <2>1 DEF DedupInv
  <2>3. QED
    BY <2>2 DEF DedupInv, DedupConsistent
<1>3. /\ committed' = Append(committed, k)
      /\ Len(committed') = n + 1 /\ committed'[n + 1] = k
      /\ \A i \in 1..n : committed'[i] = committed[i]
      /\ committed' \in Seq(Keys)
  <2>1. committed' = Append(committed, k)
    BY DEF RecordDedup
  <2>2. QED
    BY <1>1, <2>1
<1>4. /\ o \in Seq(Keys) /\ Len(o) = m + 1 /\ o[m + 1] = k
      /\ \A i \in 1..m : o[i] = dedup_order[i]
  BY <1>1
<1>5. /\ IsFiniteSet(ks) /\ Cardinality(ks) = m + 1
  BY <1>2, FS_AddElement
<1>6. \A i \in 1..m : dedup_order[i] \in dedup_keys /\ dedup_order[i] # k
  BY <1>1, <1>2 DEF Elems
<1>7. \A i \in 1..n : committed[i] = k => n + 1 - i > DedupLimit
  <2> SUFFICES ASSUME NEW i \in 1..n, committed[i] = k
               PROVE  n + 1 - i > DedupLimit
    OBVIOUS
  <2>1. ~(i > n - m)
    <3> SUFFICES ASSUME i > n - m PROVE FALSE
      OBVIOUS
    <3>1. i - (n - m) \in 1..m /\ n - m + (i - (n - m)) = i
      BY <1>1
    <3>2. dedup_order[i - (n - m)] = committed[i]
      BY <1>2, <3>1
    <3>3. QED
      BY <1>6, <3>1, <3>2
  <2>2. QED
    BY <1>1, <1>2, <2>1
<1>8. DedupWindow'
  <2> SUFFICES ASSUME NEW i \in 1..(n + 1), NEW j \in 1..(n + 1), i < j,
                      committed'[i] = committed'[j]
               PROVE  j - i > DedupLimit
    BY <1>3 DEF DedupWindow
  <2>1. CASE j = n + 1
    <3>1. i \in 1..n /\ committed[i] = k
      BY <1>1, <1>3, <2>1
    <3>2. QED
      BY <1>7, <2>1, <3>1
  <2>2. CASE j # n + 1
    <3>1. i \in 1..n /\ j \in 1..n
      BY <1>1, <2>2
    <3>2. committed[i] = committed[j] /\ i \in DOMAIN committed /\ j \in DOMAIN committed
      BY <1>1, <1>3, <3>1
    <3>3. QED
      BY <3>2 DEF DedupInv, DedupWindow
  <2>3. QED
    BY <2>1, <2>2
<1>9. \A i \in 1..(m + 1) : o[i] = committed'[n - m + i]
  <2> SUFFICES ASSUME NEW i \in 1..(m + 1) PROVE o[i] = committed'[n - m + i]
    OBVIOUS
  <2>1. m <= n
    BY <1>1, <1>2
  <2>2. CASE i = m + 1
    BY <1>1, <1>3, <1>4, <2>2
  <2>3. CASE i # m + 1
    <3>1. i \in 1..m /\ n - m + i \in 1..n
      BY <1>1, <2>1, <2>3
    <3>2. QED
      BY <1>2, <1>3, <1>4, <3>1
  <2>4. QED
    BY <2>2, <2>3
<1>10. Elems(o) = ks
  <2>1. ASSUME NEW x \in Elems(o) PROVE x \in ks
    <3>1. PICK i \in 1..(m + 1) : x = o[i]
      BY <1>4 DEF Elems
    <3>2. QED
      BY <1>1, <1>4, <1>6, <3>1
  <2>2. ASSUME NEW x \in ks PROVE x \in Elems(o)
    <3>1. CASE x = k
      <4>1. m + 1 \in DOMAIN o
        BY <1>1, <1>4
      <4>2. QED
        BY <1>4, <3>1, <4>1 DEF Elems
    <3>2. CASE x # k
      <4>1. PICK i \in 1..m : x = dedup_order[i]
        BY <1>1, <1>2, <3>2 DEF Elems
      <4>2. i \in DOMAIN o /\ o[i] = x
        BY <1>1, <1>4, <4>1
      <4>3. QED
        BY <4>2 DEF Elems
    <3>3. QED
      BY <3>1, <3>2
  <2>3. QED
    BY <2>1, <2>2
<1>11. CASE ~WindowOverflows(ks)
  <2>1. dedup_keys' = ks /\ dedup_order' = o
    BY <1>11 DEF RecordDedup
  <2>2. m + 1 <= DedupLimit /\ n = m
    BY <1>1, <1>2, <1>5, <1>11 DEF WindowOverflows
  <2>3. /\ Len(dedup_order') = m + 1
        /\ \A i \in DOMAIN dedup_order' :
              dedup_order'[i] = committed'[Len(committed') - Len(dedup_order') + i]
    <3>1. Len(dedup_order') = m + 1 /\ DOMAIN dedup_order' = 1..(m + 1)
      BY <1>1, <1>4, <2>1
    <3>2. ASSUME NEW i \in 1..(m + 1)
          PROVE  Len(committed') - Len(dedup_order') + i = n - m + i
      BY <1>1, <1>3, <3>1
    <3>3. QED
      BY <1>9, <2>1, <3>1, <3>2
  <2>4. DedupConsistent'
    BY <1>1, <1>4, <1>10, <2>1, <2>2 DEF DedupConsistent
  <2>5. QED
    BY <1>1, <1>3, <1>5, <1>8, <2>1, <2>2, <2>3, <2>4
<1>12. CASE WindowOverflows(ks)
  <2> DEFINE t == Tail(o)
  <2>1. dedup_keys' = ks \ {o[1]} /\ dedup_order' = t
    BY SMTT(30), <1>1, <1>4, <1>12 DEF RecordDedup, EvictOldest
  <2>2. m = DedupLimit /\ n >= DedupLimit
    BY <1>1, <1>2, <1>5, <1>12 DEF WindowOverflows
  <2>3. t \in Seq(Keys) /\ Len(t) = m /\ \A i \in 1..m : t[i] = o[i + 1]
    BY <1>1, <1>4
  <2>4. \A i, j \in 1..(m + 1) : o[i] = o[j] => i = j
    <3> SUFFICES ASSUME NEW i \in 1..(m + 1), NEW j \in 1..(m + 1), i < j,
                        o[i] = o[j]
                 PROVE  FALSE
      BY <1>1
    <3>1. /\ n - m + i \in DOMAIN committed' /\ n - m + j \in DOMAIN committed'
          /\ n - m + i < n - m + j
          /\ (n - m + j) - (n - m + i) <= DedupLimit
      BY <1>1, <1>3, <2>2
    <3>2. committed'[n - m + i] = committed'[n - m + j]
      BY <1>9
    <3>3. QED
      BY <1>1, <1>8, <3>1, <3>2 DEF DedupWindow
  <2>5. Elems(t) = ks \ {o[1]}
    <3>1. ASSUME NEW x \in Elems(t) PROVE x \in ks \ {o[1]}
      <4>1. PICK i \in 1..m : x = t[i]
        BY <2>3, <3>1 DEF Elems
      <4>2. i + 1 \in 1..(m + 1) /\ 1 \in 1..(m + 1) /\ i + 1 # 1 /\ x = o[i + 1]
        BY <1>1, <2>3, <4>1
      <4>3. x # o[1]
        BY <2>4, <4>2
      <4>4. x \in Elems(o)
        BY <1>4, <4>2 DEF Elems
      <4>5. QED
        BY <1>10, <4>3, <4>4
    <3>2. ASSUME NEW x \in ks, x # o[1] PROVE x \in Elems(t)
      <4>1. PICK i \in 1..(m + 1) : x = o[i]
        BY <1>4, <1>10, <3>2 DEF Elems
      <4>2. i # 1 /\ i - 1 \in 1..m /\ (i - 1) + 1 = i
        BY <1>1, <3>2, <4>1
      <4>3. t[i - 1] = x /\ i - 1 \in DOMAIN t
        BY <2>3, <4>1, <4>2
      <4>4. QED
        BY <4>3 DEF Elems
    <3>3. QED
      BY <3>1, <3>2
  <2>6. o[1] \in ks
    <3>1. 1 \in DOMAIN o
      BY <1>1, <1>4
    <3>2. QED
      BY <1>10, <3>1 DEF Elems
  <2>7. IsFiniteSet(dedup_keys') /\ Cardinality(dedup_keys') = m
    <3>1. /\ IsFiniteSet(ks \ {o[1]})
          /\ Cardinality(ks \ {o[1]}) = Cardinality(ks) - 1
      BY <1>5, <2>6, FS_RemoveElement
    <3>2. Cardinality(ks) - 1 = m
      BY <1>1, <1>5
    <3>3. QED
      BY <2>1, <3>1, <3>2
  <2>8. DedupConsistent'
    BY <1>1, <2>1, <2>2, <2>3, <2>5 DEF DedupConsistent
  <2>9. \A i \in DOMAIN dedup_order' :
          dedup_order'[i] = committed'[Len(committed') - Len(dedup_order') + i]
    <3> SUFFICES ASSUME NEW i \in 1..m PROVE t[i] = committed'[n + 1 - m + i]
      <4>1. DOMAIN dedup_order' = 1..m /\ Len(dedup_order') = m
        BY <1>1, <2>1, <2>3
      <4>2. Len(committed') - Len(dedup_order') = n + 1 - m
        BY <1>3, <4>1
      <4>3. QED
        BY <2>1, <4>1, <4>2
    <3>1. i + 1 \in 1..(m + 1) /\ n - m + (i + 1) = n + 1 - m + i
      BY <1>1
    <3>2. QED
      BY <1>9, <2>3, <3>1
  <2>10. Len(dedup_order') = (IF Len(committed') < DedupLimit
                                THEN Len(committed') ELSE DedupLimit)
    BY <1>1, <1>3, <2>1, <2>2, <2>3
  <2>11. Len(dedup_order') = m
    BY <2>1, <2>3
  <2>12. QED
    BY <1>8, <2>7, <2>8, <2>9, <2>10, <2>11
<1>13. QED
  BY <1>11, <1>12

\* DedupInv is inductive: only a successful reply and a restart touch the window,
\* and no other message is handled while the handler runs.
LEMMA DedupStep == TypeOK /\ DedupInv /\ [Next]_vars => DedupInv'
<1> SUFFICES ASSUME TypeOK, DedupInv, [Next]_vars PROVE DedupInv'
  OBVIOUS
<1> DEFINE window == <<dedup_keys, dedup_order, committed>>
<1>1. CASE UNCHANGED <<window, pc, call>>
  BY <1>1 DEF DedupInv, DedupConsistent, DedupWindow, IsDuplicate
<1>2. CASE UNCHANGED window /\ pc' \notin {"calling", "timed_out"}
  BY <1>2 DEF DedupInv, DedupConsistent, DedupWindow, IsDuplicate
<1>3. CASE HandleInbound
  BY <1>3 DEF HandleInbound, CallHandler, DedupInv, DedupConsistent, DedupWindow,
              IsDuplicate
<1>4. ASSUME NEW c \in calls, NEW acts \in ActionLists, ReplyOk(c, acts)
      PROVE  DedupInv'
  <2> DEFINE k == KeyOf[call.event]
  <2>1. call.event \in Events /\ k \in Keys \cup {NoKey} /\ ~IsDuplicate(k)
    BY <1>4, KeyAssumption DEF ReplyOk, TypeOK, CallRecords, DedupInv
  <2>2. CASE k = NoKey
    BY <1>4, <2>2 DEF ReplyOk, RecordDedup, DedupInv, DedupConsistent, DedupWindow,
                      IsDuplicate
  <2>3. CASE k # NoKey
    <3>1. k \in Keys /\ k \notin dedup_keys /\ RecordDedup(k) /\ pc' = "persist"
      BY <1>4, <2>1, <2>3 DEF IsDuplicate, ReplyOk
    <3>2. QED
      BY <2>3, <3>1, RecordKeyStep DEF DedupInv
  <2>4. QED
    BY <2>2, <2>3
<1>5. CASE CallTimeout
  BY <1>5 DEF CallTimeout, DedupInv, DedupConsistent, DedupWindow, IsDuplicate
<1>6. CASE Unsubscribe
  <2>1. UNCHANGED window /\ (pc' = "calling" => call'.event = call.event)
    BY <1>6 DEF Unsubscribe, CallHandler, GiveUp
  <2>2. pc = "timed_out" /\ (pc' = "calling" \/ pc' = "idle")
    BY <1>6 DEF Unsubscribe, CallHandler, GiveUp
  <2>3. QED
    BY <2>1, <2>2 DEF DedupInv, DedupConsistent, DedupWindow, IsDuplicate
<1>7. CASE Restart
  <2>1. /\ dedup_keys' = {} /\ dedup_order' = << >> /\ committed' = << >>
        /\ pc' = "idle"
    BY <1>7 DEF Restart
  <2>2. Len(dedup_order') = 0 /\ Len(committed') = 0 /\ Elems(dedup_order') = {}
        /\ DOMAIN committed' = {} /\ DOMAIN dedup_order' = {}
    BY <2>1 DEF Elems
  <2>3. QED
    BY <2>1, <2>2, FS_EmptySet, LimitAssumption
       DEF DedupInv, DedupConsistent, DedupWindow
<1>8. CASE Environment
  BY <1>1, <1>8 DEF Environment, DeliverEvent, DeliverToolInvoke, DeliverGenCall,
     AdapterAck, FireDeadline, LateReply
<1>9. CASE Mailbox
  BY <1>1, <1>3, <1>7, <1>9 DEF Mailbox, HandlePause, HandleResume,
     HandleInboundPaused, HandleInboundDenied, HandleInboundDuplicate,
     HandleToolInvoke, HandleAck, HandleDeadline, HandleStrayReply
<1>10. CASE Invocation
  <2>1. ASSUME NEW c \in calls, ReplyError(c) PROVE DedupInv'
    BY <1>2, <2>1 DEF ReplyError, GiveUp
  <2>2. CASE PersistState \/ DispatchAction \/ FinishInvocation
    BY <1>2, <2>2 DEF PersistState, DispatchAction, FinishInvocation
  <2>3. QED
    BY <1>4, <1>5, <1>6, <1>10, <2>1, <2>2 DEF Invocation
<1>11. CASE Crash
  BY <1>7, <1>11 DEF Crash
<1>12. CASE UNCHANGED vars
  BY <1>1, <1>12
<1>13. QED
  BY <1>8, <1>9, <1>10, <1>11, <1>12 DEF Next

\* DedupInv holds in every reachable state.
LEMMA DedupInvariant == Spec => []DedupInv
<1>1. Init => DedupInv
  <2> SUFFICES ASSUME Init PROVE DedupInv
    OBVIOUS
  <2>1. /\ dedup_keys = {} /\ dedup_order = << >> /\ committed = << >> /\ pc = "idle"
    BY DEF Init
  <2>2. Len(dedup_order) = 0 /\ Len(committed) = 0 /\ Elems(dedup_order) = {}
        /\ DOMAIN committed = {} /\ DOMAIN dedup_order = {}
    BY <2>1 DEF Elems
  <2>3. QED
    BY <2>1, <2>2, FS_EmptySet, LimitAssumption
       DEF DedupInv, DedupConsistent, DedupWindow
<1>2. QED
  BY <1>1, DedupStep, TypeCorrect, PTL DEF Spec

\* A key is committed again only after DedupLimit other keyed events, for every
\* window size and however retries, pauses and crashes interleave.
THEOREM DedupWindowHolds == Spec => []DedupWindow
<1>1. DedupInv => DedupWindow
  BY DEF DedupInv
<1>2. QED
  BY <1>1, DedupInvariant, PTL

\* The set and the queue agree and stay within the limit.
THEOREM DedupConsistentHolds == Spec => []DedupConsistent
<1>1. DedupInv => DedupConsistent
  BY DEF DedupInv
<1>2. QED
  BY <1>1, DedupInvariant, PTL

---------------------------------------------------------------------------
(* Occurrences in a queue *)

\* An element occurs never or once, not both.
LEMMA OccurExclusive ==
  ASSUME NEW q, NEW X, Once(q, X)
  PROVE  ~Nowhere(q, X)
  BY DEF Once, Nowhere

\* Appending one element.
LEMMA AppendOccur ==
  ASSUME NEW S, NEW q \in Seq(S), NEW x \in S, NEW X
  PROVE  /\ Nowhere(q, X) /\ x \notin X => Nowhere(Append(q, x), X)
         /\ Nowhere(q, X) /\ x \in X => Once(Append(q, x), X)
         /\ Once(q, X) /\ x \notin X => Once(Append(q, x), X)
         /\ Nowhere(Append(q, x), X) => Nowhere(q, X) /\ x \notin X
<1> DEFINE a == Append(q, x)
<1>1. /\ \A i \in DOMAIN a : \/ i \in DOMAIN q /\ a[i] = q[i]
                             \/ i = Len(q) + 1 /\ a[i] = x
      /\ Len(q) + 1 \in DOMAIN a /\ a[Len(q) + 1] = x /\ Len(q) + 1 \notin DOMAIN q
      /\ \A i \in DOMAIN q : i \in DOMAIN a /\ a[i] = q[i]
  OBVIOUS
<1> HIDE DEF a
<1>2. QED
  BY <1>1 DEF Nowhere, Once, a

\* Taking the head.
LEMMA TailOccur ==
  ASSUME NEW S, NEW q \in Seq(S), q # << >>, NEW X
  PROVE  /\ Nowhere(q, X) => Nowhere(Tail(q), X) /\ Head(q) \notin X
         /\ Once(q, X) /\ Head(q) \in X => Nowhere(Tail(q), X)
         /\ Once(q, X) /\ Head(q) \notin X => Once(Tail(q), X)
         /\ Nowhere(Tail(q), X) /\ Head(q) \notin X => Nowhere(q, X)
<1> DEFINE t == Tail(q)
<1>1. /\ 1 \in DOMAIN q /\ Head(q) = q[1]
      /\ \A i \in DOMAIN t : i \in Nat /\ i + 1 # 1 /\ i + 1 \in DOMAIN q /\ t[i] = q[i + 1]
      /\ \A i \in DOMAIN q : i = 1 \/ (i - 1 \in DOMAIN t /\ t[i - 1] = q[i])
      /\ \A i \in DOMAIN q : i \in Nat
  OBVIOUS
<1> HIDE DEF t
<1>2. Nowhere(q, X) => Nowhere(t, X) /\ Head(q) \notin X
  BY <1>1 DEF Nowhere
<1>3. Once(q, X) /\ Head(q) \in X => Nowhere(t, X)
  BY <1>1 DEF Nowhere, Once
<1>4. ASSUME Once(q, X), Head(q) \notin X PROVE Once(t, X)
  <2>1. PICK i \in DOMAIN q : q[i] \in X /\ \A j \in DOMAIN q : q[j] \in X => j = i
    BY <1>4 DEF Once
  <2>2. i - 1 \in DOMAIN t /\ t[i - 1] \in X
    BY <1>1, <1>4, <2>1
  <2>3. \A j \in DOMAIN t : t[j] \in X => j = i - 1
    BY <1>1, <2>1
  <2>4. QED
    BY <2>2, <2>3 DEF Once
<1>5. Nowhere(t, X) /\ Head(q) \notin X => Nowhere(q, X)
  BY <1>1 DEF Nowhere
<1>6. QED
  BY <1>2, <1>3, <1>4, <1>5 DEF t

\* Putting one queue after another.
LEMMA ConcatOccur ==
  ASSUME NEW S, NEW q \in Seq(S), NEW r \in Seq(S), NEW X
  PROVE  /\ Nowhere(q, X) /\ Nowhere(r, X) => Nowhere(q \o r, X)
         /\ Once(q, X) /\ Nowhere(r, X) => Once(q \o r, X)
         /\ Nowhere(q, X) /\ Once(r, X) => Once(q \o r, X)
         /\ Nowhere(q \o r, X) => Nowhere(q, X) /\ Nowhere(r, X)
<1> DEFINE c == q \o r
           n == Len(q)
<1>1. /\ n \in Nat /\ \A i \in DOMAIN q : i \in Nat /\ i <= n
      /\ \A i \in DOMAIN r : i \in Nat /\ i >= 1
      /\ \A i \in DOMAIN c : \/ i \in DOMAIN q /\ c[i] = q[i]
                             \/ i \in Nat /\ i - n \in DOMAIN r /\ c[i] = r[i - n]
      /\ \A i \in DOMAIN q : i \in DOMAIN c /\ c[i] = q[i]
      /\ \A i \in DOMAIN r : i + n \in DOMAIN c /\ c[i + n] = r[i]
  OBVIOUS
<1> HIDE DEF c, n
<1>2. Nowhere(q, X) /\ Nowhere(r, X) => Nowhere(c, X)
  BY <1>1 DEF Nowhere
<1>3. ASSUME Once(q, X), Nowhere(r, X) PROVE Once(c, X)
  <2>1. PICK i \in DOMAIN q : q[i] \in X /\ \A j \in DOMAIN q : q[j] \in X => j = i
    BY <1>3 DEF Once
  <2>2. \A j \in DOMAIN c : c[j] \in X => j = i
    BY <1>1, <1>3, <2>1 DEF Nowhere
  <2>3. QED
    BY <1>1, <2>1, <2>2 DEF Once
<1>4. ASSUME Nowhere(q, X), Once(r, X) PROVE Once(c, X)
  <2>1. PICK i \in DOMAIN r : r[i] \in X /\ \A j \in DOMAIN r : r[j] \in X => j = i
    BY <1>4 DEF Once
  <2>2. \A j \in DOMAIN c : c[j] \in X => j = i + n
    BY <1>1, <1>4, <2>1 DEF Nowhere
  <2>3. QED
    BY <1>1, <2>1, <2>2 DEF Once
<1>5. Nowhere(c, X) => Nowhere(q, X) /\ Nowhere(r, X)
  <2>1. Nowhere(c, X) => Nowhere(q, X)
    BY <1>1 DEF Nowhere
  <2>2. ASSUME Nowhere(c, X), NEW i \in DOMAIN r PROVE r[i] \notin X
    <3>1. i + n \in DOMAIN c /\ c[i + n] = r[i]
      BY <1>1
    <3>2. QED
      BY <2>2, <3>1 DEF Nowhere
  <2>3. QED
    BY <2>1, <2>2 DEF Nowhere
<1>6. QED
  BY <1>2, <1>3, <1>4, <1>5 DEF c

\* What a step that is not about X does to the mailbox: nothing, an append, or
\* taking the head.
Elsewhere(X) ==
  \/ mailbox' = mailbox
  \/ \E m \in Messages : m \notin X /\ mailbox' = Append(mailbox, m)
  \/ mailbox # << >> /\ Head(mailbox) \notin X /\ mailbox' = Tail(mailbox)

LEMMA MailboxKept ==
  ASSUME mailbox \in Seq(Messages), NEW X, Elsewhere(X)
  PROVE  /\ Nowhere(mailbox, X) <=> Nowhere(mailbox', X)
         /\ Once(mailbox, X) => Once(mailbox', X)
<1>1. CASE mailbox' = mailbox
  BY <1>1
<1>2. CASE \E m \in Messages : m \notin X /\ mailbox' = Append(mailbox, m)
  BY <1>2, AppendOccur
<1>3. CASE mailbox # << >> /\ Head(mailbox) \notin X /\ mailbox' = Tail(mailbox)
  BY <1>3, TailOccur
<1>4. QED
  BY <1>1, <1>2, <1>3 DEF Elsewhere

\* The messages resume replays are inbound events, each as often as it was held.
LEMMA HeldTyped ==
  ASSUME TypeOK
  PROVE  /\ HeldMessages \in Seq(Messages)
         /\ \A i \in DOMAIN HeldMessages : HeldMessages[i].type = "inbound_event"
<1>1. \A i \in 1..Len(pending_events) : Inbound(pending_events[Len(pending_events) + 1 - i]) \in Messages
  BY MessageTypes DEF TypeOK
<1>2. QED
  BY <1>1 DEF TypeOK, HeldMessages, Inbound

LEMMA ResumeKept ==
  ASSUME TypeOK, HandleResume, NEW X, \A m \in X : m.type \notin {"inbound_event", "resume"}
  PROVE  /\ Nowhere(mailbox, X) <=> Nowhere(mailbox', X)
         /\ Once(mailbox, X) => Once(mailbox', X)
<1>1. /\ mailbox \in Seq(Messages) /\ Tail(mailbox) \in Seq(Messages)
      /\ mailbox # << >> /\ Head(mailbox).type = "resume"
      /\ mailbox' = Tail(mailbox) \o HeldMessages
  BY DEF TypeOK, HandleResume, Receive
<1>2. Head(mailbox) \notin X
  BY <1>1
<1>3. Nowhere(HeldMessages, X) /\ HeldMessages \in Seq(Messages)
  BY HeldTyped DEF Nowhere
<1>4. QED
  BY <1>1, <1>2, <1>3, TailOccur, ConcatOccur

\* The steps of the process and its environment that touch only the mailbox,
\* as far as X is concerned; ToolInv and DirectivesTracked share this case.
LEMMA MailboxSteps ==
  ASSUME TypeOK, NEW X, \A m \in X : m.type \in {"tool_invoke", "directive_deadline"}
  PROVE  /\ \A e \in Events : DeliverEvent(e) => Elsewhere(X)
         /\ \A op \in {"pause", "resume"} : DeliverGenCall(op) => Elsewhere(X)
         /\ \A d \in DOMAIN wire : AdapterAck(d) => Elsewhere(X)
         /\ \A c \in calls : LateReply(c) => Elsewhere(X)
         /\ \/ HandlePause \/ HandleInboundPaused \/ HandleInboundDenied
            \/ HandleInboundDuplicate \/ HandleInbound \/ HandleAck
            => Elsewhere(X)
<1>0. mailbox \in Seq(Messages)
  BY DEF TypeOK
<1>1. ASSUME NEW e \in Events, DeliverEvent(e) PROVE Elsewhere(X)
  <2>1. Inbound(e) \in Messages /\ Inbound(e) \notin X
    BY MessageTypes DEF Inbound
  <2>2. QED
    BY <1>1, <2>1 DEF DeliverEvent, Elsewhere
<1>2. ASSUME NEW op \in {"pause", "resume"}, DeliverGenCall(op) PROVE Elsewhere(X)
  <2>1. GenCall(op) \in Messages /\ GenCall(op) \notin X
    BY MessageTypes DEF GenCall
  <2>2. QED
    BY <1>2, <2>1 DEF DeliverGenCall, Elsewhere
<1>3. ASSUME NEW d \in DOMAIN wire, AdapterAck(d) PROVE Elsewhere(X)
  <2>1. d \in Nat
    BY DEF TypeOK
  <2>2. DirectiveAck(d) \in Messages /\ DirectiveAck(d) \notin X
    BY <2>1, MessageTypes DEF DirectiveAck
  <2>3. QED
    BY <1>3, <2>2 DEF AdapterAck, Elsewhere
<1>4. ASSUME NEW c \in calls, LateReply(c) PROVE Elsewhere(X)
  <2>1. HandlerReply \in Messages /\ HandlerReply \notin X
    BY MessageTypes DEF HandlerReply
  <2>2. QED
    BY <1>4, <2>1 DEF LateReply, Elsewhere
<1>5. ASSUME \/ HandlePause \/ HandleInboundPaused \/ HandleInboundDenied
             \/ HandleInboundDuplicate \/ HandleInbound \/ HandleAck
      PROVE Elsewhere(X)
  <2>1. /\ mailbox # << >> /\ mailbox' = Tail(mailbox)
        /\ Head(mailbox).type \in {"pause", "inbound_event", "directive_ack"}
    BY <1>5 DEF HandlePause, HandleInboundPaused, HandleInboundDenied,
                HandleInboundDuplicate, HandleInbound, HandleAck, Receive, Consume
  <2>2. Head(mailbox) \notin X
    BY <2>1
  <2>3. QED
    BY <2>1, <2>2 DEF Elsewhere
<1>6. QED
  BY <1>1, <1>2, <1>3, <1>4, <1>5

---------------------------------------------------------------------------
(* Directives are tracked until their deadline *)

\* DirectivesTracked, with the deadline as an occurrence in the mailbox.
LEMMA DeadlineOccurs ==
  ASSUME NEW q, NEW m
  PROVE  m \in Elems(q) <=> ~Nowhere(q, {m})
  BY DEF Elems, Nowhere

\* A step that leaves the tables alone and takes no deadline message.
LEMMA TrackedKept ==
  ASSUME TypeOK, DirectivesTracked,
         UNCHANGED <<pending_directives, pending_tool_reqs, subs, timers>>,
         \A d \in Nat : Nowhere(mailbox', {DirectiveDeadline(d)})
                          => Nowhere(mailbox, {DirectiveDeadline(d)})
  PROVE  DirectivesTracked'
<1>1. \A d \in Nat : DirectiveDeadline(d) \in Elems(mailbox)
                       => DirectiveDeadline(d) \in Elems(mailbox')
  BY DeadlineOccurs
<1>2. pending_directives \subseteq Nat
  BY DEF TypeOK
<1>3. ASSUME NEW d \in pending_directives'
      PROVE  d \in timers' \/ DirectiveDeadline(d) \in Elems(mailbox')
  BY <1>1, <1>2 DEF DirectivesTracked
<1>4. QED
  BY <1>3 DEF DirectivesTracked, DirectiveDeadline, Elems

\* Emitting tracks one directive more; the mailbox loses no deadline meanwhile.
LEMMA TrackedEmit ==
  ASSUME TypeOK, DirectivesTracked, Emit(next_id),
         DOMAIN pending_tool_reqs' \subseteq DOMAIN pending_tool_reqs \cup {next_id},
         \A d \in Nat : Nowhere(mailbox', {DirectiveDeadline(d)})
                          => Nowhere(mailbox, {DirectiveDeadline(d)})
  PROVE  DirectivesTracked'
<1>1. \A d \in Nat : DirectiveDeadline(d) \in Elems(mailbox)
                       => DirectiveDeadline(d) \in Elems(mailbox')
  BY DeadlineOccurs
<1>2. /\ pending_directives \subseteq Nat
      /\ pending_directives' = pending_directives \cup {next_id}
      /\ subs' = subs \cup {next_id} /\ timers' = timers \cup {next_id}
  BY DEF TypeOK, Emit, Deadline
<1>3. ASSUME NEW d \in pending_directives'
      PROVE  d \in timers' \/ DirectiveDeadline(d) \in Elems(mailbox')
  BY <1>1, <1>2 DEF DirectivesTracked
<1>4. DOMAIN pending_tool_reqs' \subseteq pending_directives' /\ subs' = pending_directives'
  BY <1>2 DEF DirectivesTracked
<1>5. QED
  BY <1>3, <1>4 DEF DirectivesTracked, DirectiveDeadline, Elems

\* Completing a directive, whether or not it was still pending.
LEMMA TrackedComplete ==
  ASSUME TypeOK, DirectivesTracked, NEW d, NEW o, Complete(d, o), timers' = timers,
         mailbox # << >>, mailbox' = Tail(mailbox),
         Head(mailbox).type # "directive_deadline" \/ Head(mailbox) = DirectiveDeadline(d)
  PROVE  DirectivesTracked'
<1>1. /\ pending_directives' = pending_directives \ {d}
      /\ DOMAIN pending_tool_reqs' = DOMAIN pending_tool_reqs \ {d}
  BY DEF Complete, ForgetToolReq
<1>2. subs' = pending_directives'
  BY <1>1 DEF Complete, DirectivesTracked
<1>3. ASSUME NEW x \in pending_directives'
      PROVE  x \in timers' \/ DirectiveDeadline(x) \in Elems(mailbox')
  <2>1. x \in pending_directives /\ x # d /\ x \in Nat
    BY <1>1 DEF TypeOK
  <2>2. Head(mailbox) \notin {DirectiveDeadline(x)}
    BY <2>1 DEF DirectiveDeadline
  <2>3. Nowhere(Tail(mailbox), {DirectiveDeadline(x)}) => Nowhere(mailbox, {DirectiveDeadline(x)})
    BY <2>2, TailOccur DEF TypeOK
  <2>4. QED
    BY <2>1, <2>3, DeadlineOccurs DEF DirectivesTracked
<1>4. QED
  BY <1>1, <1>2, <1>3 DEF DirectivesTracked, DirectiveDeadline, Elems

\* DirectivesTracked is inductive.
LEMMA TrackedStep == TypeOK /\ DirectivesTracked /\ [Next]_vars => DirectivesTracked'
<1> SUFFICES ASSUME TypeOK, DirectivesTracked, [Next]_vars PROVE DirectivesTracked'
  OBVIOUS
<1>0. mailbox \in Seq(Messages)
  BY DEF TypeOK
<1>1. ASSUME \A d \in Nat : Elsewhere({DirectiveDeadline(d)}),
             UNCHANGED <<pending_directives, pending_tool_reqs, subs, timers>>
      PROVE DirectivesTracked'
  BY <1>0, <1>1, MailboxKept, TrackedKept
<1>2. \A d \in Nat : \A m \in {DirectiveDeadline(d)} : m.type \in {"tool_invoke", "directive_deadline"}
  BY DEF DirectiveDeadline
<1>3. CASE Environment
  <2>1. CASE \/ \E e \in Events : DeliverEvent(e)
             \/ \E op \in {"pause", "resume"} : DeliverGenCall(op)
             \/ \E d \in DOMAIN wire : AdapterAck(d)
             \/ \E c \in calls : LateReply(c)
    <3>1. \A d \in Nat : Elsewhere({DirectiveDeadline(d)})
      BY <1>2, <2>1, MailboxSteps
    <3>2. QED
      BY <1>1, <2>1, <3>1 DEF DeliverEvent, DeliverGenCall, AdapterAck, LateReply
  <2>2. ASSUME NEW r \in Reqs, NEW t \in Tools, DeliverToolInvoke(r, t) PROVE DirectivesTracked'
    <3>1. ToolInvoke(r, t) \in Messages /\ \A d \in Nat : ToolInvoke(r, t) \notin {DirectiveDeadline(d)}
      BY MessageTypes DEF ToolInvoke, DirectiveDeadline
    <3>2. QED
      BY <1>1, <2>2, <3>1 DEF DeliverToolInvoke, Elsewhere
  <2>3. ASSUME NEW d \in timers, FireDeadline(d) PROVE DirectivesTracked'
    <3>1. /\ d \in Nat /\ mailbox' = Append(mailbox, DirectiveDeadline(d))
          /\ timers' = timers \ {d} /\ DirectiveDeadline(d) \in Messages
          /\ UNCHANGED <<pending_directives, pending_tool_reqs, subs>>
      BY <2>3, MessageTypes DEF TypeOK, FireDeadline
    <3>2. ASSUME NEW x \in pending_directives'
          PROVE  x \in timers' \/ DirectiveDeadline(x) \in Elems(mailbox')
      <4>1. x \in pending_directives /\ x \in Nat
        BY <3>1 DEF TypeOK
      <4>2. CASE x = d
        BY <1>0, <3>1, <4>2, AppendOccur, DeadlineOccurs
      <4>3. CASE x # d
        BY <1>0, <3>1, <4>1, <4>3, AppendOccur, DeadlineOccurs DEF DirectivesTracked
      <4>4. QED
        BY <4>2, <4>3
    <3>3. QED
      BY <3>1, <3>2 DEF DirectivesTracked, DirectiveDeadline, Elems
  <2>4. QED
    BY <1>3, <2>1, <2>2, <2>3 DEF Environment
<1>4. CASE Mailbox
  <2>1. CASE \/ HandlePause \/ HandleInboundPaused \/ HandleInboundDenied
             \/ HandleInboundDuplicate \/ HandleInbound
    <3>1. \A d \in Nat : Elsewhere({DirectiveDeadline(d)})
      BY <1>2, <2>1, MailboxSteps
    <3>2. QED
      BY <1>1, <2>1, <3>1 DEF HandlePause, HandleInboundPaused, HandleInboundDenied,
                              HandleInboundDuplicate, HandleInbound
  <2>2. CASE HandleResume
    <3>1. \A d \in Nat : Nowhere(mailbox', {DirectiveDeadline(d)})
                           => Nowhere(mailbox, {DirectiveDeadline(d)})
      BY <2>2, ResumeKept DEF DirectiveDeadline
    <3>2. QED
      BY <2>2, <3>1, TrackedKept DEF HandleResume
  <2>3. CASE HandleToolInvoke
    <3>1. mailbox # << >> /\ Head(mailbox).type = "tool_invoke" /\ mailbox' = Tail(mailbox)
      BY <2>3 DEF HandleToolInvoke, Receive, Consume
    <3>2. \A d \in Nat : Elsewhere({DirectiveDeadline(d)})
      BY <3>1 DEF Elsewhere, DirectiveDeadline
    <3>3. CASE Emit(next_id)
               /\ DOMAIN pending_tool_reqs' = DOMAIN pending_tool_reqs \cup {next_id}
      BY <1>0, <3>2, <3>3, MailboxKept, TrackedEmit
    <3>4. CASE UNCHANGED <<subs, timers, pending_directives, pending_tool_reqs>>
      BY <1>1, <3>2, <3>4
    <3>5. QED
      BY <2>3, <3>3, <3>4 DEF HandleToolInvoke
  <2>4. CASE HandleAck
    BY <2>4, TrackedComplete DEF HandleAck, Receive, Consume
  <2>5. CASE HandleDeadline
    <3>1. mailbox # << >> /\ Head(mailbox) \in Messages /\ Head(mailbox).type = "directive_deadline"
      BY <1>0, <2>5 DEF HandleDeadline, Receive
    <3>2. Head(mailbox) = DirectiveDeadline(Msg.id)
      BY <3>1 DEF Messages, DirectiveDeadline, Msg
    <3>3. QED
      BY <2>5, <3>1, <3>2, TrackedComplete DEF HandleDeadline, Consume
  <2>6. CASE HandleStrayReply
    BY <2>6 DEF HandleStrayReply, Restart, DirectivesTracked, EmptyMap
  <2>7. QED
    BY <1>4, <2>1, <2>2, <2>3, <2>4, <2>5, <2>6 DEF Mailbox
<1>5. CASE Invocation
  <2>0. mailbox' = mailbox
    BY <1>5 DEF Invocation, ReplyError, ReplyOk, CallTimeout, Unsubscribe, PersistState,
                DispatchAction, FinishInvocation
  <2>1. CASE UNCHANGED <<pending_directives, pending_tool_reqs, subs, timers>>
    BY <1>1, <2>0, <2>1 DEF Elsewhere
  <2>2. CASE DispatchAction /\ Emit(next_id)
    BY <2>0, <2>2, TrackedEmit DEF DispatchAction
  <2>3. QED
    BY <1>5, <2>1, <2>2 DEF Invocation, ReplyError, ReplyOk, CallTimeout, Unsubscribe,
                            PersistState, DispatchAction, FinishInvocation
<1>6. CASE Crash
  BY <1>6 DEF Crash, Restart, DirectivesTracked, EmptyMap
<1>7. CASE UNCHANGED vars
  BY <1>1, <1>7 DEF Elsewhere
<1>8. QED
  BY <1>3, <1>4, <1>5, <1>6, <1>7 DEF Next

\* In every behaviour a tool request waits on a directive that is pending, a
\* subscription belongs to a pending directive, and a pending directive has its
\* deadline still to come: acks, late deadlines and crashes leak neither.
THEOREM DirectivesTrackedHolds == Spec => []DirectivesTracked
<1>1. Init => DirectivesTracked
  BY DEF Init, DirectivesTracked, EmptyMap
<1>2. QED
  BY <1>1, TrackedStep, TypeCorrect, PTL DEF Spec

---------------------------------------------------------------------------
(* A tool request is answered at most once *)

\* A request the step is not about.
LEMMA RequestKept ==
  ASSUME NEW r \in Reqs, RequestInv(r), r \in asked' <=> r \in asked,
         results'[r] = results[r], WaitsOn(r)' \subseteq WaitsOn(r),
         Nowhere(mailbox, RequestOf(r)) => Nowhere(mailbox', RequestOf(r)),
         Once(mailbox, RequestOf(r)) => Once(mailbox', RequestOf(r))
  PROVE  RequestInv(r)'
<1>1. RequestOf(r)' = RequestOf(r)
  BY DEF RequestOf, ToolInvoke
<1>2. Once(mailbox', RequestOf(r)) => Once(mailbox, RequestOf(r))
  BY OccurExclusive DEF RequestInv
<1>3. QED
  BY <1>1, <1>2 DEF RequestInv

\* One that has left the mailbox and waits on nothing.
LEMMA RequestSettled ==
  ASSUME NEW r \in Reqs, r \in asked', Len(results'[r]) <= 1, WaitsOn(r)' = {},
         Nowhere(mailbox', RequestOf(r))
  PROVE  RequestInv(r)'
<1>1. RequestOf(r)' = RequestOf(r)
  BY DEF RequestOf, ToolInvoke
<1>2. QED
  BY <1>1, OccurExclusive DEF RequestInv

\* ToolInv is inductive: answering empties the place the request was in.
LEMMA ToolStep == TypeOK /\ ToolInv /\ [Next]_vars => ToolInv'
<1> SUFFICES ASSUME TypeOK, ToolInv, [Next]_vars, NEW r \in Reqs PROVE RequestInv(r)'
  BY DEF ToolInv
<1> DEFINE X == RequestOf(r)
<1>0. /\ mailbox \in Seq(Messages) /\ RequestInv(r)
      /\ \A m \in X : m.type = "tool_invoke" /\ m.req = r
      /\ pending_tool_reqs \in [DOMAIN pending_tool_reqs -> Reqs]
      /\ results \in [Reqs -> Seq(ToolResults)]
  BY DEF TypeOK, ToolInv, RequestOf, ToolInvoke
<1> HIDE DEF X
<1>1. ASSUME Elsewhere(X), UNCHANGED <<pending_tool_reqs, results, asked>> PROVE RequestInv(r)'
  <2>1. WaitsOn(r)' = WaitsOn(r)
    BY <1>1 DEF WaitsOn
  <2>2. QED
    BY <1>0, <1>1, <2>1, MailboxKept, RequestKept DEF X
<1>2. ASSUME NEW d, NEW o, Complete(d, o), Elsewhere(X), UNCHANGED asked
      PROVE RequestInv(r)'
  <2>0. /\ Nowhere(mailbox, X) => Nowhere(mailbox', X)
        /\ Once(mailbox, X) => Once(mailbox', X)
    BY <1>0, <1>2, MailboxKept
  <2>1. WaitsOn(r)' = WaitsOn(r) \ {d}
    BY <1>2 DEF Complete, ForgetToolReq, WaitsOn
  <2>2. CASE d \in WaitsOn(r)
    <3>1. /\ results[r] = << >> /\ r \in asked /\ WaitsOn(r)' = {}
          /\ ~Once(mailbox, X) /\ Nowhere(mailbox, X)
      BY <1>0, <2>1, <2>2 DEF RequestInv, X
    <3>2. results' = [results EXCEPT ![r] = Append(results[r], o)]
      BY <1>2, <2>2 DEF Complete, Answer, WaitsOn
    <3>3. Len(results'[r]) <= 1
      BY <1>0, <3>1, <3>2
    <3>4. r \in asked' /\ Nowhere(mailbox', RequestOf(r))
      BY <1>2, <2>0, <3>1 DEF X
    <3>5. QED
      BY <3>1, <3>3, <3>4, RequestSettled
  <2>3. CASE d \notin WaitsOn(r)
    <3>1. results'[r] = results[r]
      BY <1>0, <1>2, <2>3 DEF Complete, Answer, WaitsOn
    <3>2. QED
      BY <1>0, <1>2, <2>0, <2>1, <3>1, RequestKept DEF X
  <2>4. QED
    BY <2>2, <2>3
<1>3. CASE Environment
  <2>1. CASE \/ \E e \in Events : DeliverEvent(e)
             \/ \E op \in {"pause", "resume"} : DeliverGenCall(op)
             \/ \E d \in DOMAIN wire : AdapterAck(d)
             \/ \E c \in calls : LateReply(c)
    <3>1. Elsewhere(X)
      BY <1>0, <2>1, MailboxSteps
    <3>2. QED
      BY <1>1, <2>1, <3>1 DEF DeliverEvent, DeliverGenCall, AdapterAck, LateReply
  <2>2. ASSUME NEW q \in Reqs, NEW t \in Tools, DeliverToolInvoke(q, t) PROVE RequestInv(r)'
    <3>0. /\ ToolInvoke(q, t) \in Messages /\ mailbox' = Append(mailbox, ToolInvoke(q, t))
          /\ q \notin asked /\ asked' = asked \cup {q}
          /\ UNCHANGED <<pending_tool_reqs, results>>
      BY <2>2, MessageTypes DEF DeliverToolInvoke
    <3>1. WaitsOn(r)' = WaitsOn(r)
      BY <3>0 DEF WaitsOn
    <3>2. CASE q = r
      <4>1. ToolInvoke(q, t) \in X
        BY <3>2 DEF X, RequestOf
      <4>2. /\ results[r] = << >> /\ WaitsOn(r) = {} /\ Nowhere(mailbox, X)
        BY <1>0, <3>0, <3>2 DEF RequestInv, X
      <4>3. Once(mailbox', X)
        BY <1>0, <3>0, <4>1, <4>2, AppendOccur
      <4>4. RequestOf(r)' = RequestOf(r)
        BY DEF RequestOf, ToolInvoke
      <4>5. QED
        BY <3>0, <3>1, <3>2, <4>2, <4>3, <4>4 DEF RequestInv, X
    <3>3. CASE q # r
      <4>1. ToolInvoke(q, t) \notin X
        BY <1>0, <3>3 DEF ToolInvoke
      <4>2. Elsewhere(X)
        BY <3>0, <4>1 DEF Elsewhere
      <4>3. QED
        BY <1>0, <3>0, <3>1, <3>3, <4>2, MailboxKept, RequestKept DEF X
    <3>4. QED
      BY <3>2, <3>3
  <2>3. ASSUME NEW d \in timers, FireDeadline(d) PROVE RequestInv(r)'
    <3>1. DirectiveDeadline(d) \in Messages /\ DirectiveDeadline(d) \notin X
      BY <1>0, MessageTypes DEF TypeOK, DirectiveDeadline
    <3>2. QED
      BY <1>1, <2>3, <3>1 DEF FireDeadline, Elsewhere
  <2>4. QED
    BY <1>3, <2>1, <2>2, <2>3 DEF Environment
<1>4. CASE Mailbox
  <2>1. CASE \/ HandlePause \/ HandleInboundPaused \/ HandleInboundDenied
             \/ HandleInboundDuplicate \/ HandleInbound
    <3>1. Elsewhere(X)
      BY <1>0, <2>1, MailboxSteps
    <3>2. QED
      BY <1>1, <2>1, <3>1 DEF HandlePause, HandleInboundPaused, HandleInboundDenied,
                              HandleInboundDuplicate, HandleInbound
  <2>2. CASE HandleResume
    <3>1. /\ Nowhere(mailbox, X) => Nowhere(mailbox', X)
          /\ Once(mailbox, X) => Once(mailbox', X)
      BY <1>0, <2>2, ResumeKept
    <3>2. WaitsOn(r)' = WaitsOn(r) /\ results' = results /\ asked' = asked
      BY <2>2 DEF HandleResume, WaitsOn
    <3>3. QED
      BY <1>0, <3>1, <3>2, RequestKept DEF X
  <2>3. CASE HandleToolInvoke
    <3>0. /\ mailbox # << >> /\ Head(mailbox).type = "tool_invoke" /\ mailbox' = Tail(mailbox)
          /\ Msg.req \in Reqs /\ Msg.tool \in Tools /\ Msg = Head(mailbox)
          /\ Msg \in Messages /\ asked' = asked
      BY <1>0, <2>3, MsgFields DEF HandleToolInvoke, Receive, Consume, Msg
    <3>1. \/ /\ pending_tool_reqs' =
                  [d \in DOMAIN pending_tool_reqs \cup {next_id} |->
                     IF d = next_id THEN Msg.req ELSE pending_tool_reqs[d]]
             /\ results' = results
          \/ /\ pending_tool_reqs' = pending_tool_reqs
             /\ \E o : results' = [results EXCEPT ![Msg.req] = Append(results[Msg.req], o)]
      BY <2>3 DEF HandleToolInvoke, Answer
    <3>2. CASE Msg.req = r
      <4>1. Msg \in X
        BY <3>0, <3>2 DEF X, RequestOf, Messages, ToolInvoke
      <4>2. Once(mailbox, X) /\ Nowhere(mailbox', X)
        BY <1>0, <3>0, <4>1, TailOccur DEF RequestInv, X
      <4>3. r \in asked /\ results[r] = << >> /\ WaitsOn(r) = {}
        BY <1>0, <4>2 DEF RequestInv, X
      <4>4. RequestOf(r)' = RequestOf(r)
        BY DEF RequestOf, ToolInvoke
      <4>5. \/ WaitsOn(r)' \subseteq {next_id} /\ results'[r] = results[r]
            \/ WaitsOn(r)' = {} /\ Len(results'[r]) <= 1
        <5>1. CASE /\ pending_tool_reqs' =
                        [d \in DOMAIN pending_tool_reqs \cup {next_id} |->
                           IF d = next_id THEN Msg.req ELSE pending_tool_reqs[d]]
                   /\ results' = results
          BY <4>3, <5>1 DEF WaitsOn
        <5>2. CASE /\ pending_tool_reqs' = pending_tool_reqs
                   /\ \E o : results' = [results EXCEPT ![Msg.req] = Append(results[Msg.req], o)]
          BY <1>0, <3>2, <4>3, <5>2 DEF WaitsOn
        <5>3. QED
          BY <3>1, <5>1, <5>2
      <4>6. r \in asked' /\ Nowhere(mailbox', RequestOf(r)) /\ ~Once(mailbox', RequestOf(r))
        BY <3>0, <4>2, <4>3, OccurExclusive DEF X
      <4>7. CASE WaitsOn(r)' \subseteq {next_id} /\ results'[r] = results[r]
        <5>1. results'[r] = << >> /\ Len(results'[r]) <= 1
          BY <4>3, <4>7
        <5>2. QED
          BY <4>4, <4>6, <4>7, <5>1 DEF RequestInv
      <4>8. CASE WaitsOn(r)' = {} /\ Len(results'[r]) <= 1
        BY <4>6, <4>8, RequestSettled
      <4>9. QED
        BY <4>5, <4>7, <4>8
    <3>3. CASE Msg.req # r
      <4>1. Elsewhere(X)
        BY <1>0, <3>0, <3>3 DEF Elsewhere
      <4>2. WaitsOn(r)' \subseteq WaitsOn(r) /\ results'[r] = results[r]
        BY <1>0, <3>0, <3>1, <3>3 DEF WaitsOn
      <4>3. QED
        BY <1>0, <3>0, <4>1, <4>2, MailboxKept, RequestKept DEF X
    <3>4. QED
      BY <3>2, <3>3
  <2>4. CASE HandleAck
    <3>1. Elsewhere(X)
      BY <1>0, <2>4, MailboxSteps
    <3>2. QED
      BY <1>2, <2>4, <3>1 DEF HandleAck
  <2>5. CASE HandleDeadline
    <3>1. Elsewhere(X)
      BY <1>0, <2>5 DEF HandleDeadline, Receive, Consume, Elsewhere
    <3>2. QED
      BY <1>2, <2>5, <3>1 DEF HandleDeadline
  <2>6. CASE HandleStrayReply
    <3>1. Restart
      BY <2>6 DEF HandleStrayReply
    <3>2. QED
      BY <1>0, <3>1, OccurExclusive
         DEF Restart, RequestInv, WaitsOn, EmptyMap, Nowhere, Once
  <2>7. QED
    BY <1>4, <2>1, <2>2, <2>3, <2>4, <2>5, <2>6 DEF Mailbox
<1>5. CASE Invocation
  <2>1. UNCHANGED <<mailbox, pending_tool_reqs, results, asked>>
    BY <1>5 DEF Invocation, ReplyError, ReplyOk, CallTimeout, Unsubscribe, PersistState,
                DispatchAction, FinishInvocation
  <2>2. QED
    BY <1>1, <2>1 DEF Elsewhere
<1>6. CASE Crash
  BY <1>0, <1>6, OccurExclusive
     DEF Crash, Restart, RequestInv, WaitsOn, EmptyMap, Nowhere, Once
<1>7. CASE UNCHANGED vars
  BY <1>1, <1>7 DEF Elsewhere
<1>8. QED
  BY <1>3, <1>4, <1>5, <1>6, <1>7 DEF Next

\* Whatever the order of acks, the deadline no code path cancels, and restarts,
\* the agent gets at most one tool_result for a request.
THEOREM ToolAnsweredOnceHolds == Spec => []ToolAnsweredOnce
<1>1. Init => ToolInv
  BY DEF Init, ToolInv, RequestInv, WaitsOn, EmptyMap, Nowhere, Once
<1>2. ToolInv => ToolAnsweredOnce
  BY DEF ToolInv, RequestInv, ToolAnsweredOnce
<1>3. QED
  BY <1>1, <1>2, ToolStep, TypeCorrect, PTL DEF Spec

---------------------------------------------------------------------------
(* No event is lost silently *)

\* What resume replays holds each held event as often as the pause queue did.
LEMMA HeldOccur ==
  ASSUME TypeOK, NEW e \in Events
  PROVE  /\ Nowhere(pending_events, {e}) => Nowhere(HeldMessages, {Inbound(e)})
         /\ Once(pending_events, {e}) => Once(HeldMessages, {Inbound(e)})
<1> DEFINE n == Len(pending_events)
           h == HeldMessages
<1>1. /\ n \in Nat /\ DOMAIN pending_events = 1..n /\ DOMAIN h = 1..n
      /\ \A i \in 1..n : h[i] = Inbound(pending_events[n + 1 - i])
  BY DEF TypeOK, HeldMessages
<1>2. \A i \in 1..n : n + 1 - i \in 1..n /\ n + 1 - (n + 1 - i) = i
  BY <1>1
<1>3. \A i \in 1..n : h[i] = Inbound(e) <=> pending_events[n + 1 - i] = e
  BY <1>1 DEF Inbound
<1> HIDE DEF n, h
<1>4. Nowhere(pending_events, {e}) => Nowhere(h, {Inbound(e)})
  BY <1>1, <1>2, <1>3 DEF Nowhere
<1>5. ASSUME Once(pending_events, {e}) PROVE Once(h, {Inbound(e)})
  <2>1. PICK i \in 1..n : /\ pending_events[i] = e
                          /\ \A j \in 1..n : pending_events[j] = e => j = i
    BY <1>1, <1>5 DEF Once
  <2>2. n + 1 - i \in 1..n /\ h[n + 1 - i] = Inbound(e)
    BY <1>2, <1>3, <2>1
  <2>3. \A j \in 1..n : h[j] = Inbound(e) => j = n + 1 - i
    BY <1>1, <1>2, <1>3, <2>1
  <2>4. QED
    BY <1>1, <2>2, <2>3 DEF Once
<1>6. QED
  BY <1>4, <1>5 DEF h

\* An event the step is not about.
LEMMA PlacedKept ==
  ASSUME NEW e \in Events, PlacedInv(e), pending_events' = pending_events,
         arrival' = arrival, outcome'[e] = outcome[e], InHand(e)' <=> InHand(e),
         Nowhere(mailbox, {Inbound(e)}) => Nowhere(mailbox', {Inbound(e)}),
         Once(mailbox, {Inbound(e)}) => Once(mailbox', {Inbound(e)})
  PROVE  PlacedInv(e)'
  BY DEF PlacedInv, Undecided, InMailbox, Held, Handled, Settled, Elems, Inbound

\* An event that is settled: it has left the place it was in.
LEMMA PlacedSettled ==
  ASSUME NEW e \in Events, e \in Elems(arrival), arrival' = arrival,
         outcome'[e] # "none", ~InHand(e)',
         Nowhere(mailbox', {Inbound(e)}), Nowhere(pending_events', {e})
  PROVE  PlacedInv(e)'
  BY DEF PlacedInv, Undecided, Settled, Elems, Inbound

LEMMA PlacedRestart ==
  ASSUME TypeOK, NEW e \in Events, PlacedInv(e), Restart
  PROVE  PlacedInv(e)'
<1>1. /\ mailbox' = << >> /\ pending_events' = << >> /\ pc' = "idle" /\ arrival' = arrival
      /\ outcome'[e] = IF e \in Elems(arrival) /\ outcome[e] = "none" THEN "lost" ELSE outcome[e]
  BY DEF Restart
<1>2. ~InHand(e)'
  BY <1>1 DEF InHand
<1>3. Nowhere(mailbox', {Inbound(e)}) /\ Nowhere(pending_events', {e})
  BY <1>1 DEF Nowhere
<1>4. CASE e \in Elems(arrival)
  BY <1>1, <1>2, <1>3, <1>4, PlacedSettled
<1>5. CASE e \notin Elems(arrival)
  BY <1>1, <1>2, <1>3, <1>5 DEF PlacedInv, Undecided, Settled, Elems, Inbound
<1>6. QED
  BY <1>4, <1>5

\* LossInv is inductive: every step moves an event from one place to the next.
LEMMA LossStep == TypeOK /\ LossInv /\ [Next]_vars => LossInv'
<1> SUFFICES ASSUME TypeOK, LossInv, [Next]_vars, NEW e \in Events PROVE PlacedInv(e)'
  BY DEF LossInv
<1>0. /\ mailbox \in Seq(Messages) /\ pending_events \in Seq(Events)
      /\ arrival \in Seq(Events) /\ outcome \in [Events -> Outcomes]
      /\ PlacedInv(e) /\ Inbound(e) \in Messages /\ Inbound(e).type = "inbound_event"
      /\ pc # "idle" => call.event \in Events
  BY MessageTypes DEF TypeOK, LossInv, CallRecords, Inbound
<1>1. ASSUME Elsewhere({Inbound(e)}), UNCHANGED <<pending_events, arrival>>,
             outcome'[e] = outcome[e], InHand(e)' <=> InHand(e)
      PROVE PlacedInv(e)'
  BY <1>0, <1>1, MailboxKept, PlacedKept
<1>2. ASSUME UNCHANGED <<pending_events, arrival, outcome, pc, call>>, Elsewhere({Inbound(e)})
      PROVE PlacedInv(e)'
  BY <1>1, <1>2 DEF InHand
<1>3. CASE Environment
  <2>1. ASSUME NEW f \in Events, DeliverEvent(f) PROVE PlacedInv(e)'
    <3>1. /\ f \notin Elems(arrival) /\ arrival' = Append(arrival, f)
          /\ mailbox' = Append(mailbox, Inbound(f)) /\ Inbound(f) \in Messages
          /\ UNCHANGED <<pending_events, outcome, pc, call>>
      BY <2>1, MessageTypes DEF DeliverEvent
    <3>2. InHand(e)' <=> InHand(e)
      BY <3>1 DEF InHand
    <3>3. Elems(arrival') = Elems(arrival) \cup {f}
      <4>1. /\ \A i \in DOMAIN arrival' : \/ i \in DOMAIN arrival /\ arrival'[i] = arrival[i]
                                         \/ arrival'[i] = f
            /\ \A i \in DOMAIN arrival : i \in DOMAIN arrival' /\ arrival'[i] = arrival[i]
            /\ Len(arrival) + 1 \in DOMAIN arrival' /\ arrival'[Len(arrival) + 1] = f
        BY <1>0, <3>1
      <4>2. QED
        BY <4>1 DEF Elems
    <3>4. CASE f = e
      <4>1. Settled(e) /\ outcome[e] = "none"
        BY <1>0, <3>1, <3>4 DEF PlacedInv, Undecided
      <4>2. Once(mailbox', {Inbound(e)})
        BY <1>0, <3>1, <3>4, <4>1, AppendOccur DEF Settled
      <4>3. InMailbox(e)' /\ Undecided(e)'
        BY <3>1, <3>2, <3>3, <3>4, <4>1, <4>2 DEF InMailbox, Settled, Undecided, Elems, Inbound
      <4>4. QED
        BY <4>3 DEF PlacedInv, Undecided
    <3>5. CASE f # e
      <4>1. Inbound(f) \notin {Inbound(e)}
        BY <3>5 DEF Inbound
      <4>2. /\ Nowhere(mailbox, {Inbound(e)}) => Nowhere(mailbox', {Inbound(e)})
            /\ Once(mailbox, {Inbound(e)}) => Once(mailbox', {Inbound(e)})
        BY <1>0, <3>1, <4>1, AppendOccur
      <4>3. e \in Elems(arrival') <=> e \in Elems(arrival)
        BY <3>3, <3>5
      <4>4. QED
        BY <1>0, <3>1, <3>2, <4>2, <4>3
           DEF PlacedInv, Undecided, InMailbox, Held, Handled, Settled, Elems, Inbound
    <3>6. QED
      BY <3>4, <3>5
  <2>2. ASSUME NEW m \in Messages, m.type # "inbound_event",
               mailbox' = Append(mailbox, m) \/ mailbox' = mailbox
        PROVE Elsewhere({Inbound(e)})
    BY <1>0, <2>2 DEF Elsewhere
  <2>3. ASSUME NEW r \in Reqs, NEW t \in Tools, DeliverToolInvoke(r, t) PROVE PlacedInv(e)'
    <3>1. ToolInvoke(r, t) \in Messages /\ ToolInvoke(r, t).type # "inbound_event"
      BY MessageTypes DEF ToolInvoke
    <3>2. QED
      BY <1>2, <2>2, <2>3, <3>1 DEF DeliverToolInvoke
  <2>4. ASSUME NEW op \in {"pause", "resume"}, DeliverGenCall(op) PROVE PlacedInv(e)'
    <3>1. GenCall(op) \in Messages /\ GenCall(op).type # "inbound_event"
      BY MessageTypes DEF GenCall
    <3>2. QED
      BY <1>2, <2>2, <2>4, <3>1 DEF DeliverGenCall
  <2>5. ASSUME NEW d \in DOMAIN wire, AdapterAck(d) PROVE PlacedInv(e)'
    <3>1. DirectiveAck(d) \in Messages /\ DirectiveAck(d).type # "inbound_event"
      BY MessageTypes DEF DirectiveAck, TypeOK
    <3>2. QED
      BY <1>2, <2>2, <2>5, <3>1 DEF AdapterAck
  <2>6. ASSUME NEW d \in timers, FireDeadline(d) PROVE PlacedInv(e)'
    <3>1. DirectiveDeadline(d) \in Messages /\ DirectiveDeadline(d).type # "inbound_event"
      BY MessageTypes DEF DirectiveDeadline, TypeOK
    <3>2. QED
      BY <1>2, <2>2, <2>6, <3>1 DEF FireDeadline
  <2>7. ASSUME NEW c \in calls, LateReply(c) PROVE PlacedInv(e)'
    <3>1. HandlerReply \in Messages /\ HandlerReply.type # "inbound_event"
      BY MessageTypes DEF HandlerReply
    <3>2. QED
      BY <1>2, <2>2, <2>7, <3>1 DEF LateReply
  <2>8. QED
    BY <1>3, <2>1, <2>3, <2>4, <2>5, <2>6, <2>7 DEF Environment
<1>4. CASE Mailbox
  <2>1. CASE HandlePause \/ HandleToolInvoke \/ HandleAck \/ HandleDeadline
    <3>1. /\ mailbox # << >> /\ mailbox' = Tail(mailbox) /\ Head(mailbox).type # "inbound_event"
          /\ UNCHANGED <<pending_events, arrival, outcome, pc, call>>
      BY <2>1 DEF HandlePause, HandleToolInvoke, HandleAck, HandleDeadline, Receive, Consume
    <3>2. QED
      BY <1>0, <1>2, <3>1 DEF Elsewhere
  <2>2. CASE HandleResume
    <3>0. /\ mailbox # << >> /\ Head(mailbox) \notin {Inbound(e)} /\ Tail(mailbox) \in Seq(Messages)
          /\ mailbox' = Tail(mailbox) \o HeldMessages /\ pending_events' = << >>
          /\ UNCHANGED <<arrival, outcome, pc, call>> /\ pc = "idle"
      BY <1>0, <2>2 DEF HandleResume, Receive
    <3>1. ~InHand(e) /\ ~InHand(e)' /\ Nowhere(pending_events', {e})
      BY <3>0 DEF InHand, Nowhere
    <3>2. HeldMessages \in Seq(Messages)
      BY HeldTyped
    <3>3. /\ Nowhere(mailbox, {Inbound(e)}) => Nowhere(Tail(mailbox), {Inbound(e)})
          /\ Once(mailbox, {Inbound(e)}) => Once(Tail(mailbox), {Inbound(e)})
      BY <1>0, <3>0, TailOccur
    <3>4. Settled(e) => Settled(e)'
      <4>1. ASSUME Settled(e) PROVE Nowhere(mailbox', {Inbound(e)})
        BY <3>0, <3>2, <3>3, <4>1, HeldOccur, ConcatOccur DEF Settled
      <4>2. QED
        BY <3>1, <4>1 DEF Settled, Inbound
    <3>5. ASSUME InMailbox(e) \/ Held(e) PROVE InMailbox(e)'
      <4>1. Once(mailbox', {Inbound(e)})
        BY <3>0, <3>2, <3>3, <3>5, HeldOccur, ConcatOccur DEF InMailbox, Held
      <4>2. QED
        BY <3>1, <4>1 DEF InMailbox, Inbound
    <3>6. Undecided(e)' <=> Undecided(e)
      BY <3>0 DEF Undecided, Elems
    <3>7. QED
      BY <1>0, <3>0, <3>1, <3>4, <3>5, <3>6 DEF PlacedInv, Handled, Undecided, Elems
  <2>3. CASE HandleInboundPaused \/ HandleInboundDenied \/ HandleInboundDuplicate \/ HandleInbound
    <3> DEFINE f == Msg.event
    <3>0. /\ mailbox # << >> /\ mailbox' = Tail(mailbox) /\ Head(mailbox) \in Messages
          /\ Head(mailbox).type = "inbound_event" /\ pc = "idle" /\ arrival' = arrival
          /\ Msg = Head(mailbox) /\ f \in Events
      BY <1>0, <2>3, MsgFields DEF HandleInboundPaused, HandleInboundDenied,
                 HandleInboundDuplicate, HandleInbound, Receive, Consume, Msg
    <3>1. Head(mailbox) = Inbound(f)
      BY <3>0 DEF Messages, Inbound
    <3> HIDE DEF f
    <3>2. ~InHand(e)
      BY <3>0 DEF InHand
    <3>3. CASE f # e
      <4>1. Elsewhere({Inbound(e)})
        BY <3>0, <3>1, <3>3 DEF Elsewhere, Inbound
      <4>2. outcome'[e] = outcome[e]
        BY <1>0, <2>3, <3>0, <3>3 DEF HandleInboundPaused, HandleInboundDenied,
           HandleInboundDuplicate, HandleInbound, f
      <4>3. ~InHand(e)'
        BY <2>3, <3>0, <3>3 DEF InHand, HandleInboundPaused, HandleInboundDenied,
           HandleInboundDuplicate, HandleInbound, CallHandler, f
      <4>4. CASE pending_events' = pending_events
        BY <1>1, <3>0, <3>2, <4>1, <4>2, <4>3, <4>4
      <4>5. CASE pending_events' = <<f>> \o pending_events
        <5>1. Nowhere(<<f>>, {e}) /\ <<f>> \in Seq(Events)
          BY <3>0, <3>3 DEF Nowhere
        <5>2. /\ Nowhere(pending_events, {e}) => Nowhere(pending_events', {e})
              /\ Once(pending_events, {e}) => Once(pending_events', {e})
          BY <1>0, <4>5, <5>1, ConcatOccur
        <5>3. /\ Nowhere(mailbox, {Inbound(e)}) => Nowhere(mailbox', {Inbound(e)})
              /\ Once(mailbox, {Inbound(e)}) => Once(mailbox', {Inbound(e)})
          BY <1>0, <4>1, MailboxKept
        <5>4. QED
          BY <1>0, <3>0, <3>2, <4>2, <4>3, <5>2, <5>3
             DEF PlacedInv, Undecided, InMailbox, Held, Handled, Settled, Elems, Inbound
      <4>6. QED
        BY <2>3, <4>4, <4>5 DEF HandleInboundPaused, HandleInboundDenied,
           HandleInboundDuplicate, HandleInbound, f
    <3>4. CASE f = e
      <4>1. /\ ~Nowhere(mailbox, {Inbound(e)})
        BY <1>0, <3>0, <3>1, <3>4, TailOccur
      <4>2. InMailbox(e) /\ Undecided(e)
        BY <1>0, <4>1 DEF PlacedInv, Settled, Held, Handled
      <4>3. Nowhere(mailbox', {Inbound(e)}) /\ Nowhere(pending_events, {e})
        BY <1>0, <3>0, <3>1, <3>4, <4>2, TailOccur DEF InMailbox
      <4>4. CASE HandleInboundDenied \/ HandleInboundDuplicate
        <5>1. /\ outcome'[e] # "none" /\ pending_events' = pending_events /\ pc' = pc
          BY <1>0, <3>4, <4>4 DEF HandleInboundDenied, HandleInboundDuplicate, f
        <5>2. ~InHand(e)'
          BY <3>0, <5>1 DEF InHand
        <5>3. QED
          BY <3>0, <4>2, <4>3, <5>1, <5>2, PlacedSettled DEF Undecided
      <4>5. CASE HandleInbound
        <5>1. /\ outcome' = outcome /\ pending_events' = pending_events
              /\ pc' = "calling" /\ call'.event = e
          BY <3>4, <4>5 DEF HandleInbound, CallHandler, f
        <5>2. Handled(e)' /\ Undecided(e)'
          BY <3>0, <4>2, <4>3, <5>1 DEF Handled, InHand, Undecided, Elems, Inbound
        <5>3. QED
          BY <5>2 DEF PlacedInv, Undecided
      <4>6. CASE HandleInboundPaused
        <5>0. ~InHand(e)'
          BY <3>0, <4>6 DEF InHand, HandleInboundPaused
        <5>1. CASE Len(pending_events) >= PauseLimit
          <6>1. outcome'[e] # "none" /\ pending_events' = pending_events
            BY <1>0, <3>4, <4>6, <5>1 DEF HandleInboundPaused, f
          <6>2. QED
            BY <3>0, <4>2, <4>3, <5>0, <6>1, PlacedSettled DEF Undecided
        <5>2. CASE ~(Len(pending_events) >= PauseLimit)
          <6>1. outcome' = outcome /\ pending_events' = <<e>> \o pending_events
            BY <3>4, <4>6, <5>2 DEF HandleInboundPaused, f
          <6>2. Once(<<e>>, {e}) /\ <<e>> \in Seq(Events)
            BY DEF Once
          <6>3. Once(pending_events', {e})
            BY <1>0, <4>3, <6>1, <6>2, ConcatOccur
          <6>4. Held(e)' /\ Undecided(e)'
            BY <3>0, <4>2, <4>3, <5>0, <6>1, <6>3 DEF Held, Undecided, Elems, Inbound
          <6>5. QED
            BY <6>4 DEF PlacedInv, Undecided
        <5>3. QED
          BY <5>1, <5>2
      <4>7. QED
        BY <2>3, <4>4, <4>5, <4>6
    <3>5. QED
      BY <3>3, <3>4
  <2>4. CASE HandleStrayReply
    BY <1>0, <2>4, PlacedRestart DEF HandleStrayReply
  <2>5. QED
    BY <1>4, <2>1, <2>2, <2>3, <2>4 DEF Mailbox
<1>5. CASE Invocation
  <2>0. UNCHANGED <<mailbox, pending_events, arrival>>
    BY <1>5 DEF Invocation, ReplyError, ReplyOk, CallTimeout, Unsubscribe, PersistState,
                DispatchAction, FinishInvocation
  <2>1. Elsewhere({Inbound(e)})
    BY <2>0 DEF Elsewhere
  <2>2. ASSUME pc \in {"calling", "timed_out", "persist"}, NEW o, o # "none",
               outcome' = [outcome EXCEPT ![call.event] = o], pc' \in {"idle", "dispatch"}
        PROVE PlacedInv(e)'
    <3>1. call.event \in Events /\ ~InHand(e)'
      BY <1>0, <2>2 DEF InHand
    <3>2. CASE call.event = e
      <4>1. InHand(e) /\ outcome'[e] # "none"
        BY <1>0, <2>2, <3>2 DEF InHand
      <4>2. Handled(e) /\ Undecided(e)
        BY <1>0, <4>1 DEF PlacedInv, Settled, InMailbox, Held
      <4>3. QED
        BY <2>0, <3>1, <4>1, <4>2, PlacedSettled DEF Handled, Undecided
    <3>3. CASE call.event # e
      <4>1. ~InHand(e) /\ outcome'[e] = outcome[e]
        BY <1>0, <2>2, <3>3 DEF InHand
      <4>2. QED
        BY <1>1, <2>0, <2>1, <3>1, <4>1
    <3>4. QED
      BY <3>2, <3>3
  <2>3. ASSUME outcome' = outcome, call'.event = call.event,
               pc \in {"calling", "timed_out", "persist"}, pc' \in {"calling", "timed_out", "persist"}
        PROVE PlacedInv(e)'
    BY <1>1, <2>0, <2>1, <2>3 DEF InHand
  <2>4. ASSUME NEW c \in calls, NEW acts \in ActionLists, ReplyOk(c, acts) PROVE PlacedInv(e)'
    BY <2>3, <2>4 DEF ReplyOk
  <2>5. ASSUME NEW c \in calls, ReplyError(c) PROVE PlacedInv(e)'
    <3>1. /\ pc = "calling" /\ pc' = "idle"
          /\ \/ outcome' = [outcome EXCEPT ![call.event] = "handler_error"]
             \/ outcome' = [outcome EXCEPT ![call.event] = "dead_letter"]
      BY <2>5 DEF ReplyError, GiveUp
    <3>2. QED
      BY <2>2, <3>1
  <2>6. CASE CallTimeout
    BY <2>3, <2>6 DEF CallTimeout
  <2>7. CASE Unsubscribe
    <3>1. CASE RetriesLeft
      BY <2>3, <2>7, <3>1 DEF Unsubscribe, CallHandler
    <3>2. CASE ~RetriesLeft
      BY <2>2, <2>7, <3>2 DEF Unsubscribe, GiveUp
    <3>3. QED
      BY <3>1, <3>2
  <2>8. CASE PersistState
    BY <2>2, <2>8 DEF PersistState
  <2>9. CASE DispatchAction \/ FinishInvocation
    <3>1. /\ pc = "dispatch" /\ pc' \in {"dispatch", "idle"} /\ outcome' = outcome
      BY <2>9 DEF DispatchAction, FinishInvocation
    <3>2. ~InHand(e) /\ ~InHand(e)'
      BY <3>1 DEF InHand
    <3>3. QED
      BY <1>1, <2>0, <2>1, <3>1, <3>2
  <2>10. QED
    BY <1>5, <2>4, <2>5, <2>6, <2>7, <2>8, <2>9 DEF Invocation
<1>6. CASE Crash
  BY <1>0, <1>6, PlacedRestart DEF Crash
<1>7. CASE UNCHANGED vars
  BY <1>2, <1>7 DEF Elsewhere
<1>8. QED
  BY <1>3, <1>4, <1>5, <1>6, <1>7 DEF Next

\* Counting: an element that occurs never is at no index, one that occurs once at
\* one.
LEMMA OccurCount ==
  ASSUME NEW q, NEW x
  PROVE  /\ Nowhere(q, {x}) => Cardinality({i \in DOMAIN q : q[i] = x}) = 0
         /\ Once(q, {x}) => Cardinality({i \in DOMAIN q : q[i] = x}) = 1
<1>1. ASSUME Nowhere(q, {x}) PROVE Cardinality({i \in DOMAIN q : q[i] = x}) = 0
  <2>1. {i \in DOMAIN q : q[i] = x} = {}
    BY <1>1 DEF Nowhere
  <2>2. QED
    BY <2>1, FS_EmptySet
<1>2. ASSUME Once(q, {x}) PROVE Cardinality({i \in DOMAIN q : q[i] = x}) = 1
  <2>1. PICK i \in DOMAIN q : q[i] = x /\ \A j \in DOMAIN q : q[j] = x => j = i
    BY <1>2 DEF Once
  <2>2. {j \in DOMAIN q : q[j] = x} = {i}
    BY <2>1
  <2>3. QED
    BY <2>2, FS_Singleton
<1>3. QED
  BY <1>1, <1>2

\* In every behaviour, for any number of events, pauses, retries and crashes, a
\* delivered event that is not settled is in exactly one of the mailbox, the pause
\* queue and the handler's hands, and a settled one is in none.
THEOREM NoSilentLossHolds == Spec => []NoSilentLoss
<1>1. Init => LossInv
  BY DEF Init, LossInv, PlacedInv, Undecided, Settled, InHand, Nowhere, Elems
<1>2. LossInv => NoSilentLoss
  <2> SUFFICES ASSUME LossInv, NEW e \in Events
               PROVE Copies(e) = IF e \in Elems(arrival) /\ outcome[e] = "none" THEN 1 ELSE 0
    BY DEF NoSilentLoss
  <2> DEFINE M == Cardinality({i \in DOMAIN mailbox : mailbox[i] = Inbound(e)})
             P == Cardinality({i \in DOMAIN pending_events : pending_events[i] = e})
             H == IF InHand(e) THEN 1 ELSE 0
  <2>1. /\ Nowhere(mailbox, {Inbound(e)}) => M = 0
        /\ Once(mailbox, {Inbound(e)}) => M = 1
        /\ Nowhere(pending_events, {e}) => P = 0
        /\ Once(pending_events, {e}) => P = 1
    BY OccurCount
  <2>2. Copies(e) = M + P + H
    BY DEF Copies
  <2>3. H = (IF InHand(e) THEN 1 ELSE 0) /\ PlacedInv(e)
    BY DEF LossInv
  <2> HIDE DEF M, P, H
  <2>4. CASE Undecided(e)
    <3>1. M + P + H = 1
      BY <2>1, <2>3, <2>4 DEF PlacedInv, InMailbox, Held, Handled
    <3>2. QED
      BY <2>2, <2>4, <3>1 DEF Undecided
  <2>5. CASE ~Undecided(e)
    <3>1. M + P + H = 0
      BY <2>1, <2>3, <2>5 DEF PlacedInv, Settled
    <3>2. QED
      BY <2>2, <2>5, <3>1 DEF Undecided
  <2>6. QED
    BY <2>4, <2>5
<1>3. QED
  BY <1>1, <1>2, LossStep, TypeCorrect, PTL DEF Spec
=============================================================================
