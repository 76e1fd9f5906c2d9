---------------------------- MODULE McpBridgeProofs ----------------------------
(***************************************************************************)
(* Proofs about McpBridge, for any tool calls, notifications and traffic.  *)
(***************************************************************************)
EXTENDS McpBridge, TLAPS

USE DEF vars, clientVars, callVars, serverVars, noteVars, taskVars

---------------------------------------------------------------------------
(* Types *)

\* Appending an element of S to a sequence over S.
LEMMA AppendTyped ==
  ASSUME NEW S, NEW q \in Seq(S), NEW e \in S
  PROVE  Append(q, e) \in Seq(S)
  OBVIOUS

\* What the two ends put on the wire.
LEMMA FramesTyped ==
  /\ \A r \in Refs, s \in {"ok", "error"} : Reply(r, s) \in Frames
  /\ \A c \in Calls : ToolResult(c) \in Frames
  /\ \A n \in 1..MaxNotes : Note(n) \in Frames
  /\ Killed \in Frames /\ PhxError \in Frames
  /\ \A r \in Refs : /\ [event |-> "phx_join", ref |-> r] \in Pushes
                     /\ [event |-> "heartbeat", ref |-> r] \in Pushes
  /\ \A r \in Refs, c \in Calls : [event |-> "tool_invoke", ref |-> r, call |-> c] \in Pushes
<1>1. \A n \in 1..MaxNotes : (n \in MediaNotes) \in BOOLEAN
  OBVIOUS
<1>2. \A n \in 1..MaxNotes : Note(n) \in Frames
  BY <1>1 DEF Frames, Note
<1>3. QED
  BY <1>2 DEF Frames, Pushes, Reply, ToolResult, Killed, PhxError

\* What a frame carries, by its event.
LEMMA FrameFields ==
  /\ \A f \in Frames :
       /\ f.event = "phx_reply" => f.ref \in Refs /\ f.status \in {"ok", "error"}
       /\ IsEnvelope(f, "tool_result") => f.call \in Calls
       /\ IsEnvelope(f, "notification") => f.n \in 1..MaxNotes /\ f.media \in BOOLEAN
  /\ \A f \in Pushes : /\ f.ref \in Refs
                       /\ f.event = "tool_invoke" => f.call \in Calls
<1>1. \A f \in Pushes : /\ f.ref \in Refs
                        /\ f.event = "tool_invoke" => f.call \in Calls
  BY DEF Pushes
<1>2. ASSUME NEW f \in Frames
      PROVE /\ f.event = "phx_reply" => f.ref \in Refs /\ f.status \in {"ok", "error"}
            /\ IsEnvelope(f, "tool_result") => f.call \in Calls
            /\ IsEnvelope(f, "notification") => f.n \in 1..MaxNotes /\ f.media \in BOOLEAN
  BY DEF Frames, IsEnvelope, Killed, PhxError
<1>3. QED
  BY <1>1, <1>2

\* The inbound end of a send: what the server pushes is typed.
LEMMA ToClientTyped ==
  ASSUME to_client \in Seq(Frames), NEW f \in Frames, ToClient(f)
  PROVE  to_client' \in Seq(Frames)
  BY DEF ToClient

\* The dictionary of pending replies keeps its type.
PendingType(p) == DOMAIN p \subseteq Refs /\ \A r \in DOMAIN p : p[r] \in {"waiting", "ok", "error"}

LEMMA PendingTyped ==
  ASSUME NEW p, PendingType(p), NEW r \in Refs
  PROVE  /\ PendingType(Await(p, r)) /\ DOMAIN Await(p, r) = DOMAIN p \cup {r}
         /\ PendingType(Pop(p, r)) /\ DOMAIN Pop(p, r) = DOMAIN p \ {r}
  BY DEF PendingType, Await, Pop

LEMMA BridgeTypeInit == Init => TypeOK
<1> SUFFICES ASSUME Init PROVE TypeOK
  OBVIOUS
<1>1. PendingType(pending)
  BY DEF Init, PendingType
<1>2. killed \in BOOLEAN
  BY Zenon DEF Init
<1>3. /\ stage \in [Calls -> Stages]
      /\ call_ref \in [Calls -> Nat]
      /\ future \in [Calls -> {"none", "pending"} \cup Calls]
      /\ answer \in [Calls -> Answers]
      /\ executed \in [Calls -> Nat]
  BY DEF Init, Stages, Answers, NoRef
<1>4. /\ inbox \in Seq(Frames) /\ to_client \in Seq(Frames)
      /\ to_server \in Seq(Pushes) /\ written \in Seq(Params)
  BY DEF Init
<1>5. pushed \in 0..MaxNotes
  BY BoundAssumption DEF Init
<1>6. QED
  BY <1>1, <1>2, <1>3, <1>4, <1>5 DEF Init, TypeOK, PendingType, NoRef

\* An action that answers a call.
LEMMA ReturnTyped ==
  ASSUME TypeOK, NEW c \in Calls, NEW a \in Answers, Return(c, a)
  PROVE  /\ future' \in [Calls -> {"none", "pending"} \cup Calls]
         /\ stage' \in [Calls -> Stages]
         /\ answer' \in [Calls -> Answers]
  BY DEF TypeOK, Return, Stages

LEMMA CancelTyped ==
  ASSUME TypeOK, CancelCalls
  PROVE  /\ future' \in [Calls -> {"none", "pending"} \cup Calls]
         /\ stage' \in [Calls -> Stages]
         /\ call_ref' \in [Calls -> Nat]
         /\ pending_tool_calls' = {}
<1>1. \A c \in Calls : stage[c] \in Stages /\ "abandoned" \in Stages
  BY DEF TypeOK, Stages
<1>2. QED
  BY <1>1 DEF CancelCalls, NoRef

\* Steps of the client's side.
LEMMA BridgeTypeClient ==
  ASSUME TypeOK,
         \/ ConnectFails \/ Connect \/ JoinSend \/ JoinResume \/ RecvLoop \/ Heartbeat
         \/ StdioOpens \/ StdinCloses \/ ReceiveLoop \/ MainReturns
  PROVE  TypeOK'
<1>1. CASE ConnectFails
  BY <1>1 DEF ConnectFails, TypeOK, LastAttempt
<1>2. CASE Connect
  BY <1>2 DEF Connect, TypeOK
<1>3. CASE JoinSend
  <2>1. NextRef \in Refs
    BY DEF TypeOK, NextRef, Refs, NoRef
  <2>2. PendingType(pending')
    <3>1. PendingType(pending)
      BY DEF TypeOK, PendingType
    <3>2. PendingType(Await(pending, NextRef))
      BY <2>1, <3>1, PendingTyped
    <3>3. pending' = pending \/ pending' = Await(pending, NextRef)
      BY <1>3 DEF JoinSend
    <3>4. QED
      BY <3>1, <3>2, <3>3
  <2>3. to_server' \in Seq(Pushes)
    <3>1. [event |-> "phx_join", ref |-> NextRef] \in Pushes
      BY <2>1, FramesTyped
    <3>2. to_server \in Seq(Pushes)
      BY DEF TypeOK
    <3>3. Append(to_server, [event |-> "phx_join", ref |-> NextRef]) \in Seq(Pushes)
      BY <3>1, <3>2, AppendTyped
    <3>4. QED
      BY <1>3, <3>2, <3>3 DEF JoinSend
  <2>4. ref_counter' \in Nat /\ join_ref' \in Nat /\ ws_task' \in {"joining", "failed"}
    BY <1>3, <2>1 DEF JoinSend, Refs
  <2>5. QED
    BY <1>3, <2>2, <2>3, <2>4 DEF JoinSend, TypeOK, PendingType
<1>4. CASE JoinResume
  <2>1. PendingType(pending')
    <3>1. PendingType(pending) /\ join_ref \in Refs
      BY <1>4 DEF TypeOK, PendingType, JoinResume, Resolved
    <3>2. QED
      BY <1>4, <3>1, PendingTyped DEF JoinResume
  <2>2. QED
    BY <1>4, <2>1 DEF JoinResume, TypeOK, PendingType
<1>5. CASE RecvLoop
  <2>1. Head(to_client) \in Frames /\ Tail(to_client) \in Seq(Frames)
    BY <1>5 DEF RecvLoop, TypeOK
  <2>2. PendingType(pending')
    BY <1>5, <2>1, FrameFields DEF RecvLoop, TypeOK, PendingType, Claims, Settle
  <2>3. inbox' \in Seq(Frames)
    <3>1. inbox \in Seq(Frames)
      BY DEF TypeOK
    <3>2. Append(inbox, Head(to_client)) \in Seq(Frames)
      BY <2>1, <3>1, AppendTyped
    <3>3. inbox' = inbox \/ inbox' = Append(inbox, Head(to_client))
      BY <1>5 DEF RecvLoop, Enqueue
    <3>4. QED
      BY <3>1, <3>2, <3>3
  <2>4. QED
    BY <1>5, <2>1, <2>2, <2>3 DEF RecvLoop, TypeOK, PendingType
<1>6. CASE Heartbeat
  <2>1. NextRef \in Refs
    BY DEF TypeOK, NextRef, Refs, NoRef
  <2>2. to_server' \in Seq(Pushes)
    <3>1. [event |-> "heartbeat", ref |-> NextRef] \in Pushes
      BY <2>1, FramesTyped
    <3>2. QED
      BY <1>6, <3>1 DEF Heartbeat, TypeOK
  <2>3. ref_counter' \in Nat
    BY <1>6, <2>1 DEF Heartbeat, Refs
  <2>4. QED
    BY <1>6, <2>2, <2>3 DEF Heartbeat, TypeOK
<1>7. CASE StdioOpens
  BY <1>7 DEF StdioOpens, TypeOK
<1>8. CASE StdinCloses
  <2>1. PendingType(pending')
    BY <1>8 DEF StdinCloses, TypeOK, PendingType
  <2>2. QED
    BY <1>8, <2>1, CancelTyped DEF StdinCloses, TypeOK, PendingType
<1>9. CASE ReceiveLoop
  <2> DEFINE f == Head(inbox)
  <2>1. f \in Frames /\ Tail(inbox) \in Seq(Frames)
    BY <1>9 DEF ReceiveLoop, TypeOK
  <2>2. /\ ws_task' \in {ws_task, "shutdown"}
        /\ pending_tool_calls' \subseteq Calls
        /\ future' \in [Calls -> {"none", "pending"} \cup Calls]
        /\ written' \in Seq(Params)
        /\ missed' \subseteq 1..MaxNotes
    <3>1. CASE IsEnvelope(f, "tool_result") /\ ResolvePending(f)
      BY <2>1, <3>1, FrameFields DEF ResolvePending, TypeOK, Target
    <3>2. CASE IsEnvelope(f, "notification") /\ SendNotification(f)
      <4>1. BuildNotificationParams(f) \in Params
        BY <2>1, <3>2, FrameFields DEF BuildNotificationParams, Params
      <4>2. written \in Seq(Params)
        BY DEF TypeOK
      <4>3. Append(written, BuildNotificationParams(f)) \in Seq(Params)
        BY <4>1, <4>2, AppendTyped
      <4>4. /\ written' = written \/ written' = Append(written, BuildNotificationParams(f))
            /\ missed' = missed \/ missed' = missed \cup {f.n}
        BY <3>2 DEF SendNotification
      <4>5. QED
        BY <2>1, <3>2, <4>2, <4>3, <4>4, FrameFields DEF SendNotification, TypeOK
    <3>3. CASE Shutdown \/ Ignore
      BY <3>3 DEF Shutdown, Ignore, TypeOK
    <3>4. QED
      BY <1>9, <3>1, <3>2, <3>3 DEF ReceiveLoop
  <2>3. QED
    BY <1>9, <2>1, <2>2 DEF ReceiveLoop, TypeOK
<1>10. CASE MainReturns
  <2>1. PendingType(pending') /\ inbox' \in Seq(Frames) /\ to_client' \in Seq(Frames)
    BY <1>10 DEF MainReturns, PendingType
  <2>2. QED
    BY <1>10, <2>1, CancelTyped DEF MainReturns, TypeOK, PendingType
<1>11. QED
  BY <1>1, <1>2, <1>3, <1>4, <1>5, <1>6, <1>7, <1>8, <1>9, <1>10

\* Steps of a tool call.
LEMMA BridgeTypeCall ==
  ASSUME TypeOK, NEW c \in Calls,
         \/ CallUnknownTool(c) \/ DispatchTool(c) \/ PushResume(c) \/ ResultResume(c)
         \/ ToolCallTimeout(c)
  PROVE  TypeOK'
<1>0. "error" \in Answers /\ "timeout" \in Answers /\ Calls \subseteq Answers
  BY DEF Answers
<1>1. CASE CallUnknownTool(c)
  BY <1>0, <1>1, ReturnTyped DEF CallUnknownTool, TypeOK
<1>2. CASE DispatchTool(c)
  <2>1. NextRef \in Refs /\ NextRef \in Nat
    BY DEF TypeOK, NextRef, Refs, NoRef
  <2>2. CASE Push(c)
    <3>1. to_server' \in Seq(Pushes)
      <4>1. [event |-> "tool_invoke", ref |-> NextRef, call |-> c] \in Pushes
        BY <2>1, FramesTyped
      <4>2. to_server \in Seq(Pushes)
        BY DEF TypeOK
      <4>3. QED
        BY <2>2, <4>1, <4>2, AppendTyped DEF Push
    <3>2. PendingType(pending')
      <4>1. PendingType(pending)
        BY DEF TypeOK, PendingType
      <4>2. QED
        BY <2>1, <2>2, <4>1, PendingTyped DEF Push
    <3>3. /\ future' \in [Calls -> {"none", "pending"} \cup Calls]
          /\ stage' \in [Calls -> Stages]
          /\ call_ref' \in [Calls -> Nat]
          /\ pending_tool_calls' \subseteq Calls
          /\ ref_counter' \in Nat /\ answer' = answer
      BY <2>1, <2>2 DEF Push, TypeOK, Stages
    <3>4. QED
      BY <1>2, <3>1, <3>2, <3>3 DEF DispatchTool, TypeOK, PendingType
  <2>3. CASE PushRaises(c)
    <3>1. ref_counter' \in Nat
      BY <2>1, <2>3 DEF PushRaises, TypeOK
    <3>2. QED
      BY <1>0, <1>2, <2>3, <3>1, ReturnTyped DEF DispatchTool, PushRaises, TypeOK
  <2>4. QED
    BY <1>2, <2>2, <2>3 DEF DispatchTool
<1>3. CASE PushResume(c)
  <2>1. PendingType(pending')
    <3>1. PendingType(pending) /\ call_ref[c] \in Refs
      BY <1>3 DEF TypeOK, PendingType, PushResume, Resolved
    <3>2. QED
      BY <1>3, <3>1, PendingTyped DEF PushResume
  <2>2. /\ future' \in [Calls -> {"none", "pending"} \cup Calls]
        /\ stage' \in [Calls -> Stages]
        /\ answer' \in [Calls -> Answers]
        /\ pending_tool_calls' \subseteq Calls
    <3>1. CASE Return(c, "error") /\ pending_tool_calls' = pending_tool_calls \ {c}
      BY <1>0, <3>1, ReturnTyped DEF TypeOK
    <3>2. CASE /\ stage' = [stage EXCEPT ![c] = "waiting"]
               /\ UNCHANGED <<answer, pending_tool_calls, future>>
      BY <3>2 DEF TypeOK, Stages
    <3>3. QED
      BY <1>3, <3>1, <3>2 DEF PushResume
  <2>3. call_ref' \in [Calls -> Nat]
    BY <1>3 DEF PushResume, TypeOK, NoRef
  <2>4. QED
    BY <1>3, <2>1, <2>2, <2>3 DEF PushResume, TypeOK, PendingType
<1>4. CASE ResultResume(c)
  BY <1>0, <1>4, ReturnTyped DEF ResultResume, TypeOK
<1>5. CASE ToolCallTimeout(c)
  BY <1>0, <1>5, ReturnTyped DEF ToolCallTimeout, TypeOK
<1>6. QED
  BY <1>1, <1>2, <1>3, <1>4, <1>5

\* Steps of the channel, its peer and the socket.
LEMMA BridgeTypeServer ==
  ASSUME TypeOK,
         \/ ServerHandles \/ ServerNotifies \/ WsDrops
         \/ \E c \in Calls : PeerAnswers(c)
         \/ \E f \in {Killed, PhxError} : ServerPushes(f)
  PROVE  TypeOK'
<1>0. to_client \in Seq(Frames) /\ to_server \in Seq(Pushes)
  BY DEF TypeOK
<1>1. CASE ServerHandles
  <2> DEFINE f == Head(to_server)
  <2>1. f \in Pushes /\ f.ref \in Refs /\ Tail(to_server) \in Seq(Pushes)
    BY <1>0, <1>1, FrameFields DEF ServerHandles
  <2>2. /\ channel' \in {"none", "joined", "gone"} /\ at_peer' \subseteq Calls
        /\ executed' \in [Calls -> Nat] /\ to_client' \in Seq(Frames)
    <3>0. \A s \in {"ok", "error"} : ToClient(Reply(f.ref, s)) => to_client' \in Seq(Frames)
      BY <1>0, <2>1, FramesTyped, ToClientTyped
    <3>1. ASSUME NEW s \in {"ok", "error"}, ServerJoin(f, s) \/ ServerReply(f, s)
          PROVE /\ channel' \in {"none", "joined", "gone"} /\ at_peer' \subseteq Calls
                /\ executed' \in [Calls -> Nat] /\ to_client' \in Seq(Frames)
      BY <3>0, <3>1 DEF ServerJoin, ServerReply, TypeOK
    <3>2. CASE f.event = "tool_invoke" /\ (ServerInvoke(f) \/ AckedInvoke(f))
      <4>1. f.call \in Calls
        BY <2>1, <3>2, FrameFields
      <4>2. to_client' \in Seq(Frames)
        BY <1>0, <3>0, <3>2 DEF ServerInvoke, AckedInvoke
      <4>3. HandToPeer(f) /\ UNCHANGED channel
        BY <3>2 DEF ServerInvoke, AckedInvoke
      <4>4. QED
        BY <4>1, <4>2, <4>3 DEF HandToPeer, TypeOK
    <3>3. CASE f.event = "tool_invoke" /\ ServerPeerVanished(f)
      <4>1. f.call \in Calls /\ ToolResult(f.call) \in Frames
        BY <2>1, <3>3, FrameFields, FramesTyped
      <4>2. to_client' \in Seq(Frames)
        BY <1>0, <3>3, <4>1, ToClientTyped DEF ServerPeerVanished
      <4>3. QED
        BY <3>3, <4>1, <4>2 DEF ServerPeerVanished, TypeOK
    <3>4. QED
      BY <1>1, <3>1, <3>2, <3>3 DEF ServerHandles
  <2>3. QED
    BY <1>1, <2>1, <2>2 DEF ServerHandles, TypeOK
<1>2. CASE ServerNotifies
  <2>1. pushed + 1 \in 1..MaxNotes /\ pushed' \in 0..MaxNotes
    BY <1>2, BoundAssumption DEF ServerNotifies, TypeOK
  <2>2. to_client' \in Seq(Frames)
    BY <1>0, <1>2, <2>1, FramesTyped, ToClientTyped DEF ServerNotifies
  <2>3. QED
    BY <1>2, <2>1, <2>2 DEF ServerNotifies, TypeOK
<1>3. CASE WsDrops
  <2>1. PICK k \in 0..Len(to_client) :
          /\ to_client' = SubSeq(to_client, 1, k)
          /\ missed' = missed \cup NotesIn(SubSeq(to_client, k + 1, Len(to_client)))
    BY <1>3 DEF WsDrops
  <2>2. to_client' \in Seq(Frames)
    BY <1>0, <2>1
  <2>3. SubSeq(to_client, k + 1, Len(to_client)) \in Seq(Frames)
    BY <1>0, <2>1
  <2>4. missed' \subseteq 1..MaxNotes
    <3>1. ASSUME NEW q \in Seq(Frames) PROVE NotesIn(q) \subseteq 1..MaxNotes
      <4>1. \A i \in DOMAIN q : q[i] \in Frames
        OBVIOUS
      <4>2. QED
        BY <4>1, FrameFields DEF NotesIn
    <3>2. QED
      BY <2>1, <2>3, <3>1 DEF TypeOK
  <2>5. to_server' \in Seq(Pushes)
    BY <1>3 DEF WsDrops
  <2>6. QED
    BY <1>3, <2>2, <2>4, <2>5 DEF WsDrops, TypeOK
<1>4. ASSUME NEW c \in Calls, PeerAnswers(c) PROVE TypeOK'
  <2>1. to_client' \in Seq(Frames)
    BY <1>0, <1>4, FramesTyped, ToClientTyped DEF PeerAnswers
  <2>2. QED
    BY <1>4, <2>1 DEF PeerAnswers, TypeOK
<1>5. ASSUME NEW f \in {Killed, PhxError}, ServerPushes(f) PROVE TypeOK'
  <2>1. to_client' \in Seq(Frames)
    BY <1>0, <1>5, FramesTyped, ToClientTyped DEF ServerPushes
  <2>2. killed' \in BOOLEAN
    BY Zenon, <1>5 DEF ServerPushes
  <2>3. QED
    BY <1>5, <2>1, <2>2 DEF ServerPushes, TypeOK
<1>6. QED
  BY <1>1, <1>2, <1>3, <1>4, <1>5

LEMMA BridgeTypeStep == TypeOK /\ [Next]_vars => TypeOK'
<1> SUFFICES ASSUME TypeOK, [Next]_vars PROVE TypeOK'
  OBVIOUS
<1>1. CASE UNCHANGED vars
  BY <1>1 DEF TypeOK
<1>2. QED
  BY <1>1, BridgeTypeClient, BridgeTypeCall, BridgeTypeServer DEF Next

\* Every variable keeps its type; a note that was dropped was one that was
\* pushed, and the third failed attempt to connect is the last.
THEOREM BridgeTypeCorrect == Spec => []TypeOK
  BY BridgeTypeInit, BridgeTypeStep, PTL DEF Spec

---------------------------------------------------------------------------
(* Refs *)

USE DEF NoRef

\* A step that takes no entry in or out keeps the invariant.
LEMMA RefUntouched ==
  ASSUME TypeOK, RefInv, ref_counter' \in Nat, ref_counter' >= ref_counter,
         UNCHANGED <<main, join_ref, call_ref, stage, pending_tool_calls, future>>,
         DOMAIN pending' = DOMAIN pending,
         ws_task' = "joining" <=> ws_task = "joining"
  PROVE  RefInv'
<1>1. \A c \in Calls : call_ref[c] \in Nat
  BY DEF TypeOK
<1>2. PendingHasWaiter'
  BY DEF RefInv, PendingHasWaiter, InProgress
<1>3. QED
  BY <1>1, <1>2 DEF TypeOK, RefInv, Refs

\* A call that is answered and pushes nothing.
LEMMA RefReturn ==
  ASSUME TypeOK, RefInv, NEW c \in Calls, NEW a \in Answers, Return(c, a),
         stage[c] # "pushing", ref_counter' \in Nat, ref_counter' >= ref_counter,
         pending_tool_calls' = pending_tool_calls \ {c},
         UNCHANGED <<main, ws_task, join_ref, pending, call_ref>>
  PROVE  RefInv'
<1>1. /\ \A d \in Calls : call_ref[d] \in Nat
      /\ stage' = [stage EXCEPT ![c] = "returned"] /\ stage \in [Calls -> Stages]
      /\ future' = [future EXCEPT ![c] = "none"]
      /\ future \in [Calls -> {"none", "pending"} \cup Calls]
  BY DEF TypeOK, Return
<1>2. \A d \in Calls : /\ stage'[d] = "pushing" <=> stage[d] = "pushing"
                       /\ d # c => stage'[d] = stage[d] /\ future'[d] = future[d]
  <2>1. stage'[c] = "returned" /\ future'[c] = "none"
    BY <1>1
  <2>2. \A d \in Calls : d # c => stage'[d] = stage[d] /\ future'[d] = future[d]
    BY <1>1
  <2>3. QED
    BY <2>1, <2>2
<1>3. PendingHasWaiter'
  BY <1>1, <1>2 DEF RefInv, PendingHasWaiter, InProgress
<1>4. QED
  BY <1>1, <1>2, <1>3 DEF TypeOK, RefInv, Refs

\* The calls are cancelled: what is left pending is the join at most.
LEMMA RefCancel ==
  ASSUME TypeOK, RefInv, CancelCalls, UNCHANGED <<join_ref, ref_counter, ws_task>>,
         main' = "running" =>
           /\ main = "running"
           /\ DOMAIN pending' = DOMAIN pending \ {call_ref[c] : c \in Calls},
         DOMAIN pending' \subseteq DOMAIN pending
  PROVE  RefInv'
<1>1. \A c \in Calls : /\ call_ref[c] \in Nat /\ call_ref'[c] = NoRef
                       /\ stage'[c] \notin {"pushing", "waiting"}
  BY DEF TypeOK, CancelCalls, InProgress
<1>2. PendingHasWaiter'
  <2>1. SUFFICES ASSUME main' = "running" PROVE PendingHasWaiter'
    BY DEF PendingHasWaiter
  <2>2. pending_tool_calls' = {c \in Calls : InProgress(c) /\ future[c] = "pending"}'
    BY <1>1 DEF CancelCalls, InProgress
  <2>3. ws_task = "joining" => join_ref \in DOMAIN pending
    BY <2>1 DEF RefInv, PendingHasWaiter
  <2>4. join_ref \in DOMAIN pending => join_ref \notin {call_ref[c] : c \in Calls}
    BY <1>1 DEF TypeOK, RefInv, Refs
  <2>5. DOMAIN pending' = IF ws_task = "joining" THEN {join_ref} ELSE {}
    <3>1. DOMAIN pending' = DOMAIN pending \ {call_ref[c] : c \in Calls}
      BY <2>1
    <3>2. DOMAIN pending = (IF ws_task = "joining" THEN {join_ref} ELSE {})
                             \cup {call_ref[c] : c \in {d \in Calls : stage[d] = "pushing"}}
      BY <2>1 DEF RefInv, PendingHasWaiter
    <3>3. QED
      BY <2>4, <3>1, <3>2
  <2>6. QED
    BY <1>1, <2>2, <2>5 DEF PendingHasWaiter
<1>3. QED
  BY <1>1, <1>2 DEF TypeOK, RefInv, Refs

LEMMA RefStep == TypeOK /\ RefInv /\ [Next]_vars => RefInv'
<1> SUFFICES ASSUME TypeOK, RefInv, [Next]_vars PROVE RefInv'
  OBVIOUS
<1>0. /\ ref_counter \in Nat /\ join_ref \in Nat /\ DOMAIN pending \subseteq Refs
      /\ \A c \in Calls : call_ref[c] \in Nat
  BY DEF TypeOK
<1>1. CASE ConnectFails \/ Connect \/ Heartbeat \/ StdioOpens
  <2>1. /\ ref_counter' \in Nat /\ ref_counter' >= ref_counter
        /\ UNCHANGED <<main, join_ref, pending, call_ref, stage, pending_tool_calls, future>>
        /\ ws_task' = "joining" <=> ws_task = "joining"
    BY <1>0, <1>1 DEF ConnectFails, Connect, Heartbeat, StdioOpens, NextRef
  <2>2. QED
    BY <2>1, RefUntouched
<1>2. CASE JoinSend
  <2>1. /\ ref_counter' = ref_counter + 1 /\ join_ref' = ref_counter + 1
        /\ UNCHANGED <<main, call_ref, stage, pending_tool_calls, future>>
        /\ ws_task = "connected" /\ main = "running"
    BY <1>2 DEF JoinSend, NextRef
  <2>2. \/ /\ DOMAIN pending' = DOMAIN pending \cup {join_ref'} /\ ws_task' = "joining"
        \/ /\ DOMAIN pending' = DOMAIN pending /\ ws_task' = "failed"
    BY <1>2, <2>1 DEF JoinSend, Await, NextRef
  <2>3. PendingHasWaiter'
    BY <2>1, <2>2 DEF RefInv, PendingHasWaiter, InProgress
  <2>4. QED
    BY <1>0, <2>1, <2>2, <2>3 DEF RefInv, Refs
<1>3. CASE JoinResume
  <2>1. /\ ws_task = "joining" /\ ws_task' # "joining" /\ main = "running"
        /\ join_ref \in DOMAIN pending
        /\ DOMAIN pending' = DOMAIN pending \ {join_ref}
        /\ UNCHANGED <<main, ref_counter, join_ref, call_ref, stage, pending_tool_calls, future>>
    BY <1>3 DEF JoinResume, Resolved, Pop
  <2>2. \A c \in Calls : stage[c] = "pushing" => call_ref[c] # join_ref
    BY DEF RefInv
  <2>3. PendingHasWaiter'
    BY <2>1, <2>2 DEF RefInv, PendingHasWaiter, InProgress
  <2>4. QED
    BY <1>0, <2>1, <2>3 DEF RefInv, Refs
<1>4. CASE RecvLoop
  <2>1. DOMAIN pending' = DOMAIN pending
    BY <1>4 DEF RecvLoop, Settle
  <2>2. QED
    BY <1>0, <1>4, <2>1, RefUntouched DEF RecvLoop
<1>5. CASE StdinCloses
  <2>1. DOMAIN pending' = DOMAIN pending \ {call_ref[c] : c \in Calls}
    BY <1>5 DEF StdinCloses
  <2>2. QED
    BY <1>5, <2>1, RefCancel DEF StdinCloses
<1>6. CASE ReceiveLoop
  <2> DEFINE f == Head(inbox)
  <2>1. /\ UNCHANGED <<main, ref_counter, join_ref, pending, call_ref, stage>>
        /\ main = "running" /\ ws_task # "joining" /\ f \in Frames
    BY <1>6 DEF ReceiveLoop, TypeOK
  <2>2. CASE IsEnvelope(f, "tool_result") /\ ResolvePending(f)
    <3>1. f.call \in Calls /\ f.call # "pending"
      BY <2>1, <2>2, FrameFields, CallsAssumption
    <3>2. \A d \in Calls : /\ d # f.call => future'[d] = future[d]
                           /\ future'[f.call] = "pending" => f.call \notin pending_tool_calls
                           /\ future'[f.call] = "pending" => future[f.call] = "pending"
      BY <2>2, <3>1 DEF ResolvePending, Target, TypeOK
    <3>3. pending_tool_calls = {d \in Calls : InProgress(d) /\ future[d] = "pending"}
      BY <2>1 DEF RefInv, PendingHasWaiter
    <3>4. pending_tool_calls' = pending_tool_calls \ {f.call} /\ ws_task' = ws_task
      BY <2>2 DEF ResolvePending, Target
    <3>5. pending_tool_calls' = {d \in Calls : InProgress(d) /\ future[d] = "pending"}'
      BY <2>1, <3>1, <3>2, <3>3, <3>4 DEF InProgress
    <3>6. PendingHasWaiter'
      BY <2>1, <3>4, <3>5 DEF RefInv, PendingHasWaiter
    <3>7. QED
      BY <1>0, <2>1, <3>6 DEF RefInv
  <2>3. CASE SendNotification(f) \/ Shutdown \/ Ignore
    <3>1. UNCHANGED <<pending_tool_calls, future>> /\ ws_task' # "joining"
      BY <2>1, <2>3 DEF SendNotification, Shutdown, Ignore
    <3>2. QED
      BY <1>0, <2>1, <3>1, RefUntouched
  <2>4. QED
    BY <1>6, <2>2, <2>3 DEF ReceiveLoop
<1>7. CASE MainReturns
  <2>1. main' # "running" /\ DOMAIN pending' = {}
    BY <1>7 DEF MainReturns
  <2>2. QED
    BY <1>7, <2>1, RefCancel DEF MainReturns
<1>8. ASSUME NEW c \in Calls, CallUnknownTool(c) \/ (DispatchTool(c) /\ PushRaises(c))
      PROVE RefInv'
  <2>1. /\ Return(c, "error") /\ stage[c] = "idle" /\ main = "running"
        /\ ref_counter' \in Nat /\ ref_counter' >= ref_counter
        /\ UNCHANGED <<main, ws_task, join_ref, pending, call_ref, pending_tool_calls>>
    BY <1>0, <1>8 DEF CallUnknownTool, DispatchTool, PushRaises, NextRef
  <2>2. pending_tool_calls = pending_tool_calls \ {c}
    BY <2>1 DEF RefInv, PendingHasWaiter, InProgress
  <2>3. "error" \in Answers
    BY DEF Answers
  <2>4. QED
    BY <2>1, <2>2, <2>3, RefReturn
<1>9. ASSUME NEW c \in Calls, DispatchTool(c), Push(c) PROVE RefInv'
  <2>1. /\ UNCHANGED <<main, ws_task, join_ref>> /\ stage[c] = "idle" /\ main = "running"
        /\ ref_counter' = ref_counter + 1
        /\ DOMAIN pending' = DOMAIN pending \cup {ref_counter + 1}
        /\ pending_tool_calls' = pending_tool_calls \cup {c}
    BY <1>9 DEF DispatchTool, Push, NextRef, Await
  <2>2. /\ call_ref'[c] = ref_counter + 1 /\ stage'[c] = "pushing" /\ future'[c] = "pending"
        /\ \A d \in Calls : d # c => /\ call_ref'[d] = call_ref[d] /\ stage'[d] = stage[d]
                                     /\ future'[d] = future[d]
    BY <1>9 DEF Push, NextRef, TypeOK
  <2>3. PendingHasWaiter'
    <3>1. {call_ref'[d] : d \in {e \in Calls : stage'[e] = "pushing"}}
            = {call_ref[d] : d \in {e \in Calls : stage[e] = "pushing"}} \cup {ref_counter + 1}
      BY <2>1, <2>2
    <3>2. {d \in Calls : InProgress(d) /\ future[d] = "pending"}'
            = {d \in Calls : InProgress(d) /\ future[d] = "pending"} \cup {c}
      BY <2>1, <2>2 DEF InProgress
    <3>3. QED
      BY <2>1, <3>1, <3>2 DEF RefInv, PendingHasWaiter
  <2>4. QED
    BY <1>0, <2>1, <2>2, <2>3 DEF RefInv, Refs
<1>10. ASSUME NEW c \in Calls, PushResume(c) PROVE RefInv'
  <2>1. /\ UNCHANGED <<main, ws_task, ref_counter, join_ref>>
        /\ stage[c] = "pushing" /\ main = "running" /\ call_ref[c] \in DOMAIN pending
        /\ DOMAIN pending' = DOMAIN pending \ {call_ref[c]}
    BY <1>10 DEF PushResume, Resolved, Pop
  <2>2. /\ call_ref'[c] = NoRef /\ stage'[c] \in {"returned", "waiting"}
        /\ \A d \in Calls : d # c => /\ call_ref'[d] = call_ref[d] /\ stage'[d] = stage[d]
                                     /\ future'[d] = future[d]
    BY <1>10 DEF PushResume, Return, TypeOK
  <2>3. \/ stage'[c] = "returned" /\ pending_tool_calls' = pending_tool_calls \ {c}
        \/ /\ stage'[c] = "waiting" /\ pending_tool_calls' = pending_tool_calls
           /\ future' = future
    BY <1>10 DEF PushResume, Return, TypeOK
  <2>4. \A d \in Calls : stage[d] = "pushing" /\ d # c => call_ref[d] # call_ref[c]
    BY <2>1 DEF RefInv
  <2>5. {call_ref'[d] : d \in {e \in Calls : stage'[e] = "pushing"}}
          = {call_ref[d] : d \in {e \in Calls : stage[e] = "pushing"}} \ {call_ref[c]}
    BY <2>1, <2>2, <2>4
  <2>6. call_ref[c] # join_ref
    BY <2>1 DEF RefInv
  <2>7. pending_tool_calls' = {d \in Calls : InProgress(d) /\ future[d] = "pending"}'
    BY <2>1, <2>2, <2>3 DEF RefInv, PendingHasWaiter, InProgress
  <2>8. PendingHasWaiter'
    BY <2>1, <2>5, <2>6, <2>7 DEF RefInv, PendingHasWaiter
  <2>9. QED
    BY <1>0, <2>1, <2>2, <2>8 DEF RefInv, Refs
<1>11. ASSUME NEW c \in Calls, ResultResume(c) \/ ToolCallTimeout(c) PROVE RefInv'
  <2>1. PICK a \in Answers : Return(c, a)
    BY <1>11 DEF ResultResume, ToolCallTimeout, Answers
  <2>2. QED
    BY <1>0, <1>11, <2>1, RefReturn DEF ResultResume, ToolCallTimeout
<1>12. CASE \/ ServerHandles \/ ServerNotifies \/ WsDrops
            \/ \E c \in Calls : PeerAnswers(c)
            \/ \E f \in {Killed, PhxError} : ServerPushes(f)
  <2>1. UNCHANGED <<main, ref_counter, join_ref, pending, ws_task, call_ref, stage,
                    pending_tool_calls, future>>
    BY <1>12 DEF ServerHandles, ServerNotifies, WsDrops, PeerAnswers, ServerPushes
  <2>2. QED
    BY <1>0, <2>1, RefUntouched
<1>13. CASE UNCHANGED vars
  BY <1>0, <1>13, RefUntouched
<1>14. QED
  BY <1>1, <1>2, <1>3, <1>4, <1>5, <1>6, <1>7, <1>8, <1>9, <1>10, <1>11, <1>12, <1>13
     DEF Next, DispatchTool

\* Whatever order replies, results, timeouts, errors and the end of the tasks
\* come in, no entry of _pending or _pending_tool_calls outlives the coroutine
\* that waits for it, and no coroutine waits for an entry that is gone.
THEOREM PendingHasWaiterHolds == Spec => []PendingHasWaiter
<1>1. Init => RefInv
  BY DEF Init, RefInv, PendingHasWaiter, InProgress
<1>2. RefInv => PendingHasWaiter
  BY DEF RefInv
<1>3. QED
  BY <1>1, <1>2, BridgeTypeInit, BridgeTypeStep, RefStep, PTL DEF Spec

---------------------------------------------------------------------------
(* Each call is executed and answered at most once *)

\* Results stay results of executed calls: in the rest of a queue, in a prefix
\* of it, when one is appended, and when more calls are executed.
LEMMA ResultsFacts ==
  ASSUME NEW q \in Seq(Frames), NEW ex, ResultsExecuted(q, ex)
  PROVE  /\ q # << >> => /\ ResultsExecuted(Tail(q), ex)
                         /\ IsEnvelope(Head(q), "tool_result") => ex[Head(q).call] = 1
         /\ \A k \in 0..Len(q) : ResultsExecuted(SubSeq(q, 1, k), ex)
         /\ \A f \in Frames : (IsEnvelope(f, "tool_result") => ex[f.call] = 1)
                               => ResultsExecuted(Append(q, f), ex)
<1>1. ASSUME q # << >>
      PROVE /\ ResultsExecuted(Tail(q), ex)
            /\ IsEnvelope(Head(q), "tool_result") => ex[Head(q).call] = 1
  <2>1. /\ 1 \in DOMAIN q /\ Head(q) = q[1]
        /\ \A i \in DOMAIN Tail(q) : i + 1 \in DOMAIN q /\ Tail(q)[i] = q[i + 1]
    BY <1>1
  <2>2. QED
    BY <2>1 DEF ResultsExecuted
<1>2. ASSUME NEW k \in 0..Len(q) PROVE ResultsExecuted(SubSeq(q, 1, k), ex)
  <2>1. \A i \in DOMAIN SubSeq(q, 1, k) : i \in DOMAIN q /\ SubSeq(q, 1, k)[i] = q[i]
    OBVIOUS
  <2>2. QED
    BY <2>1 DEF ResultsExecuted
<1>3. ASSUME NEW f \in Frames, IsEnvelope(f, "tool_result") => ex[f.call] = 1
      PROVE ResultsExecuted(Append(q, f), ex)
  <2>1. \A i \in DOMAIN Append(q, f) : \/ i \in DOMAIN q /\ Append(q, f)[i] = q[i]
                                       \/ Append(q, f)[i] = f
    OBVIOUS
  <2>2. QED
    BY <1>3, <2>1 DEF ResultsExecuted
<1>4. QED
  BY <1>1, <1>2, <1>3

LEMMA ResultsGrow ==
  ASSUME NEW q \in Seq(Frames), NEW ex, NEW ey, ResultsExecuted(q, ex),
         \A c \in Calls : ex[c] = 1 => ey[c] = 1
  PROVE  ResultsExecuted(q, ey)
<1>1. \A i \in DOMAIN q : IsEnvelope(q[i], "tool_result") => q[i].call \in Calls
  BY FrameFields
<1>2. QED
  BY <1>1 DEF ResultsExecuted

\* What the server pushes on the socket.
LEMMA ResultsToClient ==
  ASSUME TypeOK, ResultsExecuted(to_client, executed), NEW f \in Frames, ToClient(f),
         IsEnvelope(f, "tool_result") => executed[f.call] = 1
  PROVE  ResultsExecuted(to_client', executed)
<1>1. to_client \in Seq(Frames)
  BY DEF TypeOK
<1>2. QED
  BY <1>1, ResultsFacts DEF ToClient

\* Invocations on their way to the server: the rest of the queue,
LEMMA InvokesTail ==
  ASSUME NEW q \in Seq(Pushes), q # << >>, NEW st, NEW ex,
         InvokesOnce(q), InvokesUnexecuted(q, st, ex)
  PROVE  /\ InvokesOnce(Tail(q)) /\ InvokesUnexecuted(Tail(q), st, ex)
         /\ Invokes(Head(q)) =>
              /\ st[Head(q).call] # "idle" /\ ex[Head(q).call] = 0
              /\ \A i \in DOMAIN Tail(q) :
                   Invokes(Tail(q)[i]) => Tail(q)[i].call # Head(q).call
<1>1. /\ 1 \in DOMAIN q /\ Head(q) = q[1]
      /\ \A i \in DOMAIN Tail(q) : i \in Nat \ {0} /\ i + 1 \in DOMAIN q /\ Tail(q)[i] = q[i + 1]
  OBVIOUS
<1>2. InvokesOnce(Tail(q))
  BY <1>1 DEF InvokesOnce
<1>3. InvokesUnexecuted(Tail(q), st, ex)
  BY <1>1 DEF InvokesUnexecuted
<1>4. ASSUME Invokes(Head(q))
      PROVE /\ st[Head(q).call] # "idle" /\ ex[Head(q).call] = 0
            /\ \A i \in DOMAIN Tail(q) : Invokes(Tail(q)[i]) => Tail(q)[i].call # Head(q).call
  <2>1. st[Head(q).call] # "idle" /\ ex[Head(q).call] = 0
    BY <1>1, <1>4 DEF InvokesUnexecuted
  <2>2. ASSUME NEW i \in DOMAIN Tail(q), Invokes(Tail(q)[i]), Tail(q)[i].call = Head(q).call
        PROVE FALSE
    <3>1. i + 1 = 1
      BY <1>1, <1>4, <2>2 DEF InvokesOnce
    <3>2. QED
      BY <1>1, <2>2, <3>1
  <2>3. QED
    BY <2>1, <2>2
<1>5. QED
  BY <1>2, <1>3, <1>4

\* one frame more,
LEMMA InvokesAppend ==
  ASSUME NEW q \in Seq(Pushes), NEW f \in Pushes, NEW st, NEW ex,
         InvokesOnce(q), InvokesUnexecuted(q, st, ex),
         Invokes(f) => /\ st[f.call] # "idle" /\ ex[f.call] = 0
                       /\ \A i \in DOMAIN q : Invokes(q[i]) => q[i].call # f.call
  PROVE  InvokesOnce(Append(q, f)) /\ InvokesUnexecuted(Append(q, f), st, ex)
<1>1. \A i \in DOMAIN Append(q, f) : \/ i \in DOMAIN q /\ Append(q, f)[i] = q[i]
                                     \/ i = Len(q) + 1 /\ Append(q, f)[i] = f
  OBVIOUS
<1>2. InvokesOnce(Append(q, f))
  BY <1>1 DEF InvokesOnce
<1>3. InvokesUnexecuted(Append(q, f), st, ex)
  BY <1>1 DEF InvokesUnexecuted
<1>4. QED
  BY <1>2, <1>3

\* and calls that leave the idle stage.
LEMMA InvokesMove ==
  ASSUME NEW q \in Seq(Pushes), NEW st, NEW su, NEW ex, InvokesUnexecuted(q, st, ex),
         \A c \in Calls : st[c] # "idle" => su[c] # "idle"
  PROVE  InvokesUnexecuted(q, su, ex)
<1>1. \A i \in DOMAIN q : Invokes(q[i]) => q[i].call \in Calls
  BY FrameFields DEF Invokes
<1>2. QED
  BY <1>1 DEF InvokesUnexecuted

CallsCoherent == \A c \in Calls : CallCoherent(c)
CallsMove == \A c \in Calls : stage[c] # "idle" => stage'[c] # "idle"

\* A step of the calls that puts nothing on the wire.
LEMMA CallOnly ==
  ASSUME TypeOK, CallInv, CallsCoherent', CallsMove,
         UNCHANGED <<executed, to_server>>,
         to_client' = to_client \/ to_client' = << >>,
         inbox' = inbox \/ inbox' = << >> \/ (inbox # << >> /\ inbox' = Tail(inbox))
  PROVE  CallInv'
<1>1. to_client \in Seq(Frames) /\ inbox \in Seq(Frames) /\ to_server \in Seq(Pushes)
  BY DEF TypeOK
<1>2. ResultsExecuted(<< >>, executed)
  BY DEF ResultsExecuted
<1>3. ResultsExecuted(to_client', executed) /\ ResultsExecuted(inbox', executed)
  BY <1>1, <1>2, ResultsFacts DEF CallInv
<1>4. InvokesUnexecuted(to_server, stage', executed)
  BY <1>1, InvokesMove DEF CallInv, CallsMove
<1>5. QED
  BY <1>3, <1>4 DEF CallInv, CallsCoherent

\* A call is answered with no result, or with its own.
LEMMA CallReturn ==
  ASSUME TypeOK, CallInv, NEW c \in Calls, NEW a, Return(c, a),
         UNCHANGED <<executed, to_server, to_client, inbox, at_peer>>
  PROVE  stage[c] # "idle" \/ executed[c] = 0 => CallInv'
<1>1. /\ stage' = [stage EXCEPT ![c] = "returned"] /\ future' = [future EXCEPT ![c] = "none"]
      /\ answer' = [answer EXCEPT ![c] = a]
      /\ stage \in [Calls -> Stages] /\ DOMAIN future = Calls /\ DOMAIN answer = Calls
  BY DEF TypeOK, Return
<1>2. "none" \notin Calls
  BY CallsAssumption
<1>3. CallsCoherent'
  BY <1>1, <1>2 DEF CallInv, CallsCoherent, CallCoherent
<1>4. CallsMove
  BY <1>1 DEF CallsMove
<1>5. QED
  BY <1>3, <1>4, CallOnly

LEMMA CallCancel ==
  ASSUME TypeOK, CallInv, CancelCalls, UNCHANGED <<executed, to_server, at_peer, answer>>,
         to_client' = to_client \/ to_client' = << >>, inbox' = inbox \/ inbox' = << >>
  PROVE  CallInv'
<1>1. \A d \in Calls : /\ stage'[d] = stage[d] \/ (InProgress(d) /\ stage'[d] = "abandoned")
                       /\ future'[d] = "none"
  BY DEF CancelCalls
<1>2. "none" \notin Calls
  BY CallsAssumption
<1>3. CallsCoherent'
  BY <1>1, <1>2 DEF CallInv, CallsCoherent, CallCoherent, InProgress
<1>4. CallsMove
  BY <1>1 DEF CallsMove
<1>5. QED
  BY <1>3, <1>4, CallOnly

\* The client's steps.
LEMMA CallClientStep ==
  ASSUME TypeOK, CallInv,
         \/ ConnectFails \/ Connect \/ JoinSend \/ JoinResume \/ RecvLoop \/ Heartbeat
         \/ StdioOpens \/ StdinCloses \/ ReceiveLoop \/ MainReturns
  PROVE  CallInv'
<1>0. to_client \in Seq(Frames) /\ inbox \in Seq(Frames) /\ to_server \in Seq(Pushes)
  BY DEF TypeOK
<1>1. CASE ConnectFails \/ Connect \/ JoinResume \/ StdioOpens
  BY <1>1 DEF ConnectFails, Connect, JoinResume, StdioOpens, CallInv, CallCoherent
<1>2. CASE JoinSend \/ Heartbeat
  <2>1. /\ UNCHANGED <<stage, answer, future, at_peer, executed, to_client, inbox>>
        /\ \/ to_server' = to_server
           \/ to_server' = Append(to_server, [event |-> "phx_join", ref |-> NextRef])
           \/ to_server' = Append(to_server, [event |-> "heartbeat", ref |-> NextRef])
    BY <1>2 DEF JoinSend, Heartbeat
  <2>2. NextRef \in Refs
    BY DEF TypeOK, NextRef, Refs
  <2>3. /\ [event |-> "phx_join", ref |-> NextRef] \in Pushes
        /\ [event |-> "heartbeat", ref |-> NextRef] \in Pushes
        /\ ~Invokes([event |-> "phx_join", ref |-> NextRef])
        /\ ~Invokes([event |-> "heartbeat", ref |-> NextRef])
    BY <2>2, FramesTyped DEF Invokes
  <2>4. InvokesOnce(to_server') /\ InvokesUnexecuted(to_server', stage, executed)
    BY <1>0, <2>1, <2>3, InvokesAppend DEF CallInv
  <2>5. QED
    BY <2>1, <2>4 DEF CallInv, CallsCoherent, CallCoherent
<1>3. CASE RecvLoop
  <2>1. /\ UNCHANGED <<stage, answer, future, at_peer, executed, to_server>>
        /\ to_client # << >> /\ to_client' = Tail(to_client)
        /\ inbox' = inbox \/ inbox' = Append(inbox, Head(to_client))
    BY <1>3 DEF RecvLoop, Enqueue
  <2>2. /\ Head(to_client) \in Frames
        /\ IsEnvelope(Head(to_client), "tool_result") => executed[Head(to_client).call] = 1
        /\ ResultsExecuted(Tail(to_client), executed)
    BY <1>0, <2>1, ResultsFacts DEF CallInv
  <2>3. ResultsExecuted(inbox', executed)
    BY <1>0, <2>1, <2>2, ResultsFacts DEF CallInv
  <2>4. QED
    BY <2>1, <2>2, <2>3 DEF CallInv, CallsCoherent, CallCoherent
<1>4. CASE StdinCloses \/ MainReturns
  BY <1>4, CallCancel DEF StdinCloses, MainReturns
<1>5. CASE ReceiveLoop
  <2> DEFINE f == Head(inbox)
  <2>1. /\ UNCHANGED <<stage, answer, at_peer, executed, to_server, to_client>>
        /\ inbox # << >> /\ inbox' = Tail(inbox) /\ f \in Frames
    BY <1>0, <1>5 DEF ReceiveLoop
  <2>2. CallsCoherent'
    <3>1. CASE IsEnvelope(f, "tool_result") /\ ResolvePending(f)
      <4>1. f.call \in Calls /\ executed[f.call] = 1
        BY <1>0, <2>1, <3>1, FrameFields, ResultsFacts DEF CallInv
      <4>2. future' = future \/ future' = [future EXCEPT ![f.call] = f.call]
        BY <3>1 DEF ResolvePending, Target
      <4>3. \A c \in Calls : future'[c] = future[c] \/ (c = f.call /\ future'[c] = c)
        BY <4>1, <4>2 DEF TypeOK
      <4>4. QED
        BY <2>1, <4>1, <4>3 DEF CallInv, CallsCoherent, CallCoherent
    <3>2. CASE SendNotification(f) \/ Shutdown \/ Ignore
      BY <2>1, <3>2 DEF SendNotification, Shutdown, Ignore, CallInv, CallsCoherent, CallCoherent
    <3>3. QED
      BY <1>5, <3>1, <3>2 DEF ReceiveLoop
  <2>3. QED
    BY <2>1, <2>2, CallOnly DEF CallsMove
<1>6. QED
  BY <1>1, <1>2, <1>3, <1>4, <1>5

\* The steps of a call.
LEMMA CallCallStep ==
  ASSUME TypeOK, CallInv, NEW c \in Calls,
         \/ CallUnknownTool(c) \/ DispatchTool(c) \/ PushResume(c) \/ ResultResume(c)
         \/ ToolCallTimeout(c)
  PROVE  CallInv'
<1>0. to_client \in Seq(Frames) /\ inbox \in Seq(Frames) /\ to_server \in Seq(Pushes)
  BY DEF TypeOK
<1>1. ASSUME NEW a, Return(c, a),
             UNCHANGED <<executed, to_server, to_client, inbox, at_peer>>
      PROVE CallInv'
  BY <1>1, CallReturn DEF CallInv, CallsCoherent, CallCoherent
<1>2. CASE CallUnknownTool(c)
  BY <1>1, <1>2 DEF CallUnknownTool
<1>3. CASE DispatchTool(c) /\ PushRaises(c)
  BY <1>1, <1>3 DEF DispatchTool, PushRaises
<1>4. CASE DispatchTool(c) /\ Push(c)
  <2> DEFINE f == [event |-> "tool_invoke", ref |-> NextRef, call |-> c]
  <2>1. /\ UNCHANGED <<answer, at_peer, executed, to_client, inbox>> /\ stage[c] = "idle"
        /\ stage' = [stage EXCEPT ![c] = "pushing"]
        /\ future' = [future EXCEPT ![c] = "pending"]
        /\ to_server' = Append(to_server, f)
    BY <1>4 DEF DispatchTool, Push
  <2>2. NextRef \in Refs
    BY DEF TypeOK, NextRef, Refs
  <2>3. f \in Pushes /\ f.call = c
    BY <2>2, FramesTyped
  <2>4. /\ CallsMove
        /\ stage'[c] = "pushing" /\ executed[c] = 0
        /\ \A d \in Calls : d # c => stage'[d] = stage[d] /\ future'[d] = future[d]
        /\ future'[c] = "pending"
    BY <2>1 DEF TypeOK, CallInv, CallCoherent, CallsMove
  <2>5. \A i \in DOMAIN to_server : Invokes(to_server[i]) => to_server[i].call # c
    BY <2>1 DEF CallInv, InvokesUnexecuted
  <2>6. InvokesUnexecuted(to_server, stage', executed)
    BY <1>0, <2>4, InvokesMove DEF CallInv, CallsMove
  <2>7. InvokesOnce(to_server') /\ InvokesUnexecuted(to_server', stage', executed)
    <3> HIDE DEF f
    <3>1. QED
      BY <1>0, <2>1, <2>3, <2>4, <2>5, <2>6, InvokesAppend DEF CallInv
  <2>8. CallsCoherent'
    BY <2>1, <2>4, CallsAssumption DEF CallsCoherent, CallInv, CallsCoherent, CallCoherent
  <2>9. QED
    BY <2>1, <2>7, <2>8 DEF CallInv, CallsCoherent
<1>5. CASE PushResume(c)
  <2>1. CASE Return(c, "error")
    BY <1>1, <1>5, <2>1 DEF PushResume
  <2>2. CASE stage' = [stage EXCEPT ![c] = "waiting"] /\ UNCHANGED <<answer, future>>
    <3>1. /\ UNCHANGED <<answer, at_peer, executed, to_client, inbox, to_server, future>>
          /\ stage[c] = "pushing"
      BY <1>5, <2>2 DEF PushResume
    <3>2. \A d \in Calls : stage'[d] = stage[d] \/ (d = c /\ stage'[d] = "waiting")
      BY <2>2 DEF TypeOK
    <3>3. /\ CallsCoherent'
          /\ CallsMove
      BY <3>1, <3>2 DEF CallInv, CallsCoherent, CallCoherent, CallsMove
    <3>4. QED
      BY <3>1, <3>3, CallOnly
  <2>3. QED
    BY <1>5, <2>1, <2>2 DEF PushResume
<1>6. CASE ResultResume(c) \/ ToolCallTimeout(c)
  BY <1>1, <1>6 DEF ResultResume, ToolCallTimeout
<1>7. QED
  BY <1>2, <1>3, <1>4, <1>5, <1>6 DEF DispatchTool

\* The steps of the channel, its peer and the socket.
LEMMA CallServerStep ==
  ASSUME TypeOK, CallInv,
         \/ ServerHandles \/ ServerNotifies \/ WsDrops
         \/ \E c \in Calls : PeerAnswers(c)
         \/ \E f \in {Killed, PhxError} : ServerPushes(f)
  PROVE  CallInv'
<1>0. to_client \in Seq(Frames) /\ inbox \in Seq(Frames) /\ to_server \in Seq(Pushes)
  BY DEF TypeOK
<1>1. ASSUME NEW f \in Frames, IsEnvelope(f, "tool_result") => executed[f.call] = 1,
             ToClient(f) \/ to_client' = to_client, at_peer' \subseteq at_peer,
             UNCHANGED <<stage, answer, future, executed, inbox>>,
             \/ to_server' = to_server
             \/ to_server # << >> /\ to_server' = Tail(to_server)
      PROVE CallInv'
  <2>1. ResultsExecuted(to_client', executed)
    BY <1>1, ResultsToClient DEF CallInv
  <2>2. InvokesOnce(to_server') /\ InvokesUnexecuted(to_server', stage, executed)
    BY <1>0, <1>1, InvokesTail DEF CallInv
  <2>3. QED
    BY <1>1, <2>1, <2>2 DEF CallInv, CallCoherent
<1>2. CASE ServerHandles
  <2> DEFINE f == Head(to_server)
  <2>1. /\ f \in Pushes /\ f.ref \in Refs /\ to_server # << >> /\ to_server' = Tail(to_server)
        /\ UNCHANGED <<stage, answer, future, inbox>>
    BY <1>0, <1>2, FrameFields DEF ServerHandles
  <2>2. ASSUME NEW s \in {"ok", "error"}, ServerJoin(f, s) \/ ServerReply(f, s)
        PROVE CallInv'
    <3>1. Reply(f.ref, s) \in Frames /\ ~IsEnvelope(Reply(f.ref, s), "tool_result")
      BY <2>1, FramesTyped DEF Reply, IsEnvelope
    <3>2. QED
      BY <1>1, <2>1, <2>2, <3>1 DEF ServerJoin, ServerReply
  <2>3. CASE f.event = "tool_invoke" /\ (ServerInvoke(f) \/ AckedInvoke(f) \/ ServerPeerVanished(f))
    <3>1. /\ Invokes(f) /\ f.call \in Calls
          /\ stage[f.call] # "idle" /\ executed[f.call] = 0
          /\ \A i \in DOMAIN Tail(to_server) :
               Invokes(Tail(to_server)[i]) => Tail(to_server)[i].call # f.call
          /\ InvokesOnce(Tail(to_server))
          /\ InvokesUnexecuted(Tail(to_server), stage, executed)
      BY <1>0, <2>1, <2>3, FrameFields, InvokesTail DEF CallInv, Invokes
    <3>2. /\ executed'[f.call] = 1
          /\ \A d \in Calls : d # f.call => executed'[d] = executed[d]
      BY <2>3, <3>1 DEF ServerInvoke, AckedInvoke, HandToPeer, ServerPeerVanished, TypeOK
    <3>3. InvokesUnexecuted(to_server', stage, executed')
      <4>1. \A i \in DOMAIN Tail(to_server) :
              Invokes(Tail(to_server)[i]) => Tail(to_server)[i].call \in Calls
        BY <1>0, <2>1, FrameFields DEF Invokes
      <4>2. QED
        BY <2>1, <3>1, <3>2, <4>1 DEF InvokesUnexecuted
    <3>4. \A d \in Calls : executed[d] = 1 => executed'[d] = 1
      BY <3>1, <3>2
    <3>5. ResultsExecuted(inbox, executed') /\ ResultsExecuted(to_client, executed')
      BY <1>0, <3>4, ResultsGrow DEF CallInv
    <3>6. ResultsExecuted(to_client', executed')
      <4>1. /\ ToolResult(f.call) \in Frames /\ ToolResult(f.call).call = f.call
            /\ Reply(f.ref, "ok") \in Frames /\ ~IsEnvelope(Reply(f.ref, "ok"), "tool_result")
        BY <2>1, <3>1, FramesTyped DEF Reply, ToolResult, IsEnvelope
      <4>2. \/ to_client' = to_client
            \/ to_client' = Append(to_client, ToolResult(f.call))
            \/ to_client' = Append(to_client, Reply(f.ref, "ok"))
        BY <2>3 DEF ServerInvoke, AckedInvoke, HandToPeer, ServerPeerVanished, ToClient
      <4>3. QED
        BY <1>0, <3>2, <3>5, <4>1, <4>2, ResultsFacts
    <3>7. at_peer' \subseteq at_peer \cup {f.call}
      BY <2>3 DEF ServerInvoke, AckedInvoke, HandToPeer, ServerPeerVanished
    <3>8. \A d \in Calls : CallCoherent(d)'
      BY <2>1, <3>1, <3>2, <3>7 DEF CallInv, CallCoherent
    <3>9. QED
      BY <2>1, <3>1, <3>3, <3>5, <3>6, <3>8 DEF CallInv
  <2>4. QED
    BY <1>2, <2>2, <2>3 DEF ServerHandles
<1>3. CASE ServerNotifies
  <2>1. pushed + 1 \in 1..MaxNotes
    BY <1>3, BoundAssumption DEF ServerNotifies, TypeOK
  <2>2. Note(pushed + 1) \in Frames /\ ~IsEnvelope(Note(pushed + 1), "tool_result")
    BY <2>1, FramesTyped DEF Note, IsEnvelope
  <2>3. QED
    BY <1>1, <1>3, <2>2 DEF ServerNotifies
<1>4. CASE WsDrops
  <2>1. /\ UNCHANGED <<stage, answer, future, executed, inbox, at_peer>>
        /\ to_server' = << >>
    BY <1>4 DEF WsDrops
  <2>2. ResultsExecuted(to_client', executed)
    BY <1>0, <1>4, ResultsFacts DEF WsDrops, CallInv
  <2>3. InvokesOnce(<< >>) /\ InvokesUnexecuted(<< >>, stage, executed)
    BY DEF InvokesOnce, InvokesUnexecuted
  <2>4. QED
    BY <2>1, <2>2, <2>3 DEF CallInv, CallCoherent
<1>5. ASSUME NEW c \in Calls, PeerAnswers(c) PROVE CallInv'
  <2>1. /\ ToolResult(c) \in Frames /\ ToolResult(c).call = c
    BY FramesTyped DEF ToolResult
  <2>2. executed[c] = 1
    BY <1>5 DEF PeerAnswers, CallInv, CallCoherent
  <2>3. QED
    BY <1>1, <1>5, <2>1, <2>2 DEF PeerAnswers
<1>6. ASSUME NEW f \in {Killed, PhxError}, ServerPushes(f) PROVE CallInv'
  <2>1. f \in Frames /\ ~IsEnvelope(f, "tool_result")
    BY FramesTyped DEF Killed, PhxError, IsEnvelope
  <2>2. QED
    BY <1>1, <1>6, <2>1 DEF ServerPushes
<1>7. QED
  BY <1>2, <1>3, <1>4, <1>5, <1>6

LEMMA CallStep == TypeOK /\ CallInv /\ [Next]_vars => CallInv'
<1> SUFFICES ASSUME TypeOK, CallInv, [Next]_vars PROVE CallInv'
  OBVIOUS
<1>1. CASE UNCHANGED vars
  BY <1>1 DEF CallInv, CallCoherent
<1>2. QED
  BY <1>1, CallClientStep, CallCallStep, CallServerStep DEF Next

\* The invariants the refinement rests on.
LEMMA BridgeInvariant == Spec => [](TypeOK /\ CallInv)
<1>1. Init => CallInv
  <2> SUFFICES ASSUME Init PROVE CallInv
    OBVIOUS
  <2>1. \A c \in Calls : CallCoherent(c)
    BY CallsAssumption DEF Init, CallCoherent
  <2>2. QED
    BY <2>1 DEF Init, CallInv, InvokesOnce, InvokesUnexecuted, ResultsExecuted
<1>2. QED
  BY <1>1, BridgeTypeInit, BridgeTypeStep, CallStep, PTL DEF Spec

---------------------------------------------------------------------------
(* The refinement *)

\* A step that neither moves a call between idle, open and closed nor executes
\* or answers one is a stutter of ToolCall.
LEMMA ToolCallStutter ==
  ASSUME UNCHANGED <<stage, answer, executed>>
  PROVE  UNCHANGED TC!vars
  BY DEF TC!vars, CallStage, Told, InProgress

\* What an answered call is to ToolCall.
LEMMA ToolCallReturn ==
  ASSUME TypeOK, CallInv, NEW c \in Calls, NEW a \in Answers, Return(c, a),
         stage[c] \in {"idle", "pushing", "waiting"}, UNCHANGED executed,
         a \in Calls => stage[c] = "waiting" /\ a = c /\ executed[c] = 1
  PROVE  TC!Next
<1>1. /\ CallStage[c] = (IF stage[c] = "idle" THEN "idle" ELSE "open")
      /\ CallStage' = [CallStage EXCEPT ![c] = "closed"]
  BY DEF TypeOK, Return, CallStage, InProgress
<1>2. answer[c] = "none" /\ "none" \notin Calls
  BY CallsAssumption DEF CallInv, CallCoherent
<1>3. CASE a \in Calls
  <2>1. Told' = [Told EXCEPT ![c] = c]
    BY <1>3 DEF TypeOK, Return, Told
  <2>2. TC!AnswerResult(c)
    BY <1>1, <1>3, <2>1 DEF TC!AnswerResult
  <2>3. QED
    BY <2>2 DEF TC!Next
<1>4. CASE a \notin Calls
  <2>1. Told' = Told
    BY <1>2, <1>4 DEF TypeOK, Return, Told
  <2>2. TC!AnswerError(c)
    BY <1>1, <2>1 DEF TC!AnswerError
  <2>3. QED
    BY <2>2 DEF TC!Next
<1>5. QED
  BY <1>3, <1>4

\* Every step of the bridge is a step of ToolCall or a stutter.
LEMMA ToolCallStep == TypeOK /\ CallInv /\ [Next]_vars => [TC!Next]_(TC!vars)
<1> SUFFICES ASSUME TypeOK, CallInv, [Next]_vars PROVE TC!Next \/ UNCHANGED TC!vars
  OBVIOUS
<1>1. CASE \/ ConnectFails \/ Connect \/ JoinSend \/ JoinResume \/ RecvLoop \/ Heartbeat
           \/ StdioOpens \/ ReceiveLoop \/ ServerNotifies \/ WsDrops \/ UNCHANGED vars
           \/ \E c \in Calls : PeerAnswers(c)
           \/ \E f \in {Killed, PhxError} : ServerPushes(f)
  <2>1. UNCHANGED <<stage, answer, executed>>
    BY <1>1 DEF ConnectFails, Connect, JoinSend, JoinResume, RecvLoop, Heartbeat, StdioOpens,
                ReceiveLoop, ServerNotifies, WsDrops, PeerAnswers, ServerPushes
  <2>2. QED
    BY <2>1, ToolCallStutter
<1>2. CASE StdinCloses \/ MainReturns
  <2>1. CancelCalls /\ UNCHANGED <<answer, executed>>
    BY <1>2 DEF StdinCloses, MainReturns
  <2>2. UNCHANGED <<executed, Told>>
    BY <2>1 DEF Told
  <2>3. CallStage' = [c \in Calls |-> IF CallStage[c] = "open" THEN "closed" ELSE CallStage[c]]
    BY <2>1 DEF CancelCalls, CallStage, InProgress
  <2>4. CASE \E c \in Calls : CallStage[c] = "open"
    BY <2>2, <2>3, <2>4 DEF TC!Next, TC!Abandon
  <2>5. CASE ~ \E c \in Calls : CallStage[c] = "open"
    <3>1. CallStage' = CallStage
      BY <2>3, <2>5 DEF CallStage
    <3>2. QED
      BY <2>2, <3>1 DEF TC!vars
  <2>6. QED
    BY <2>4, <2>5
<1>3. ASSUME NEW c \in Calls,
             \/ CallUnknownTool(c) \/ (DispatchTool(c) /\ PushRaises(c))
             \/ (PushResume(c) /\ Return(c, "error")) \/ ToolCallTimeout(c) \/ ResultResume(c)
      PROVE TC!Next
  <2>1. PICK a \in Answers :
          /\ Return(c, a) /\ stage[c] \in {"idle", "pushing", "waiting"}
          /\ a \in Calls => stage[c] = "waiting" /\ a = future[c]
    BY <1>3, CallsAssumption
       DEF CallUnknownTool, DispatchTool, PushRaises, PushResume, ToolCallTimeout,
           ResultResume, Answers
  <2>2. a \in Calls => a = c /\ executed[c] = 1
    BY <2>1 DEF CallInv, CallCoherent
  <2>3. UNCHANGED executed
    BY <1>3 DEF CallUnknownTool, DispatchTool, PushResume, ToolCallTimeout, ResultResume
  <2>4. QED
    BY <2>1, <2>2, <2>3, ToolCallReturn
<1>4. ASSUME NEW c \in Calls, DispatchTool(c), Push(c) PROVE TC!Next
  <2>1. /\ CallStage[c] = "idle" /\ CallStage' = [CallStage EXCEPT ![c] = "open"]
        /\ UNCHANGED <<executed, Told>>
    BY <1>4 DEF DispatchTool, Push, TypeOK, CallStage, InProgress, Told
  <2>2. TC!Invoke(c)
    BY <2>1 DEF TC!Invoke
  <2>3. QED
    BY <2>2 DEF TC!Next
<1>5. ASSUME NEW c \in Calls, PushResume(c), ~Return(c, "error") PROVE UNCHANGED TC!vars
  <2>1. /\ stage[c] = "pushing" /\ stage' = [stage EXCEPT ![c] = "waiting"]
        /\ UNCHANGED <<answer, executed>>
    BY <1>5 DEF PushResume
  <2>2. CallStage' = CallStage
    BY <2>1 DEF TypeOK, CallStage, InProgress
  <2>3. Told' = Told
    BY <2>1 DEF Told
  <2>4. QED
    BY <2>1, <2>2, <2>3 DEF TC!vars
<1>6. CASE ServerHandles
  <2> DEFINE f == Head(to_server)
  <2>1. /\ f \in Pushes /\ to_server # << >> /\ to_server \in Seq(Pushes)
        /\ UNCHANGED <<stage, answer>>
    BY <1>6 DEF ServerHandles, TypeOK
  <2>2. CASE UNCHANGED executed
    BY <2>1, <2>2, ToolCallStutter
  <2>3. CASE f.event = "tool_invoke" /\ (ServerInvoke(f) \/ AckedInvoke(f) \/ ServerPeerVanished(f))
    <3>1. f.call \in Calls /\ stage[f.call] # "idle" /\ executed[f.call] = 0
      BY <2>1, <2>3, FrameFields, InvokesTail DEF CallInv, Invokes
    <3>2. executed' = [executed EXCEPT ![f.call] = 1]
      BY <2>3, <3>1 DEF ServerInvoke, AckedInvoke, HandToPeer, ServerPeerVanished, TypeOK
    <3>3. CallStage[f.call] # "idle" /\ CallStage' = CallStage /\ Told' = Told
      BY <2>1, <3>1 DEF CallStage, InProgress, Told
    <3>4. TC!Execute(f.call)
      BY <3>1, <3>2, <3>3 DEF TC!Execute
    <3>5. QED
      BY <3>1, <3>4 DEF TC!Next
  <2>4. QED
    BY <1>6, <2>2, <2>3 DEF ServerHandles, ServerJoin, ServerReply
<1>7. QED
  BY <1>1, <1>2, <1>3, <1>4, <1>5, <1>6 DEF Next, DispatchTool

\* Whatever the socket, the channel and the two tasks do, the bridge executes
\* each tool call at most once, answers it at most once, and gives it a result
\* only after its execution and never another call's.
THEOREM BridgeImplementsToolCall == Spec => ImplementsToolCall
<1>1. Init => TC!Init
  <2> SUFFICES ASSUME Init PROVE TC!Init
    OBVIOUS
  <2>1. CallStage = [c \in Calls |-> "idle"]
    BY DEF Init, CallStage, InProgress
  <2>2. Told = [c \in Calls |-> "none"]
    BY CallsAssumption DEF Init, Told
  <2>3. QED
    BY <2>1, <2>2 DEF Init, TC!Init, TC!NoResult
<1>2. QED
  BY <1>1, BridgeInvariant, ToolCallStep, PTL DEF Spec, TC!Spec, ImplementsToolCall
=============================================================================
