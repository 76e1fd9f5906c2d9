------------------------------- MODULE McpBridge -------------------------------
(***************************************************************************)
(* cc_channel_runner, the process Claude Code (CC) starts as its MCP       *)
(* server, and the Phoenix channel it talks to:                            *)
(*                                                                         *)
(*   __main__      runs the two tasks below and stops when one of them ends *)
(*   mcp_server    serves CC's tool calls over stdio (mcp_task)             *)
(*   phx_client    the WebSocket: refs, pending replies, the inbox          *)
(*   phx_receive   connects, joins and dispatches envelopes (ws_task)       *)
(*   ChannelChannel, the Elixir end of cli:channel/<sid>                    *)
(*                                                                         *)
(* One asyncio loop runs every coroutine; a step is what runs between two   *)
(* awaits.  A coroutine that waits for a future resumes in a step of its    *)
(* own, after whatever else the loop runs first.                            *)
(***************************************************************************)
EXTENDS Integers, Sequences, FiniteSets

CONSTANTS
  Calls,          \* tool calls of CC; a call is also its req_id, a fresh uuid
  Acking,         \* whether the channel may ack a tool_invoke; this code's does not
  MaxNotes,       \* bound: notifications pushed
  MediaNotes,     \* the ones with an attachment
  MaxTraffic      \* bound: calls, notifications, heartbeats and shutdowns

ASSUME AckAssumption == Acking \in BOOLEAN
(* A uuid is none of the words that stand for the absence of a result. *)
ASSUME CallsAssumption == Calls \cap {"none", "pending", "error", "timeout"} = {}
ASSUME BoundAssumption == MaxTraffic \in Nat /\ MaxNotes \in Nat /\ MediaNotes \subseteq 1..MaxNotes

VARIABLES
  main,         \* "running", "exit_ok" or "exit_error"
  mcp_task,     \* "starting", "serving" (_write_stream is set) or "done"
  ws_task,      \* where ws_lifecycle() stands
  tries,        \* connection attempts that failed
  ws,           \* _ws: "none", "open" or "closed"
  ref_counter,  \* _ref_counter
  join_ref,     \* _join_refs of the topic, or NoRef
  pending,      \* _pending: ref -> "waiting" or the status of its reply
  inbox,        \* _inbox
  stage,        \* [Calls -> where _dispatch_tool() stands]
  call_ref,     \* [Calls -> the ref of its push, or NoRef]
  pending_tool_calls,  \* _pending_tool_calls, its keys
  future,       \* [Calls -> the future of its result]
  answer,       \* [Calls -> what CC was answered]
  to_server, to_client,   \* frames on the WebSocket
  channel,      \* ChannelChannel: "none", "joined" or "gone"
  at_peer,      \* tool_invokes the session's peer has not answered
  executed,     \* history: [Calls -> how often its tool_invoke was handled]
  pushed,       \* history: notifications pushed
  written,      \* history: notifications written to CC, in order
  missed,       \* history: notifications dropped or lost with the WebSocket
  killed,       \* history: a session_killed or phx_error was pushed
  heartbeats    \* history: heartbeats sent

clientVars == <<ws, ref_counter, join_ref, pending, inbox>>
callVars == <<stage, call_ref, pending_tool_calls, future, answer>>
serverVars == <<channel, at_peer, executed, pushed, killed>>
noteVars == <<written, missed>>
taskVars == <<main, mcp_task, ws_task, tries>>
vars == <<taskVars, clientVars, callVars, to_server, to_client, serverVars,
          noteVars, heartbeats>>

---------------------------------------------------------------------------
(* Types. *)

NoRef == 0
Refs == Nat \ {NoRef}
(* A result is named by the call it is the result of; an error is an unknown
   tool, an exception of push() or an error reply to it.                   *)
Answers == {"none", "error", "timeout"} \cup Calls
Stages == {"idle", "pushing", "waiting", "returned", "abandoned"}

Reply(r, s) == [event |-> "phx_reply", ref |-> r, status |-> s]
ToolResult(c) == [event |-> "envelope", kind |-> "tool_result", call |-> c]
(* kind is absent, "notification" or "cleanup_check_requested"; what matters
   to build_notification_params/1 is whether the payload has media. *)
Note(n) == [event |-> "envelope", kind |-> "notification", n |-> n, media |-> n \in MediaNotes]
Killed == [event |-> "envelope", kind |-> "session_killed"]
PhxError == [event |-> "phx_error"]
Frames ==
  [event: {"phx_reply"}, ref: Refs, status: {"ok", "error"}]
    \cup [event: {"envelope"}, kind: {"tool_result"}, call: Calls]
    \cup [event: {"envelope"}, kind: {"notification"}, n: 1..MaxNotes, media: BOOLEAN]
    \cup {Killed, PhxError}
Params == [n: 1..MaxNotes, content: {"text", "attachment"}, media_uri: BOOLEAN]
Pushes ==
  [event: {"phx_join", "heartbeat"}, ref: Refs]
    \cup [event: {"tool_invoke"}, ref: Refs, call: Calls]

TypeOK ==
  /\ main \in {"running", "exit_ok", "exit_error"}
  /\ mcp_task \in {"starting", "serving", "done"}
  /\ ws_task \in {"connecting", "connected", "joining", "receiving", "shutdown", "failed"}
  /\ tries \in 0..3 /\ (ws_task = "connecting" => tries < 3)
  /\ ws \in {"none", "open", "closed"}
  /\ ref_counter \in Nat
  /\ join_ref \in Nat
  /\ DOMAIN pending \subseteq Refs
  /\ \A r \in DOMAIN pending : pending[r] \in {"waiting", "ok", "error"}
  /\ inbox \in Seq(Frames)
  /\ stage \in [Calls -> Stages]
  /\ call_ref \in [Calls -> Nat]
  /\ pending_tool_calls \subseteq Calls
  /\ future \in [Calls -> {"none", "pending"} \cup Calls]
  /\ answer \in [Calls -> Answers]
  /\ to_server \in Seq(Pushes)
  /\ to_client \in Seq(Frames)
  /\ channel \in {"none", "joined", "gone"}
  /\ at_peer \subseteq Calls
  /\ executed \in [Calls -> Nat]
  /\ pushed \in 0..MaxNotes
  /\ written \in Seq(Params)
  /\ missed \subseteq 1..MaxNotes
  /\ killed \in BOOLEAN
  /\ heartbeats \in Nat

Init ==
  /\ main = "running"
  /\ mcp_task = "starting"
  /\ ws_task = "connecting"
  /\ tries = 0
  /\ ws = "none"
  /\ ref_counter = 0
  /\ join_ref = NoRef
  /\ pending = <<>>
  /\ inbox = <<>>
  /\ stage = [c \in Calls |-> "idle"]
  /\ call_ref = [c \in Calls |-> NoRef]
  /\ pending_tool_calls = {}
  /\ future = [c \in Calls |-> "none"]
  /\ answer = [c \in Calls |-> "none"]
  /\ to_server = <<>>
  /\ to_client = <<>>
  /\ channel = "none"
  /\ at_peer = {}
  /\ executed = [c \in Calls |-> 0]
  /\ pushed = 0
  /\ written = <<>>
  /\ missed = {}
  /\ killed = FALSE
  /\ heartbeats = 0

---------------------------------------------------------------------------
(* phx_client: refs and the dictionary of pending replies. *)

(* What MaxTraffic bounds. *)
Traffic ==
  pushed + heartbeats + Cardinality({c \in Calls : stage[c] # "idle"})
    + (IF killed THEN 1 ELSE 0)

NextRef == ref_counter + 1

Await(p, r) == [x \in DOMAIN p \cup {r} |-> IF x = r THEN "waiting" ELSE p[x]]

\* MUTANT of Pop: the finally clause is missing.
PopNothing(p, r) == p
Pop(p, r) == [x \in DOMAIN p \ {r} |-> p[x]]

Resolved(r) == r \in DOMAIN pending /\ pending[r] # "waiting"

(* connect(): three attempts, then the last exception is raised.           *)
LastAttempt(n) == n = 3

ConnectFails ==
  /\ main = "running" /\ ws_task = "connecting"
  /\ tries' = tries + 1
  /\ ws_task' = IF LastAttempt(tries') THEN "failed" ELSE ws_task
  /\ UNCHANGED <<main, mcp_task, clientVars, callVars, to_server, to_client, serverVars,
                 noteVars, heartbeats>>

Connect ==
  /\ main = "running" /\ ws_task = "connecting"
  /\ ws' = "open"
  /\ ws_task' = "connected"
  /\ tries' = 0
  /\ UNCHANGED <<main, mcp_task, ref_counter, join_ref, pending, inbox, callVars,
                 to_server, to_client, serverVars, noteVars, heartbeats>>

(* join(): the join_ref is recorded before the reply; a send on a closed
   socket raises, and ws_lifecycle() with it.                              *)
JoinSend ==
  /\ main = "running" /\ ws_task = "connected"
  /\ ref_counter' = NextRef
  /\ join_ref' = NextRef
  /\ \/ /\ ws = "open"
        /\ to_server' = Append(to_server, [event |-> "phx_join", ref |-> NextRef])
        /\ pending' = Await(pending, NextRef)
        /\ ws_task' = "joining"
     \/ /\ ws = "closed"
        /\ ws_task' = "failed"
        /\ UNCHANGED <<to_server, pending>>
  /\ UNCHANGED <<main, mcp_task, tries, ws, inbox, callVars, to_client, serverVars,
                 noteVars, heartbeats>>

JoinResume ==
  /\ main = "running" /\ ws_task = "joining" /\ Resolved(join_ref)
  /\ ws_task' = IF pending[join_ref] = "ok" THEN "receiving" ELSE "failed"
  /\ pending' = Pop(pending, join_ref)
  /\ UNCHANGED <<main, mcp_task, tries, ws, ref_counter, join_ref, inbox, callVars,
                 to_server, to_client, serverVars, noteVars, heartbeats>>

(* _recv_loop(): a reply somebody waits for settles its future; every other
   frame, unclaimed replies included, goes to the inbox.  After the socket
   has closed the loop reads what was buffered and ends.                   *)
Enqueue(q, f) == Append(q, f)

Claims(f) == f.event = "phx_reply" /\ f.ref \in DOMAIN pending

Settle(r, s) == [pending EXCEPT ![r] = IF @ = "waiting" THEN s ELSE @]

\* MUTANT of Readable: the loop ends with the socket, whatever is buffered.
ReadableWhileOpen == ws = "open"
Readable == ws # "none"

RecvLoop ==
  /\ main = "running" /\ Readable /\ to_client # <<>>
  /\ LET f == Head(to_client) IN
       IF Claims(f)
       THEN pending' = Settle(f.ref, f.status) /\ inbox' = inbox
       ELSE inbox' = Enqueue(inbox, f) /\ pending' = pending
  /\ to_client' = Tail(to_client)
  /\ UNCHANGED <<taskVars, ws, ref_counter, join_ref, callVars, to_server, serverVars,
                 noteVars, heartbeats>>

(* _heartbeat_loop(): takes a ref of its own; a failing send ends the loop. *)
Heartbeat ==
  /\ main = "running" /\ ws = "open" /\ Traffic < MaxTraffic
  /\ ref_counter' = NextRef
  /\ to_server' = Append(to_server, [event |-> "heartbeat", ref |-> NextRef])
  /\ heartbeats' = heartbeats + 1
  /\ UNCHANGED <<taskVars, ws, join_ref, pending, inbox, callVars, to_client, serverVars,
                 noteVars>>

---------------------------------------------------------------------------
(* mcp_server: the stdio side. *)

(* start(): the write stream exists while the server runs. *)
StdioOpens ==
  /\ main = "running" /\ mcp_task = "starting"
  /\ mcp_task' = "serving"
  /\ UNCHANGED <<main, ws_task, tries, clientVars, callVars, to_server, to_client,
                 serverVars, noteVars, heartbeats>>

(* CC dies or closes the pipe; the calls being handled are cancelled. *)
InProgress(c) == stage[c] \in {"pushing", "waiting"}

CancelCalls ==
  /\ stage' = [c \in Calls |-> IF InProgress(c) THEN "abandoned" ELSE stage[c]]
  /\ pending_tool_calls' = {}
  /\ call_ref' = [c \in Calls |-> NoRef]
  /\ future' = [c \in Calls |-> "none"]

StdinCloses ==
  /\ main = "running" /\ mcp_task = "serving"
  /\ mcp_task' = "done"
  /\ CancelCalls
  /\ pending' = [r \in DOMAIN pending \ {call_ref[c] : c \in Calls} |-> pending[r]]
  /\ UNCHANGED <<main, ws_task, tries, ws, ref_counter, join_ref, inbox,
                 answer, to_server, to_client, serverVars, noteVars, heartbeats>>

(* The handler's locals go with it. *)
Return(c, a) ==
  /\ future' = [future EXCEPT ![c] = "none"]
  /\ stage' = [stage EXCEPT ![c] = "returned"]
  /\ answer' = [answer EXCEPT ![c] = a]

(* _call_tool() for a name it does not know. *)
CallUnknownTool(c) ==
  /\ main = "running" /\ mcp_task = "serving" /\ stage[c] = "idle"
  /\ Traffic < MaxTraffic
  /\ Return(c, "error")
  /\ UNCHANGED <<taskVars, clientVars, call_ref, pending_tool_calls, to_server,
                 to_client, serverVars, noteVars, heartbeats>>

\* MUTANT of Push: the send is tried twice.
PushRetries(c) ==
  /\ ref_counter' = NextRef
  /\ call_ref' = [call_ref EXCEPT ![c] = NextRef]
  /\ pending' = Await(pending, NextRef)
  /\ LET f == [event |-> "tool_invoke", ref |-> NextRef, call |-> c] IN
       to_server' = to_server \o <<f, f>>
  /\ pending_tool_calls' = pending_tool_calls \cup {c}
  /\ future' = [future EXCEPT ![c] = "pending"]
  /\ stage' = [stage EXCEPT ![c] = "pushing"]
  /\ UNCHANGED answer

(* _dispatch_tool() up to its first await: push() raises before the join was
   sent, _push_and_await() when the socket is closed; the SDK answers CC
   with the exception.                                                     *)
Push(c) ==
  /\ ref_counter' = NextRef
  /\ call_ref' = [call_ref EXCEPT ![c] = NextRef]
  /\ pending' = Await(pending, NextRef)
  /\ to_server' = Append(to_server, [event |-> "tool_invoke", ref |-> NextRef, call |-> c])
  /\ pending_tool_calls' = pending_tool_calls \cup {c}
  /\ future' = [future EXCEPT ![c] = "pending"]
  /\ stage' = [stage EXCEPT ![c] = "pushing"]
  /\ UNCHANGED answer

PushRaises(c) ==
  /\ ref_counter' = IF join_ref = NoRef THEN ref_counter ELSE NextRef
  /\ Return(c, "error")
  /\ UNCHANGED <<call_ref, pending, to_server, pending_tool_calls>>

DispatchTool(c) ==
  /\ main = "running" /\ mcp_task = "serving" /\ stage[c] = "idle"
  /\ Traffic < MaxTraffic
  /\ IF join_ref # NoRef /\ ws = "open" THEN Push(c) ELSE PushRaises(c)
  /\ UNCHANGED <<taskVars, ws, join_ref, inbox, to_client, serverVars, noteVars, heartbeats>>

(* The reply to the push: an error ends the call, otherwise it goes on to
   wait for its result.                                                    *)
PushResume(c) ==
  /\ main = "running" /\ stage[c] = "pushing" /\ Resolved(call_ref[c])
  /\ pending' = Pop(pending, call_ref[c])
  /\ \/ /\ pending[call_ref[c]] = "error"
        /\ Return(c, "error")
        /\ pending_tool_calls' = pending_tool_calls \ {c}
     \/ /\ pending[call_ref[c]] = "ok"
        /\ stage' = [stage EXCEPT ![c] = "waiting"]
        /\ UNCHANGED <<answer, pending_tool_calls, future>>
  /\ call_ref' = [call_ref EXCEPT ![c] = NoRef]
  /\ UNCHANGED <<taskVars, ws, ref_counter, join_ref, inbox, to_server,
                 to_client, serverVars, noteVars, heartbeats>>

(* wait_for(future): the result, or the timeout while there is none. *)
ResultResume(c) ==
  /\ main = "running" /\ stage[c] = "waiting" /\ future[c] \in Calls
  /\ Return(c, future[c])
  /\ pending_tool_calls' = pending_tool_calls \ {c}
  /\ UNCHANGED <<taskVars, clientVars, call_ref, to_server, to_client, serverVars,
                 noteVars, heartbeats>>

(* No result within _TOOL_CALL_TIMEOUT_SECS. *)
ToolCallTimeout(c) ==
  /\ main = "running" /\ stage[c] = "waiting" /\ future[c] = "pending"
  /\ Return(c, "timeout")
  /\ pending_tool_calls' = pending_tool_calls \ {c}
  /\ UNCHANGED <<taskVars, clientVars, call_ref, to_server, to_client, serverVars,
                 noteVars, heartbeats>>

---------------------------------------------------------------------------
(* phx_receive_loop(): one frame of the inbox. *)

(* build_notification_params/1: an attachment becomes a stub with its URI. *)
BuildNotificationParams(f) ==
  [n |-> f.n, content |-> IF f.media THEN "attachment" ELSE "text", media_uri |-> f.media]

(* send_channel_notification(): dropped without a write stream. *)
SendNotification(f) ==
  /\ IF mcp_task = "serving"
     THEN written' = Append(written, BuildNotificationParams(f)) /\ missed' = missed
     ELSE missed' = missed \cup {f.n} /\ written' = written
  /\ UNCHANGED <<ws_task, pending_tool_calls, future>>

(* _resolve_pending_tool_call(): the entry goes before its future is set, so
   a second or a late result finds nothing.                                *)
Target(f) == f.call

ResolvePending(f) ==
  /\ LET c == Target(f) IN
       IF c \in pending_tool_calls /\ future[c] = "pending"
       THEN future' = [future EXCEPT ![c] = f.call]
       ELSE future' = future
  /\ pending_tool_calls' = pending_tool_calls \ {Target(f)}
  /\ UNCHANGED <<ws_task, noteVars>>

EndsBridge(f) == f \in {Killed, PhxError}

Shutdown ==
  /\ ws_task' = "shutdown"
  /\ UNCHANGED <<pending_tool_calls, future, noteVars>>

Ignore == UNCHANGED <<ws_task, pending_tool_calls, future, noteVars>>

IsEnvelope(f, kind) == f.event = "envelope" /\ f.kind = kind

ReceiveLoop ==
  /\ main = "running" /\ ws_task = "receiving" /\ inbox # <<>>
  /\ LET f == Head(inbox) IN
       \/ IsEnvelope(f, "tool_result") /\ ResolvePending(f)
       \/ IsEnvelope(f, "notification") /\ SendNotification(f)
       \/ EndsBridge(f) /\ Shutdown
       \/ /\ ~IsEnvelope(f, "tool_result") /\ ~IsEnvelope(f, "notification")
          /\ ~EndsBridge(f)
          /\ Ignore
  /\ inbox' = Tail(inbox)
  /\ UNCHANGED <<main, mcp_task, tries, ws, ref_counter, join_ref, pending, stage,
                 call_ref, answer, to_server, to_client, serverVars, heartbeats>>

(* main(): the first task that ends takes the other along; close() fails
   what is pending.  A shutdown or the end of stdin is a clean exit.       *)
MainReturns ==
  /\ main = "running"
  /\ mcp_task = "done" \/ ws_task \in {"shutdown", "failed"}
  /\ main' = IF ws_task = "failed" THEN "exit_error" ELSE "exit_ok"
  /\ mcp_task' = "done"
  /\ ws' = IF ws = "none" THEN ws ELSE "closed"
  /\ pending' = <<>>
  /\ CancelCalls
  /\ to_client' = <<>>
  /\ inbox' = <<>>
  /\ UNCHANGED <<ws_task, tries, ref_counter, join_ref, answer, to_server, serverVars, noteVars,
                 heartbeats>>

---------------------------------------------------------------------------
(* The other end: EsrWeb.ChannelChannel and the session's peer. *)

ToClient(f) == to_client' = IF ws = "open" THEN Append(to_client, f) ELSE to_client

(* join/3: refused while another client holds the session. *)
ServerJoin(f, s) ==
  /\ channel' = IF s = "ok" THEN "joined" ELSE channel
  /\ ToClient(Reply(f.ref, s))
  /\ UNCHANGED <<at_peer, executed>>

(* The socket answers heartbeats, and frames of a topic that is not joined. *)
ServerReply(f, s) ==
  /\ ToClient(Reply(f.ref, s))
  /\ UNCHANGED <<channel, at_peer, executed>>

(* handle_in tool_invoke: handed to the peer, {:noreply, socket}: the push
   that waits for the ack of receipt gets none.                            *)
HandToPeer(f) ==
  /\ at_peer' = at_peer \cup {f.call}
  /\ executed' = [executed EXCEPT ![f.call] = @ + 1]

ServerInvoke(f) == HandToPeer(f) /\ UNCHANGED <<channel, to_client>>

(* External: a channel that acks the push, which the comment at mcp_server.py
   336 takes this one for and the fake client of its tests plays.  Only
   after such an ack does a call wait for its result.                      *)
AckedInvoke(f) ==
  Acking /\ HandToPeer(f) /\ ToClient(Reply(f.ref, "ok")) /\ UNCHANGED channel

(* No peer is registered under thread:<sid>. *)
ServerPeerVanished(f) ==
  /\ executed' = [executed EXCEPT ![f.call] = @ + 1]
  /\ ToClient(ToolResult(f.call))
  /\ UNCHANGED <<channel, at_peer>>

ServerHandles ==
  /\ to_server # <<>>
  /\ LET f == Head(to_server) IN
       \/ /\ f.event = "phx_join"
          /\ \E s \in {"ok", "error"} : ServerJoin(f, s)
       \/ f.event = "heartbeat" /\ ServerReply(f, "ok")
       \/ f.event = "tool_invoke" /\ channel # "joined" /\ ServerReply(f, "error")
       \/ /\ f.event = "tool_invoke" /\ channel = "joined"
          /\ ServerInvoke(f) \/ AckedInvoke(f) \/ ServerPeerVanished(f)
  /\ to_server' = Tail(to_server)
  /\ UNCHANGED <<taskVars, clientVars, callVars, pushed, killed, noteVars, heartbeats>>

(* handle_info {:tool_result, req_id, result}; lost without a channel. *)
PeerAnswers(c) ==
  /\ c \in at_peer
  /\ at_peer' = at_peer \ {c}
  /\ IF channel = "joined" THEN ToClient(ToolResult(c)) ELSE to_client' = to_client
  /\ UNCHANGED <<taskVars, clientVars, callVars, to_server, channel, executed, pushed,
                 killed, noteVars, heartbeats>>

(* handle_info {:notification, _} and {:push_envelope, _}. *)
ServerNotifies ==
  /\ channel = "joined" /\ ws = "open" /\ pushed < MaxNotes /\ Traffic < MaxTraffic
  /\ pushed' = pushed + 1
  /\ ToClient(Note(pushed + 1))
  /\ UNCHANGED <<taskVars, clientVars, callVars, to_server, channel, at_peer, executed,
                 killed, noteVars, heartbeats>>

(* A session_killed envelope; a crash of the channel process, which Phoenix
   reports as phx_error.                                                   *)
ServerPushes(f) ==
  /\ channel = "joined" /\ ws = "open" /\ ~killed /\ Traffic < MaxTraffic
  /\ killed' = TRUE
  /\ channel' = IF f = PhxError THEN "gone" ELSE channel
  /\ ToClient(f)
  /\ UNCHANGED <<taskVars, clientVars, callVars, to_server, at_peer, executed, pushed,
                 noteVars, heartbeats>>

(* The connection breaks; of the frames under way the client keeps those it
   had buffered, and nothing tells its pending futures.                    *)
NotesIn(q) == {q[i].n : i \in {j \in DOMAIN q : IsEnvelope(q[j], "notification")}}

WsDrops ==
  /\ ws = "open"
  /\ ws' = "closed"
  /\ channel' = IF channel = "joined" THEN "gone" ELSE channel
  /\ to_server' = <<>>
  /\ \E k \in 0..Len(to_client) :
       /\ to_client' = SubSeq(to_client, 1, k)
       /\ missed' = missed \cup NotesIn(SubSeq(to_client, k + 1, Len(to_client)))
  /\ UNCHANGED <<taskVars, ref_counter, join_ref, pending, inbox, callVars, at_peer,
                 executed, pushed, killed, written, heartbeats>>

---------------------------------------------------------------------------
Next ==
  \/ ConnectFails \/ Connect \/ JoinSend \/ JoinResume \/ RecvLoop \/ Heartbeat
  \/ StdioOpens \/ StdinCloses \/ ReceiveLoop \/ MainReturns
  \/ \E c \in Calls :
       \/ CallUnknownTool(c) \/ DispatchTool(c) \/ PushResume(c) \/ ResultResume(c)
       \/ ToolCallTimeout(c) \/ PeerAnswers(c)
  \/ ServerHandles \/ ServerNotifies
  \/ \E f \in {Killed, PhxError} : ServerPushes(f)
  \/ WsDrops

Spec == Init /\ [][Next]_vars

(* asyncio runs every coroutine that is ready and its timers; the server
   reads its socket and a live peer answers what it was given.             *)
FairSpec ==
  /\ Spec
  /\ WF_vars(Connect \/ ConnectFails) /\ WF_vars(JoinSend) /\ WF_vars(JoinResume)
  /\ WF_vars(RecvLoop) /\ WF_vars(ReceiveLoop) /\ WF_vars(MainReturns)
  /\ WF_vars(StdioOpens) /\ WF_vars(ServerHandles)
  /\ \A c \in Calls :
       /\ WF_vars(PushResume(c)) /\ WF_vars(ResultResume(c)) /\ WF_vars(ToolCallTimeout(c))
       /\ WF_vars(PeerAnswers(c))

---------------------------------------------------------------------------
(* Properties. *)

(* Every entry of _pending and _pending_tool_calls has a coroutine that waits
   for it: a reply, a result, a timeout and a failure all take theirs out.  *)
PendingHasWaiter ==
  main = "running" =>
    /\ DOMAIN pending = (IF ws_task = "joining" THEN {join_ref} ELSE {})
                           \cup {call_ref[c] : c \in {d \in Calls : stage[d] = "pushing"}}
    /\ pending_tool_calls = {c \in Calls : InProgress(c) /\ future[c] = "pending"}

(* Why: a ref is taken once, so no two waits share one.  A reply can only
   settle the wait whose ref it carries, and taking that one entry out of
   _pending leaves the others.                                             *)
RefInv ==
  /\ join_ref <= ref_counter
  /\ \A r \in DOMAIN pending : r <= ref_counter
  /\ \A c \in Calls :
       /\ call_ref[c] # NoRef <=> stage[c] = "pushing"
       /\ call_ref[c] <= ref_counter
       /\ call_ref[c] # NoRef => call_ref[c] # join_ref
       /\ \A d \in Calls : call_ref[c] # NoRef /\ call_ref[c] = call_ref[d] => c = d
  /\ PendingHasWaiter

(* A notification reaches CC unless the socket broke under it, stdio was not
   up, or the bridge has ended.                                            *)
NoteArrives ==
  \A n \in 1..MaxNotes :
    pushed >= n ~> \/ n \in missed
                   \/ \E i \in DOMAIN written : written[i].n = n
                   \/ main # "running"

(* The bridge implements ToolCall. *)
CallStage ==
  [c \in Calls |-> IF InProgress(c) THEN "open"
                   ELSE IF stage[c] = "idle" THEN "idle" ELSE "closed"]
Told == [c \in Calls |-> IF answer[c] \in Calls THEN answer[c] ELSE "none"]
TC == INSTANCE ToolCall WITH stage <- CallStage, executed <- executed, told <- Told

(* Whatever the socket does, each tool call is executed at most once and
   answered at most once, with a result only after its execution and never
   with another call's: refs, heartbeats and req_ids do not mix two up.    *)
ImplementsToolCall == TC!Spec

(* Why: a tool_invoke is on the wire at most once and only before its
   execution, a result only after it, and a call that has not returned was
   answered nothing.                                                       *)
Invokes(f) == f.event = "tool_invoke"
InvokesOnce(q) ==
  \A i, j \in DOMAIN q :
    Invokes(q[i]) /\ Invokes(q[j]) /\ q[i].call = q[j].call => i = j
InvokesUnexecuted(q, st, ex) ==
  \A i \in DOMAIN q : Invokes(q[i]) => st[q[i].call] # "idle" /\ ex[q[i].call] = 0
ResultsExecuted(q, ex) ==
  \A i \in DOMAIN q : IsEnvelope(q[i], "tool_result") => ex[q[i].call] = 1
CallCoherent(c) ==
  /\ executed[c] \in {0, 1}
  /\ stage[c] = "idle" => executed[c] = 0
  /\ stage[c] # "returned" => answer[c] = "none"
  /\ c \in at_peer => executed[c] = 1
  /\ future[c] \in Calls => future[c] = c /\ executed[c] = 1
CallInv ==
  /\ \A c \in Calls : CallCoherent(c)
  /\ InvokesOnce(to_server) /\ InvokesUnexecuted(to_server, stage, executed)
  /\ ResultsExecuted(to_client, executed) /\ ResultsExecuted(inbox, executed)

(* mcp_server.py gives a tool_invoke that gets no result 30 seconds and then
   answers tool_result_timeout.                                            *)
ToolCallReturns ==
  \A c \in Calls : stage[c] = "pushing" ~> stage[c] \in {"returned", "abandoned"}

=============================================================================
