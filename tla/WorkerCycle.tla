------------------------------ MODULE WorkerCycle ------------------------------
(***************************************************************************)
(* The connection of a Python worker (an adapter sidecar or a handler      *)
(* worker) to esrd:                                                        *)
(*                                                                         *)
(*   _ipc_common.reconnect.reconnect_loop   one run_with_client() after    *)
(*                                          another, a back-off between    *)
(*   _ipc_common.url.resolve_url            the port file, at every attempt *)
(*   _ipc_common.disconnect                 the watcher of the WebSocket   *)
(*   esr.ipc.channel_client.ChannelClient   connect, join, push, read loop *)
(*                                                                         *)
(* and of the other end what the worker can see: where esrd listens, the   *)
(* channel process of the topic, the frames under way.  HandlerWorker and  *)
(* FeishuSidecar extend this module with the loops that run on top of it.  *)
(*                                                                         *)
(* Workers construct their client without auto_reconnect, so the client's  *)
(* own reconnect loop never runs; what it queues for it is lost with it.   *)
(***************************************************************************)
EXTENDS Integers, Sequences, FiniteSets, SequencesExt

CONSTANTS
  Ports,         \* the ports esrd may listen on
  FallbackPort,  \* the one of the --url argument
  BackoffLen,    \* length of RECONNECT_BACKOFF_SCHEDULE
  MaxFaults      \* bound: drops, exits of esrd, refused joins, channel crashes

ASSUME PortAssumption == Ports \subseteq Nat \ {0} /\ FallbackPort \in Ports
ASSUME CycleBoundAssumption == BackoffLen \in Nat \ {0} /\ MaxFaults \in Nat

VARIABLES
  cycle,      \* where reconnect_loop() and run_with_client() stand
  attempt,    \* index of the next delay
  url,        \* the port the current client was given
  port_file,  \* what esrd.port holds: a port, or NoPort
  launched,   \* the launcher has begun to start esrd, which does not listen yet
  listening,  \* the port esrd listens on, or NoPort
  ws,         \* the client's WebSocket, see below
  join_reply, \* the reply to phx_join: "none", "ok" or "error"
  to_worker,  \* frames from esrd the client has not read
  queue,      \* requests the topic's callback has put on the asyncio queue
  to_server,  \* frames esrd has not read
  channel,    \* esrd's channel process: "none", "joined" or "crashed"
  faults      \* counter for the bound

(* ws is "open"; "broken" once the peer is gone and the read loop has not
   noticed; "closed" when `connected` is FALSE; "drained" when the read loop
   has ended as well and _is_disconnected is set.                          *)
wireVars == <<ws, join_reply, to_worker, queue, to_server, channel>>
portVars == <<port_file, launched, listening>>
cycleVars == <<cycle, attempt, url, portVars, wireVars, faults>>

NoPort == 0

Join == [kind |-> "phx_join"]
Hello == [kind |-> "handler_hello"]
JoinReply(s) == [event |-> "phx_reply", status |-> s]
Envelope(p) == [event |-> "envelope", payload |-> p]
PhxError == [event |-> "phx_error"]

CycleTypeOK ==
  /\ cycle \in {"top", "connecting", "joining", "serving", "backoff"}
  /\ attempt \in 0..(BackoffLen - 1)
  /\ url \in Ports
  /\ listening \in Ports \cup {NoPort} /\ port_file \in Ports \cup {NoPort}
  /\ launched \in BOOLEAN
  /\ ws \in {"none", "open", "broken", "closed", "drained"}
  /\ join_reply \in {"none", "ok", "error"}
  /\ channel \in {"none", "joined", "crashed"}
  /\ faults \in 0..MaxFaults

CycleInit ==
  /\ cycle = "top"
  /\ attempt = 0
  /\ url = FallbackPort
  /\ launched = FALSE /\ listening = FallbackPort
  /\ port_file = NoPort
  /\ ws = "none"
  /\ join_reply = "none"
  /\ to_worker = <<>> /\ queue = <<>> /\ to_server = <<>>
  /\ channel = "none"
  /\ faults = 0

---------------------------------------------------------------------------
(* resolve_url(): read again at the top of every attempt. *)
\* MUTANT of ResolvedPort: the port the process was started with.
StartPort == FallbackPort
ResolvedPort == IF port_file \in Ports THEN port_file ELSE FallbackPort

ResolveUrl ==
  /\ cycle = "top"
  /\ url' = ResolvedPort
  /\ cycle' = "connecting"
  /\ UNCHANGED <<attempt, portVars, wireVars, faults>>

(* The delay the loop sleeps is schedule[min(attempt, len - 1)]: an attempt
   past the end of the schedule is like its last one.  attempt is set back
   to 0 only after a run_with_client() that returns, which the loops of a
   worker never let it do.                                                 *)
NextAttempt(a) == IF a + 1 < BackoffLen THEN a + 1 ELSE BackoffLen - 1

BackoffEnds ==
  /\ cycle = "backoff"
  /\ cycle' = "top"
  /\ attempt' = NextAttempt(attempt)
  /\ UNCHANGED <<url, portVars, wireVars, faults>>

(* client.connect(), up to the join frame; run_with_client() makes a new
   queue for each connection.                                              *)
Connect ==
  /\ cycle = "connecting" /\ url = listening
  /\ cycle' = "joining"
  /\ ws' = "open"
  /\ join_reply' = "none"
  /\ queue' = <<>>
  /\ to_server' = Append(to_server, Join)
  /\ UNCHANGED <<attempt, url, portVars, to_worker, channel, faults>>

ConnectFails ==
  /\ cycle = "connecting" /\ url # listening
  /\ cycle' = "backoff"
  /\ UNCHANGED <<attempt, url, portVars, wireVars, faults>>

(* What becomes of ChannelClient.push(): sent; lost on a socket whose end
   nobody has noticed; kept in _pending_pushes of a client that will never
   reconnect; or an exception of the closed socket.                        *)
PushRaises == ws = "closed"
Pushed(env) == IF ws = "open" THEN Append(to_server, env) ELSE to_server

(* run_with_client() leaves by an exception: its tasks are cancelled, the
   client is closed, the queue is gone.                                    *)
EndCycle ==
  /\ cycle' = "backoff"
  /\ ws' = "none"
  /\ join_reply' = "none"
  /\ to_worker' = <<>> /\ queue' = <<>>
  /\ to_server' \in {to_server, <<>>}
  /\ channel' = "none"
  /\ UNCHANGED <<attempt, url, portVars, faults>>

(* join() returns, handler_hello is pushed and the tasks start; a refused
   join raises, and leaves its client, which no topic uses any more, open. *)
JoinOk ==
  /\ cycle = "joining" /\ join_reply = "ok" /\ ~PushRaises
  /\ cycle' = "serving"
  /\ join_reply' = "none"
  /\ to_server' = Pushed(Hello)
  /\ UNCHANGED <<attempt, url, portVars, ws, to_worker, queue, channel, faults>>

JoinRaises ==
  /\ cycle = "joining"
  /\ join_reply = "error" \/ (join_reply = "ok" /\ PushRaises)
  /\ EndCycle

(* watch_disconnect() runs from the moment the worker serves. *)
Watching == cycle = "serving"

WatchDisconnect ==
  /\ Watching /\ ws \in {"closed", "drained"}
  /\ EndCycle

(* _read_loop(): the join reply settles its future; the filter of the topic
   keeps the envelopes of the worker's kind, and drops phx_error like any
   other event.                                                            *)
ReadLoop ==
  /\ ws \in {"open", "broken"} /\ to_worker # <<>>
  /\ LET f == Head(to_worker) IN
       /\ join_reply' = IF f.event = "phx_reply" THEN f.status ELSE join_reply
       /\ queue' = IF f.event = "envelope" THEN Append(queue, f.payload) ELSE queue
  /\ to_worker' = Tail(to_worker)
  /\ UNCHANGED <<cycle, attempt, url, portVars, ws, to_server, channel, faults>>

ReadLoopEnds ==
  /\ (ws = "broken" /\ to_worker = <<>>) \/ ws = "closed"
  /\ ws' = IF ws = "broken" THEN "closed" ELSE "drained"
  /\ UNCHANGED <<cycle, attempt, url, portVars, join_reply, to_worker, queue, to_server,
                 channel, faults>>

---------------------------------------------------------------------------
(* esrd and the network. *)

ServerJoins(s) ==
  /\ to_server # <<>> /\ Head(to_server) = Join
  /\ s = "error" => faults < MaxFaults
  /\ faults' = IF s = "error" THEN faults + 1 ELSE faults
  /\ channel' = IF s = "ok" THEN "joined" ELSE channel
  /\ to_worker' = IF ws = "open" THEN Append(to_worker, JoinReply(s)) ELSE to_worker
  /\ to_server' = Tail(to_server)
  /\ UNCHANGED <<cycle, attempt, url, portVars, ws, join_reply, queue>>

ServerReadsHello ==
  /\ to_server # <<>> /\ Head(to_server) = Hello
  /\ to_server' = Tail(to_server)
  /\ UNCHANGED <<cycle, attempt, url, portVars, ws, join_reply, to_worker, queue, channel,
                 faults>>

(* Endpoint.broadcast/3: to the worker when its channel process is there. *)
Broadcast(p) ==
  to_worker' = IF channel = "joined" /\ ws = "open" THEN Append(to_worker, Envelope(p))
               ELSE to_worker

(* The socket breaks; a prefix of what was under way still arrives. *)
Break ==
  /\ faults' = faults + 1
  /\ ws' = IF ws = "open" THEN "broken" ELSE ws
  /\ channel' = "none"
  /\ to_server' = <<>>
  /\ \E k \in 0..Len(to_worker) : to_worker' = SubSeq(to_worker, 1, k)

WsDrops ==
  /\ ws = "open" /\ faults < MaxFaults
  /\ Break
  /\ UNCHANGED <<cycle, attempt, url, portVars, join_reply, queue>>

(* esrd exits.  The launcher picks a port (the operator's, or any that is
   free) and writes the port file before it starts esrd on it; until esrd
   listens, an attempt fails whichever port it has.                        *)
ServerStops ==
  /\ faults < MaxFaults /\ listening # NoPort
  /\ Break
  /\ listening' = NoPort
  /\ UNCHANGED <<cycle, attempt, url, port_file, launched, join_reply, queue>>

WritePortFile(p) ==
  /\ listening = NoPort /\ ~launched
  /\ port_file' = p
  /\ launched' = TRUE
  /\ UNCHANGED <<cycle, attempt, url, listening, wireVars, faults>>

ServerListens ==
  /\ launched
  /\ listening' = port_file
  /\ launched' = FALSE
  /\ UNCHANGED <<cycle, attempt, url, port_file, wireVars, faults>>

LauncherStep == ServerListens \/ \E p \in Ports : WritePortFile(p)

(* The channel process crashes and Phoenix says phx_error; the socket stays. *)
ChannelCrashes ==
  /\ channel = "joined" /\ ws = "open" /\ faults < MaxFaults
  /\ faults' = faults + 1
  /\ channel' = "crashed"
  /\ to_worker' = Append(to_worker, PhxError)
  /\ UNCHANGED <<cycle, attempt, url, portVars, ws, join_reply, queue, to_server>>

---------------------------------------------------------------------------
(* Steps of the connection that concern nothing else; the extending module
   adds the ones that begin and end the loops: JoinOk, JoinRaises and
   WatchDisconnect.                                                        *)
WorkerStep ==
  ResolveUrl \/ BackoffEnds \/ Connect \/ ConnectFails \/ ReadLoop \/ ReadLoopEnds

EsrdStep ==
  \/ ServerReadsHello \/ WsDrops \/ ServerStops \/ LauncherStep \/ ChannelCrashes
  \/ \E s \in {"ok", "error"} : ServerJoins(s)

ConnectionStep == WorkerStep \/ EsrdStep

(* The worker can be reached. *)
Reachable == cycle = "serving" /\ ws = "open" /\ channel = "joined"

(* Two ways out of which the code has no way back: join() waits for a reply
   without a timeout and before the watcher starts; phx_error is dropped.  *)
JoinOrphaned == cycle = "joining" /\ ws \in {"closed", "drained"} /\ join_reply = "none"
ChannelOrphaned == channel = "crashed"

(* Whatever ports, restarts, drops and refusals do, the worker gets back to
   esrd, unless it is caught in one of the two.                            *)
ReachableAgain == []<>(Reachable \/ JoinOrphaned \/ ChannelOrphaned)

=============================================================================
