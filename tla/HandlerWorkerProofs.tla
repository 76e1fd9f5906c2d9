-------------------------- MODULE HandlerWorkerProofs --------------------------
(***************************************************************************)
(* Proofs about HandlerWorker, for any ports, messages, chats and bounds.  *)
(***************************************************************************)
EXTENDS HandlerWorker, FiniteSetTheorems, TLAPS

---------------------------------------------------------------------------
(* Sequences, by the set of their elements. *)

\* A sequence over any set is one over its own elements.
LEMMA SeqOfOwn ==
  ASSUME NEW S, NEW q \in Seq(S)
  PROVE  IsSeq(q)
<1>1. q \in [1..Len(q) -> S] /\ Len(q) \in Nat
  OBVIOUS
<1>2. q \in [1..Len(q) -> Range(q)]
  BY <1>1 DEF Range
<1>3. QED
  BY <1>1, <1>2 DEF IsSeq

\* The empty sequence has no element.
LEMMA EmptyOwn == IsSeq(<<>>) /\ Range(<<>>) = {}
<1>1. <<>> \in Seq({})
  OBVIOUS
<1>2. DOMAIN <<>> = {}
  OBVIOUS
<1>3. Range(<<>>) = {}
  BY <1>2, Zenon DEF Range
<1>4. QED
  BY <1>1, <1>3, SeqOfOwn

\* Append adds its argument.
LEMMA AppendOwn ==
  ASSUME NEW q, IsSeq(q), NEW e
  PROVE  IsSeq(Append(q, e)) /\ Range(Append(q, e)) = Range(q) \cup {e}
<1> DEFINE S == Range(q) \cup {e}
<1>1. q \in Seq(S) /\ e \in S
  BY DEF IsSeq
<1>2. Append(q, e) \in Seq(S)
  BY <1>1
<1>3. IsSeq(Append(q, e))
  BY <1>2, SeqOfOwn
<1>4. Range(Append(q, e)) \subseteq Range(q) \cup {e}
  BY <1>1, <1>2 DEF Range
<1>5. ASSUME NEW i \in DOMAIN q  PROVE q[i] \in Range(Append(q, e))
  BY <1>1, i \in DOMAIN Append(q, e), Append(q, e)[i] = q[i] DEF Range
<1>6. e \in Range(Append(q, e))
  <2>1. Len(q) + 1 \in DOMAIN Append(q, e) /\ Append(q, e)[Len(q) + 1] = e
    BY <1>1
  <2>2. QED
    BY <2>1 DEF Range
<1>7. Range(q) \subseteq Range(Append(q, e))
  BY <1>5 DEF Range
<1>8. QED
  BY <1>3, <1>4, <1>6, <1>7

\* Head takes an element, Tail keeps some of them.
LEMMA TailOwn ==
  ASSUME NEW q, IsSeq(q), q # <<>>
  PROVE  IsSeq(Tail(q)) /\ Range(Tail(q)) \subseteq Range(q) /\ Head(q) \in Range(q)
<1>1. Tail(q) \in Seq(Range(q)) /\ Head(q) \in Range(q)
  BY DEF IsSeq
<1>2. IsSeq(Tail(q))
  BY <1>1, SeqOfOwn
<1>3. Range(Tail(q)) \subseteq Range(q)
  <2>1. \A i \in DOMAIN Tail(q) : Tail(q)[i] \in Range(q)
    BY <1>1
  <2>2. QED
    BY <2>1 DEF Range
<1>4. QED
  BY <1>1, <1>2, <1>3

\* So does a prefix.
LEMMA PrefixOwn ==
  ASSUME NEW q, IsSeq(q), NEW k \in 0..Len(q)
  PROVE  IsSeq(SubSeq(q, 1, k)) /\ Range(SubSeq(q, 1, k)) \subseteq Range(q)
<1>1. SubSeq(q, 1, k) \in Seq(Range(q))
  BY DEF IsSeq
<1>2. IsSeq(SubSeq(q, 1, k))
  BY <1>1, SeqOfOwn
<1>3. Range(SubSeq(q, 1, k)) \subseteq Range(q)
  <2>1. \A i \in DOMAIN SubSeq(q, 1, k) : SubSeq(q, 1, k)[i] \in Range(q)
    BY <1>1
  <2>2. QED
    BY <2>1 DEF Range
<1>4. QED
  BY <1>2, <1>3

---------------------------------------------------------------------------
(* The connection *)

WireSeqs == IsSeq(to_worker) /\ IsSeq(queue) /\ IsSeq(to_server)

\* What a step of the connection does to the frames: it adds none of the actor's,
\* and a call on the queue came in as an envelope.
WireKept ==
  /\ WireSeqs'
  /\ \A f \in Range(to_worker') : f \in Range(to_worker) \/ f.event # "envelope"
  /\ \A c \in Range(queue') :
       c \in Range(queue) \/ \E f \in Range(to_worker) : f.event = "envelope" /\ c = f.payload
  /\ \A f \in Range(to_server') : f \in Range(to_server) \/ f.kind # "handler_reply"

\* A connection that ends takes its frames with it.
LEMMA EndCycleKeeps ==
  ASSUME WireSeqs, EndCycle
  PROVE  WireKept
  BY EmptyOwn DEF WireSeqs, WireKept, EndCycle

\* A socket that breaks lets a prefix through.
LEMMA BreakKeeps ==
  ASSUME WireSeqs, Break, UNCHANGED queue
  PROVE  WireKept
<1>1. PICK k \in 0..Len(to_worker) : to_worker' = SubSeq(to_worker, 1, k)
  BY DEF Break
<1>2. IsSeq(to_worker)' /\ Range(to_worker') \subseteq Range(to_worker)
  BY <1>1, PrefixOwn DEF WireSeqs
<1>3. QED
  BY <1>2, EmptyOwn DEF WireSeqs, WireKept, Break

LEMMA ConnectionKeeps ==
  ASSUME WireSeqs, ConnectionStep \/ JoinOk \/ JoinRaises \/ WatchDisconnect
  PROVE  WireKept
<1> USE DEF wireVars, portVars
<1>1. CASE ResolveUrl \/ BackoffEnds \/ ConnectFails \/ ReadLoopEnds \/ LauncherStep
  BY <1>1 DEF ResolveUrl, BackoffEnds, ConnectFails, ReadLoopEnds, LauncherStep, ServerListens,
              WritePortFile, WireSeqs, WireKept
<1>2. CASE Connect
  <2>1. IsSeq(to_server)' /\ Range(to_server') = Range(to_server) \cup {Join}
    BY <1>2, AppendOwn DEF Connect, WireSeqs
  <2>2. Join.kind # "handler_reply"
    BY DEF Join
  <2>3. QED
    BY <1>2, <2>1, <2>2, EmptyOwn DEF Connect, WireSeqs, WireKept
<1>3. CASE ReadLoop
  <2> DEFINE f == Head(to_worker)
  <2>1. IsSeq(to_worker)' /\ Range(to_worker') \subseteq Range(to_worker) /\ f \in Range(to_worker)
    BY <1>3, TailOwn DEF ReadLoop, WireSeqs
  <2>2. CASE f.event = "envelope"
    <3>1. IsSeq(queue)' /\ Range(queue') = Range(queue) \cup {f.payload}
      BY <1>3, <2>2, AppendOwn DEF ReadLoop, WireSeqs
    <3>2. QED
      BY <1>3, <2>1, <2>2, <3>1 DEF ReadLoop, WireSeqs, WireKept
  <2>3. CASE f.event # "envelope"
    BY <1>3, <2>1, <2>3 DEF ReadLoop, WireSeqs, WireKept
  <2>4. QED
    BY <2>2, <2>3
<1>4. CASE ServerReadsHello
  BY <1>4, TailOwn DEF ServerReadsHello, WireSeqs, WireKept
<1>5. CASE WsDrops \/ ServerStops
  BY <1>5, BreakKeeps DEF WsDrops, ServerStops
<1>6. CASE ChannelCrashes
  <2>1. IsSeq(to_worker)' /\ Range(to_worker') = Range(to_worker) \cup {PhxError}
    BY <1>6, AppendOwn DEF ChannelCrashes, WireSeqs
  <2>2. PhxError.event # "envelope"
    BY DEF PhxError
  <2>3. QED
    BY <1>6, <2>1, <2>2 DEF ChannelCrashes, WireSeqs, WireKept
<1>7. ASSUME NEW s \in {"ok", "error"}, ServerJoins(s)
      PROVE WireKept
  <2>1. IsSeq(to_worker)' /\ Range(to_worker') \subseteq Range(to_worker) \cup {JoinReply(s)}
    BY <1>7, AppendOwn DEF ServerJoins, WireSeqs
  <2>2. JoinReply(s).event # "envelope"
    BY DEF JoinReply
  <2>3. IsSeq(to_server)' /\ Range(to_server') \subseteq Range(to_server)
    BY <1>7, TailOwn DEF ServerJoins, WireSeqs
  <2>4. QED
    BY <1>7, <2>1, <2>2, <2>3 DEF ServerJoins, WireSeqs, WireKept
<1>8. CASE JoinOk
  <2>1. IsSeq(to_server)' /\ Range(to_server') \subseteq Range(to_server) \cup {Hello}
    BY <1>8, AppendOwn DEF JoinOk, Pushed, WireSeqs
  <2>2. Hello.kind # "handler_reply"
    BY DEF Hello
  <2>3. QED
    BY <1>8, <2>1, <2>2 DEF JoinOk, WireSeqs, WireKept
<1>9. CASE JoinRaises \/ WatchDisconnect
  BY <1>9, EndCycleKeeps DEF JoinRaises, WatchDisconnect
<1>10. QED
  BY <1>1, <1>2, <1>3, <1>4, <1>5, <1>6, <1>7, <1>8, <1>9 DEF ConnectionStep, WorkerStep, EsrdStep

---------------------------------------------------------------------------
(* Handlers *)

\* Every handler returns at most one action.
LEMMA OnMsgActions ==
  ASSUME NEW s, NEW e
  PROVE  \/ OnMsg(s, e).actions = <<>>
         \/ \E a : OnMsg(s, e).actions = <<a>>
<1> DEFINE Few(r) == r.actions = <<>> \/ \E a : r.actions = <<a>>
<1>1. \A t : Few(Result(t, <<>>))
  BY DEF Result
<1>2. \A t, a : Few(Result(t, <<a>>))
  BY DEF Result
<1> HIDE DEF Few
<1>3. \A t : Few(FeishuAppOnMsg(t, e))
  BY <1>1, <1>2 DEF FeishuAppOnMsg, HandleNewSession, HandleAtRouted, HandleActive
<1>4. Few(FeishuThreadOnMsg(s, e))
  BY <1>1, <1>2 DEF FeishuThreadOnMsg, HandleInbound, HandleOutbound
<1>5. Few(CcSessionOnMsg(s)) /\ Few(CcAdapterRunnerOnMsg(s))
  BY <1>1, <1>2 DEF CcSessionOnMsg, CcAdapterRunnerOnMsg
<1>6. Few(OnMsg(s, e))
  BY <1>1, <1>3, <1>4, <1>5 DEF OnMsg
<1>7. QED
  BY <1>6 DEF Few

\* The actions as they go over the wire.
LEMMA SerialisedActions ==
  ASSUME NEW s, NEW e
  PROVE  LET acts == OnMsg(s, e).actions IN
           /\ IsSeq(Serialised(acts)) /\ Len(Serialised(acts)) = Len(acts)
           /\ \/ acts = <<>> /\ Serialised(acts) = <<>>
              \/ \E a : acts = <<a>> /\ Serialised(acts) = <<SerialiseAction(a)>>
<1> DEFINE acts == OnMsg(s, e).actions
<1>1. CASE acts = <<>>
  <2>1. Serialised(acts) = <<>>
    BY <1>1 DEF Serialised
  <2>2. QED
    BY <1>1, <2>1, EmptyOwn
<1>2. ASSUME NEW a, acts = <<a>>
      PROVE /\ IsSeq(Serialised(acts)) /\ Len(Serialised(acts)) = Len(acts)
            /\ Serialised(acts) = <<SerialiseAction(a)>>
  <2>1. DOMAIN acts = 1..1 /\ acts[1] = a /\ Len(acts) = 1
    BY <1>2
  <2>2. Serialised(acts) = [i \in 1..1 |-> SerialiseAction(a)]
    BY <2>1 DEF Serialised
  <2>3. Serialised(acts) = <<SerialiseAction(a)>>
    BY <2>2
  <2>4. <<SerialiseAction(a)>> \in Seq({SerialiseAction(a)}) /\ Len(<<SerialiseAction(a)>>) = 1
    OBVIOUS
  <2>5. IsSeq(Serialised(acts))
    BY <2>3, <2>4, SeqOfOwn
  <2>6. QED
    BY <2>1, <2>3, <2>4, <2>5
<1>3. QED
  BY <1>1, <1>2, OnMsgActions, EmptyOwn, Serialised(<<>>) = <<>> DEF Serialised

\* A reply that is no error is one application of the handler.
LEMMA ReplyApplies ==
  ASSUME NEW p, NEW f, f = ProcessHandlerCall(p), "error" \notin DOMAIN f
  PROVE  LET r == OnMsg(LoadState(p.state.fields), p.event) IN
           /\ p.event # Malformed
           /\ f.new_state.fields = DumpState(r.state)
           /\ f.actions = Serialised(r.actions)
<1> DEFINE r == OnMsg(LoadState(p.state.fields), p.event)
           ok == [new_state |-> [version |-> SchemaVersion, fields |-> DumpState(r.state)],
                  actions |-> Serialised(r.actions)]
<1>1. \A t : "error" \in DOMAIN Error(t)
  BY DEF Error
<1>2. p.event # Malformed /\ f = ok
  BY <1>1 DEF ProcessHandlerCall
<1>3. f.new_state.fields = DumpState(r.state) /\ f.actions = Serialised(r.actions)
  BY <1>2
<1>4. QED
  BY <1>2, <1>3

---------------------------------------------------------------------------
(* The actor *)

LEMMA ReplyInit == Init => ReplyInv
  BY EmptyOwn DEF Init, CycleInit, ReplyInv

\* The parts of ReplyInv about frames, and what the actor's own step must leave
\* alone for them to carry over.
ActorKept == UNCHANGED <<module, actor_type, committed, call, next_id>>

LEMMA OwnKept ==
  ASSUME ActorKept
  PROVE  /\ \A c : OwnCall(c)' <=> OwnCall(c)
         /\ \A f : OwnReply(f)' <=> OwnReply(f)
         /\ Events' = Events
<1>1. UNCHANGED <<module, actor_type, committed, call, next_id>>
  BY DEF ActorKept
<1>2. \A c : OwnCall(c)' <=> OwnCall(c)
  BY <1>1 DEF OwnCall, Payload
<1>3. Events' = Events
  BY <1>1 DEF Events
<1>4. \A f : OwnReply(f)' <=> OwnReply(f)
  BY <1>1 DEF OwnReply, Payload, ProcessHandlerCall, Registered, LoadState, OnMsg
<1>5. QED
  BY <1>2, <1>3, <1>4

\* Steps that only move or drop frames.
LEMMA FramesCarry ==
  ASSUME ReplyInv, ActorKept, WireKept, UNCHANGED dispatched
  PROVE  ReplyInv'
<1>1. UNCHANGED <<call, next_id>>
  BY DEF ActorKept
<1>2. QED
  BY <1>1, OwnKept DEF ReplyInv, WireKept, WireSeqs

\* The worker answers the call at the head of its queue.
LEMMA LoopStep ==
  ASSUME ReplyInv, HandlerCallLoop
  PROVE  ReplyInv'
<1> DEFINE c == Head(queue)
           reply == HandlerReply(c.id, ProcessHandlerCall(c.payload))
<1>1. ActorKept /\ UNCHANGED dispatched
  BY DEF HandlerCallLoop, actorVars, ActorKept
<1>2. CASE EndCycle
  BY <1>1, <1>2, EndCycleKeeps, FramesCarry DEF ReplyInv, WireSeqs
<1>3. CASE ~(Raises(c.payload) \/ PushRaises)
  <2>1. /\ queue # <<>> /\ queue' = Tail(queue)
        /\ to_server' = Pushed(reply)
        /\ UNCHANGED to_worker
    BY <1>3 DEF HandlerCallLoop
  <2>2. IsSeq(queue)' /\ Range(queue') \subseteq Range(queue) /\ c \in Range(queue)
    BY <2>1, TailOwn DEF ReplyInv
  <2>3. IsSeq(to_server)' /\ Range(to_server') \subseteq Range(to_server) \cup {reply}
    BY <2>1, AppendOwn DEF Pushed, ReplyInv
  <2>4. OwnCall(c)
    BY <2>2 DEF ReplyInv
  <2>5. OwnReply(reply)
    BY <2>4 DEF OwnReply, OwnCall, HandlerReply
  <2>6. UNCHANGED <<call, next_id>>
    BY <1>1 DEF ActorKept
  <2> HIDE DEF reply, c
  <2>7. QED
    BY <1>1, <2>1, <2>2, <2>3, <2>5, <2>6, OwnKept DEF ReplyInv
<1>4. QED
  BY <1>2, <1>3 DEF HandlerCallLoop

\* No frame carries the id of no call.
LEMMA NoCallOwn ==
  ASSUME call' = NoCall, UNCHANGED next_id
  PROVE  /\ \A c : OwnCall(c) => OwnCall(c)'
         /\ \A f : OwnReply(f) => OwnReply(f)'
<1>1. call'.id = 0
  BY DEF NoCall
<1>2. \A n \in 1..(next_id - 1) : n # 0
  OBVIOUS
<1>3. QED
  BY <1>1, <1>2 DEF OwnCall, OwnReply

\* esrd takes a reply: the one it waits for, or one that is late.
LEMMA ReadsReplyStep ==
  ASSUME ReplyInv, ServerReadsReply
  PROVE  ReplyInv'
<1> DEFINE f == Head(to_server)
<1>1. /\ UNCHANGED <<module, actor_type, next_id, to_worker, queue>>
      /\ f.kind = "handler_reply"
  BY DEF ServerReadsReply
<1>2. IsSeq(to_server)' /\ Range(to_server') \subseteq Range(to_server) /\ f \in Range(to_server)
  BY TailOwn DEF ServerReadsReply, ReplyInv
<1>3. CASE Expected(f)
  <2>1. call' = NoCall /\ AcceptReply(f.payload)
    BY <1>3 DEF ServerReadsReply, AcceptReply
  <2>2. f.payload = ProcessHandlerCall(Payload(call.event))
    BY <1>1, <1>2, <1>3 DEF Expected, ReplyInv, OwnReply
  <2>3. IsSeq(dispatched)'
    <3>1. CASE "error" \in DOMAIN f.payload
      BY <2>1, <3>1 DEF AcceptReply, ReplyInv
    <3>2. CASE "error" \notin DOMAIN f.payload
      <4>1. IsSeq(f.payload.actions)
        BY <2>2, <3>2, ReplyApplies, SerialisedActions
      <4>2. dispatched' = dispatched \o f.payload.actions
        BY <2>1, <3>2 DEF AcceptReply
      <4>3. dispatched' \in Seq(Range(dispatched) \cup Range(f.payload.actions))
        BY <4>1, <4>2 DEF ReplyInv, IsSeq
      <4>4. QED
        BY <4>3, SeqOfOwn
    <3>3. QED
      BY <3>1, <3>2
  <2>4. QED
    BY <1>1, <1>2, <2>1, <2>3, NoCallOwn DEF ReplyInv
<1>4. CASE ~Expected(f)
  <2>1. UNCHANGED <<call, committed, dispatched>>
    BY <1>4 DEF ServerReadsReply
  <2>2. ActorKept
    BY <1>1, <2>1 DEF ActorKept
  <2>3. QED
    BY <1>1, <1>2, <2>1, <2>2, OwnKept DEF ReplyInv
<1>5. QED
  BY <1>3, <1>4

\* A call, or its second try, goes out under a fresh id.
LEMMA SendStep ==
  ASSUME ReplyInv, NEW e \in Events, NEW try, Send(e, try),
         UNCHANGED <<module, actor_type, committed, dispatched, queue, to_server>>
  PROVE  ReplyInv'
<1>0. PICK c : c = [kind |-> "handler_call", id |-> next_id, payload |-> Payload(e)]
  OBVIOUS
<1>1. /\ call'.id = next_id /\ call'.event = e /\ next_id' = next_id + 1
      /\ next_id \in Nat \ {0}
  BY DEF Send, ReplyInv
<1>2. Events' = Events
  BY DEF Events
<1>3. \A d : OwnCall(d) => OwnCall(d)'
  BY <1>1 DEF OwnCall
<1>4. \A f : OwnReply(f) => OwnReply(f)'
  BY <1>1 DEF OwnReply
<1>5. OwnCall(c)'
  <2>1. c.id \in 1..(next_id' - 1)
    BY <1>0, <1>1
  <2>2. c.payload = Payload(e) /\ Payload(e) = Payload(call.event)'
    BY <1>0, <1>1 DEF Payload
  <2>3. QED
    BY <2>1, <2>2 DEF OwnCall
<1>6. IsSeq(to_worker)' /\ Range(to_worker') \subseteq Range(to_worker) \cup {Envelope(c)}
  BY <1>0, AppendOwn DEF Send, Broadcast, ReplyInv
<1>7. Envelope(c).payload = c
  BY DEF Envelope
<1>8. ASSUME NEW f \in Range(to_worker'), f.event = "envelope"
      PROVE OwnCall(f.payload)'
  <2>1. CASE f = Envelope(c)
    <3>1. f.payload = c
      BY <2>1, <1>7
    <3>2. QED
      BY <3>1, <1>5
  <2>2. CASE f \in Range(to_worker)
    <3>1. OwnCall(f.payload)
      BY <1>8, <2>2 DEF ReplyInv
    <3>2. QED
      BY <3>1, <1>3
  <2>3. QED
    BY <1>6, <2>1, <2>2
<1>9. call'.id \in 1..(next_id' - 1) /\ call'.event \in Events'
  BY <1>1, <1>2
<1>10. QED
  BY <1>1, <1>3, <1>4, <1>6, <1>8, <1>9 DEF ReplyInv

LEMMA TimeoutStep ==
  ASSUME ReplyInv, CallTimeout
  PROVE  ReplyInv'
<1>1. UNCHANGED <<module, actor_type, committed, dispatched, queue, to_server>> /\ call # NoCall
  BY DEF CallTimeout
<1>2. CASE Send(call.event, 2)
  <2>1. call.event \in Events
    BY <1>1 DEF ReplyInv
  <2>2. QED
    BY <1>1, <1>2, <2>1, SendStep
<1>3. CASE call' = NoCall /\ UNCHANGED <<next_id, to_worker>>
  BY <1>1, <1>3, NoCallOwn DEF ReplyInv
<1>4. QED
  BY <1>2, <1>3 DEF CallTimeout

LEMMA ReplyStep ==
  ASSUME ReplyInv, [Next]_vars
  PROVE  ReplyInv'
<1>1. CASE (ConnectionStep \/ JoinOk \/ JoinRaises \/ WatchDisconnect) /\ UNCHANGED actorVars
  <2>1. ActorKept /\ UNCHANGED dispatched
    BY <1>1 DEF actorVars, ActorKept
  <2>2. WireKept
    BY <1>1, ConnectionKeeps DEF ReplyInv, WireSeqs
  <2>3. QED
    BY <2>1, <2>2, FramesCarry
<1>2. ASSUME NEW e \in Events, StartCall(e)  PROVE ReplyInv'
  BY <1>2, SendStep DEF StartCall
<1>3. CASE UNCHANGED vars
  <2>1. ActorKept /\ UNCHANGED <<dispatched, to_worker, queue, to_server>>
    BY <1>3 DEF vars, actorVars, cycleVars, wireVars, ActorKept
  <2>2. WireKept
    BY <2>1 DEF WireKept, WireSeqs, ReplyInv
  <2>3. QED
    BY <2>1, <2>2, FramesCarry
<1>4. QED
  BY <1>1, <1>2, <1>3, LoopStep, ReadsReplyStep, TimeoutStep DEF Next

\* Only the expected reply commits, and it commits one application.
LEMMA CommitStep ==
  ASSUME ReplyInv, [Next]_vars
  PROVE  /\ UNCHANGED module
         /\ UNCHANGED <<committed, dispatched>> \/ CallCommits
<1>1. UNCHANGED module
  BY DEF Next, HandlerCallLoop, StartCall, CallTimeout, ServerReadsReply, vars, actorVars
<1> SUFFICES ASSUME ~UNCHANGED <<committed, dispatched>>
             PROVE CallCommits
  BY <1>1
<1> DEFINE f == Head(to_server)
           e == call.event
<1>2. ServerReadsReply /\ Expected(f) /\ "error" \notin DOMAIN f.payload
  BY DEF Next, HandlerCallLoop, StartCall, CallTimeout, ServerReadsReply, AcceptReply, vars, actorVars
<1>3. f \in Range(to_server) /\ f.kind = "handler_reply"
  BY <1>2, TailOwn DEF ServerReadsReply, ReplyInv
<1>4. f.id \in 1..(next_id - 1) /\ f.id = call.id /\ f.payload = ProcessHandlerCall(Payload(e))
  BY <1>2, <1>3 DEF Expected, ReplyInv, OwnReply
<1>5. call # NoCall
  BY <1>4 DEF NoCall
<1>6. e \in Events
  BY <1>5 DEF ReplyInv
<1>7. Payload(e).event = e /\ Payload(e).state = committed
  BY DEF Payload
<1>8. committed' = f.payload.new_state /\ dispatched' = dispatched \o f.payload.actions
  BY <1>2 DEF ServerReadsReply, AcceptReply
<1>9. e # Malformed /\ Commit(e)
  BY <1>2, <1>4, <1>7, <1>8, ReplyApplies DEF Commit
<1>10. QED
  BY <1>2, <1>5, <1>6, <1>9 DEF CallCommits, ServerReadsReply, AcceptReply

\* Frames of the awaited call are computed from the committed state.
THEOREM ReplyInvHolds == Spec => []ReplyInv
  BY ReplyInit, ReplyStep, PTL DEF Spec

\* A committed state and the actions dispatched with it are one application of the
\* handler to the state committed before (AtomicTransition), whatever the socket
\* loses, the caller tries again or a late reply brings.
THEOREM AtomicTransitionHolds == Spec => AtomicTransition
<1>1. ReplyInv /\ [Next]_vars =>
        [<<committed, dispatched>>' # <<committed, dispatched>> =>
           CallCommits]_vars
  BY CommitStep
<1>2. QED
  BY <1>1, ReplyInvHolds, PTL DEF Spec, AtomicTransition

---------------------------------------------------------------------------
(* The sorted list a set goes out as *)

\* A finite set of numbers has a sorted enumeration: by the number of elements
\* that are not larger.
LEMMA SortExists ==
  ASSUME NEW S \in SUBSET Nat, IsFiniteSet(S)
  PROVE  \E q \in SetToSeqs(S) : \A i, j \in DOMAIN q : i < j => q[i] < q[j]
<1> DEFINE n == Cardinality(S)
           Upto(x) == {y \in S : y <= x}
           rank == [x \in S |-> Cardinality(Upto(x))]
<1>1. n \in Nat
  BY FS_CardinalityType
<1>2. ASSUME NEW x \in S  PROVE rank[x] \in 1..n
  <2>1. Upto(x) \in SUBSET S /\ x \in Upto(x)
    OBVIOUS
  <2>2. IsFiniteSet(Upto(x)) /\ Cardinality(Upto(x)) <= n
    BY <2>1, FS_Subset
  <2>3. Cardinality(Upto(x)) \in Nat
    BY <2>2, FS_CardinalityType
  <2>4. Cardinality(Upto(x)) # 0
    BY <2>1, <2>2, FS_EmptySet
  <2> HIDE DEF Upto, n
  <2>5. QED
    BY <1>1, <2>2, <2>3, <2>4
<1>3. ASSUME NEW x \in S, NEW y \in S, x < y  PROVE rank[x] < rank[y]
  <2>0. (\A z \in S : z <= x => z <= y) /\ y <= y /\ ~(y <= x)
    BY <1>3
  <2>1. Upto(x) \in SUBSET Upto(y) /\ y \in Upto(y) /\ y \notin Upto(x) /\ Upto(y) \in SUBSET S
    BY <2>0
  <2>2. IsFiniteSet(Upto(y))
    BY <2>1, FS_Subset
  <2> HIDE DEF Upto
  <2>3. /\ IsFiniteSet(Upto(x)) /\ Cardinality(Upto(x)) <= Cardinality(Upto(y))
        /\ Cardinality(Upto(y)) # Cardinality(Upto(x))
    BY <2>1, <2>2, FS_Subset
  <2>4. Cardinality(Upto(x)) \in Nat /\ Cardinality(Upto(y)) \in Nat
    BY <2>2, <2>3, FS_CardinalityType
  <2>5. QED
    BY <2>3, <2>4
<1>4. rank \in [S -> 1..n]
  BY <1>2
<1> HIDE DEF rank, n
<1>5. rank \in Injection(S, 1..n)
  <2>1. ASSUME NEW x \in S, NEW y \in S, rank[x] = rank[y]  PROVE x = y
    <3>1. rank[x] \in Nat /\ rank[y] \in Nat
      BY <1>1, <1>4
    <3>2. ~(x < y) /\ ~(y < x)
      BY <1>3, <2>1, <3>1
    <3>3. QED
      BY <3>2
  <2>2. QED
    BY <1>4, <2>1 DEF Injection, IsInjective
<1>6. IsFiniteSet(1..n) /\ Cardinality(1..n) = n
  BY <1>1, FS_Interval
<1>7. rank \in Surjection(S, 1..n)
  BY <1>5, <1>6, FS_Injection DEF n
<1> DEFINE q == [i \in 1..n |-> CHOOSE x \in S : rank[x] = i]
<1>8. ASSUME NEW i \in 1..n  PROVE q[i] \in S /\ rank[q[i]] = i
  <2>1. \E x \in S : rank[x] = i
    BY <1>7 DEF Surjection
  <2>2. QED
    BY <2>1
<1>9. DOMAIN q = 1..n
  OBVIOUS
<1> HIDE DEF q
<1>10. ASSUME NEW i \in 1..n, NEW j \in 1..n, i < j  PROVE q[i] < q[j]
  <2>1. q[i] \in Nat /\ q[j] \in Nat
    BY <1>8
  <2>2. ASSUME q[j] < q[i]  PROVE FALSE
    <3>1. rank[q[j]] < rank[q[i]]
      BY <1>3, <1>8, <2>2
    <3>2. QED
      BY <1>8, <1>10, <3>1
  <2>3. q[i] # q[j]
    BY <1>1, <1>8, <1>10
  <2>4. QED
    BY <2>1, <2>2, <2>3
<1>11. q \in [1..n -> S]
  BY <1>8 DEF q
<1>12. \A i, j \in 1..n : i # j => q[i] # q[j]
  BY <1>8
<1>13. q \in SetToSeqs(S)
  BY <1>11, <1>12 DEF SetToSeqs, n
<1>14. QED
  BY <1>9, <1>10, <1>13

\* What goes out as a sorted list comes back as the same set.
LEMMA SortedRange ==
  ASSUME NEW S \in SUBSET Nat, IsFiniteSet(S)
  PROVE  Range(Sorted(S)) = S
<1> DEFINE n == Cardinality(S)
           q == Sorted(S)
<1>1. q \in SetToSeqs(S)
  BY SortExists DEF Sorted
<1>2. n \in Nat
  BY FS_CardinalityType
<1>3. q \in [1..n -> S] /\ \A i, j \in 1..n : i # j => q[i] # q[j]
  BY <1>1 DEF SetToSeqs
<1> HIDE DEF q
<1>4. q \in Injection(1..n, S)
  BY <1>3 DEF Injection, IsInjective
<1>5. Cardinality(1..n) = Cardinality(S)
  BY <1>2, FS_Interval
<1>6. q \in Surjection(1..n, S)
  BY <1>4, <1>5, FS_Injection
<1>7. Range(q) = S
  BY <1>3, <1>6 DEF Surjection, Range
<1>8. QED
  BY <1>7 DEF q

\* The first n numbers are n.
LEMMA IntervalCount ==
  ASSUME NEW n \in Nat
  PROVE  IsFiniteSet(1..n) /\ Cardinality(1..n) = n
  BY FS_Interval

\* The elements of a sequence are finitely many; of an injective one, as many as
\* it is long.
LEMMA RangeCount ==
  ASSUME NEW S, NEW q \in Seq(S)
  PROVE  /\ IsFiniteSet(Range(q))
         /\ IsInjective(q) => Cardinality(Range(q)) = Len(q)
<1>1. q \in [1..Len(q) -> Range(q)] /\ Len(q) \in Nat
  BY DEF Range
<1>2. q \in Surjection(1..Len(q), Range(q))
  BY <1>1 DEF Surjection, Range
<1>3. IsFiniteSet(1..Len(q)) /\ Cardinality(1..Len(q)) = Len(q)
  BY <1>1, IntervalCount
<1>4. IsInjective(q) => q \in Injection(1..Len(q), Range(q))
  BY <1>1 DEF Injection
<1>5. QED
  BY <1>2, <1>3, <1>4, FS_Surjection

---------------------------------------------------------------------------
(* Round trips *)

LEMMA ThreadRoundTrip ==
  ASSUME NEW s \in ThreadStates, IsFiniteSet(s.dedup)
  PROVE  LoadState(DumpState(s)) = s
<1> DEFINE d == [s EXCEPT !.dedup = Sorted(@)]
<1>1. DOMAIN s = {"chat_id", "dedup", "dedup_order"} /\ s.dedup \in SUBSET Nat
  BY KeyAssumption DEF ThreadStates
<1>2. DumpState(s) = d
  BY <1>1 DEF DumpState
<1>3. DOMAIN d = {"chat_id", "dedup", "dedup_order"} /\ d.dedup = Sorted(s.dedup)
  BY <1>1
<1>4. d # <<>>
  BY <1>3, DOMAIN <<>> = {}
<1>5. LoadState(d) = [d EXCEPT !.dedup = Range(@)]
  BY <1>3, <1>4 DEF LoadState
<1>6. Range(d.dedup) = s.dedup
  BY <1>1, <1>3, SortedRange
<1>7. [d EXCEPT !.dedup = Range(@)] = s
  BY <1>6 DEF ThreadStates
<1>8. QED
  BY <1>2, <1>5, <1>7

LEMMA AppRoundTrip ==
  ASSUME NEW s \in AppStates, IsFiniteSet(s.bound_threads)
  PROVE  LoadState(DumpState(s)) = s
<1> DEFINE d == [s EXCEPT !.bound_threads = Sorted(@)]
<1>1. DOMAIN s = {"bound_threads", "active", "last_chat_id"} /\ s.bound_threads \in SUBSET Nat
  BY KeyAssumption DEF AppStates
<1>2. DumpState(s) = d
  BY <1>1 DEF DumpState
<1>3. DOMAIN d = {"bound_threads", "active", "last_chat_id"} /\ d.bound_threads = Sorted(s.bound_threads)
  BY <1>1
<1>4. d # <<>>
  BY <1>3, DOMAIN <<>> = {}
<1>5. LoadState(d) = [d EXCEPT !.bound_threads = Range(@)]
  BY <1>3, <1>4 DEF LoadState
<1>6. Range(d.bound_threads) = s.bound_threads
  BY <1>1, <1>3, SortedRange
<1>7. [d EXCEPT !.bound_threads = Range(@)] = s
  BY <1>6 DEF AppStates
<1>8. QED
  BY <1>2, <1>5, <1>7

---------------------------------------------------------------------------
(* feishu_thread *)

\* The list after one more id: `gone` is 1 when the oldest left, else 0.
AddedTo(n, s, m, gone) ==
  LET len == Len(s.dedup_order) + 1 - gone IN
    /\ n.dedup_order \in Seq(Messages) /\ Len(n.dedup_order) = len
    /\ n.dedup_order[len] = m
    /\ \A b \in 1..(len - 1) : n.dedup_order[b] = s.dedup_order[b + gone]
    /\ gone = 0 => Len(s.dedup_order) < DedupCap /\ n.dedup = s.dedup \cup {m}
    /\ gone = 1 => /\ Len(s.dedup_order) = DedupCap
                   /\ n.dedup = (s.dedup \cup {m}) \ {s.dedup_order[1]}

LEMMA AddDedup ==
  ASSUME NEW s \in ThreadStates, DedupCoherent(s), NEW m \in Messages
  PROVE  /\ WithAddedDedup(s, m) \in ThreadStates
         /\ \E gone \in {0, 1} : AddedTo(WithAddedDedup(s, m), s, m, gone)
<1> DEFINE order == Append(s.dedup_order, m)
           n == WithAddedDedup(s, m)
<1>1. /\ s.dedup_order \in Seq(Messages) /\ s.dedup \in SUBSET Messages
      /\ Len(s.dedup_order) \in Nat /\ Len(s.dedup_order) <= DedupCap
      /\ DedupCap \in Nat \ {0}
  BY HandlerBoundAssumption DEF ThreadStates, DedupCoherent
<1>2. /\ order \in Seq(Messages) /\ Len(order) = Len(s.dedup_order) + 1
      /\ order[Len(order)] = m /\ \A b \in 1..Len(s.dedup_order) : order[b] = s.dedup_order[b]
  BY <1>1
<1>3. CASE ~Evicts(order)
  <2>1. n = [s EXCEPT !.dedup = @ \cup {m}, !.dedup_order = order]
    BY <1>3 DEF WithAddedDedup
  <2>2. n.dedup = s.dedup \cup {m} /\ n.dedup_order = order /\ n \in ThreadStates
    BY <1>1, <1>2, <2>1 DEF ThreadStates
  <2>3. Len(s.dedup_order) < DedupCap
    BY <1>1, <1>2, <1>3 DEF Evicts
  <2>4. AddedTo(n, s, m, 0)
    BY <1>1, <1>2, <2>2, <2>3 DEF AddedTo
  <2>5. QED
    BY <2>2, <2>4
<1>4. CASE Evicts(order)
  <2>1. n = [s EXCEPT !.dedup = (@ \cup {m}) \ {Head(order)}, !.dedup_order = Tail(order)]
    BY <1>4 DEF WithAddedDedup
  <2>2. Len(s.dedup_order) = DedupCap
    BY <1>1, <1>2, <1>4 DEF Evicts
  <2>3. /\ Head(order) = s.dedup_order[1]
        /\ Tail(order) \in Seq(Messages) /\ Len(Tail(order)) = Len(s.dedup_order)
        /\ \A b \in 1..Len(s.dedup_order) : Tail(order)[b] = order[b + 1]
    BY <1>1, <1>2, <2>2
  <2>4. n.dedup = (s.dedup \cup {m}) \ {s.dedup_order[1]} /\ n.dedup_order = Tail(order) /\ n \in ThreadStates
    <3>1. n.dedup = (s.dedup \cup {m}) \ {s.dedup_order[1]} /\ n.dedup_order = Tail(order)
      BY <2>1, <2>3 DEF ThreadStates
    <3>2. (s.dedup \cup {m}) \ {Head(order)} \in SUBSET Messages
      BY <1>1
    <3>3. n \in ThreadStates
      BY <2>1, <2>3, <3>2 DEF ThreadStates
    <3>4. QED
      BY <3>1, <3>3
  <2>5. AddedTo(n, s, m, 1)
    BY <1>1, <1>2, <2>2, <2>3, <2>4 DEF AddedTo
  <2>6. QED
    BY <2>4, <2>5
<1>5. QED
  BY <1>3, <1>4

\* The set stays what the list holds, without a repetition, within the cap.
LEMMA AddedCoherent ==
  ASSUME NEW s \in ThreadStates, DedupCoherent(s), NEW m \in Messages, m \notin s.dedup,
         NEW n, NEW gone \in {0, 1}, AddedTo(n, s, m, gone)
  PROVE  DedupCoherent(n)
<1> DEFINE q == s.dedup_order
           len == Len(q) + 1 - gone
<1>1. /\ q \in Seq(Messages) /\ Len(q) \in Nat /\ Len(q) <= DedupCap /\ DedupCap \in Nat \ {0}
      /\ s.dedup = Range(q) /\ DOMAIN q = 1..Len(q)
      /\ \A a, b \in 1..Len(q) : q[a] = q[b] => a = b
  BY HandlerBoundAssumption DEF ThreadStates, DedupCoherent, IsInjective
<1>2. /\ n.dedup_order \in Seq(Messages) /\ Len(n.dedup_order) = len /\ DOMAIN n.dedup_order = 1..len
      /\ n.dedup_order[len] = m
      /\ \A b \in 1..(len - 1) : n.dedup_order[b] = q[b + gone]
  BY DEF AddedTo
<1>3. \A b \in 1..Len(q) : q[b] # m
  BY <1>1 DEF Range
<1>4. Len(n.dedup_order) <= DedupCap
  BY <1>1, <1>2 DEF AddedTo
<1>5. IsInjective(n.dedup_order)
  <2>1. ASSUME NEW a \in 1..len, NEW b \in 1..len, n.dedup_order[a] = n.dedup_order[b]
        PROVE a = b
    <3>1. \A c \in 1..(len - 1) : c + gone \in 1..Len(q) /\ n.dedup_order[c] # m
      <4>1. ASSUME NEW c \in 1..(len - 1)  PROVE c + gone \in 1..Len(q)
        BY <1>1, gone = 0 \/ gone = 1
      <4>2. QED
        BY <1>2, <1>3, <4>1
    <3>2. CASE a = len \/ b = len
      <4>1. len \in Int /\ \A c \in 1..len : c = len \/ c \in 1..(len - 1)
        BY <1>1
      <4>2. QED
        BY <1>2, <2>1, <3>1, <3>2, <4>1
    <3>3. CASE a \in 1..(len - 1) /\ b \in 1..(len - 1)
      <4>1. q[a + gone] = q[b + gone]
        BY <1>2, <2>1, <3>3
      <4>2. a + gone = b + gone
        BY <1>1, <3>1, <3>3, <4>1
      <4>3. QED
        BY <4>2
    <3>4. QED
      BY <1>1, <3>2, <3>3
  <2>2. QED
    BY <1>2, <2>1 DEF IsInjective
<1>6. n.dedup = Range(n.dedup_order)
  <2>1. CASE gone = 0
    <3>1. n.dedup = Range(q) \cup {m}
      BY <1>1, <2>1 DEF AddedTo
    <3>2. \A b \in 1..Len(q) : n.dedup_order[b] = q[b]
      BY <1>1, <1>2, <2>1
    <3>3. len = Len(q) + 1
      BY <1>1, <2>1
    <3>4. ASSUME NEW x \in Range(n.dedup_order)  PROVE x \in n.dedup
      <4>1. PICK b \in 1..len : x = n.dedup_order[b]
        BY <1>2 DEF Range
      <4>2. CASE b = len
        BY <1>2, <3>1, <4>1, <4>2
      <4>3. CASE b # len
        <5>1. b \in 1..Len(q)
          BY <1>1, <3>3, <4>3
        <5>2. QED
          BY <1>1, <3>1, <3>2, <4>1, <5>1 DEF Range
      <4>4. QED
        BY <4>2, <4>3
    <3>5. ASSUME NEW x \in n.dedup  PROVE x \in Range(n.dedup_order)
      <4>1. len \in 1..len /\ \A b \in 1..Len(q) : b \in 1..len
        BY <1>1, <3>3
      <4>2. CASE x = m
        BY <1>2, <4>1, <4>2 DEF Range
      <4>3. CASE x # m
        <5>1. PICK b \in 1..Len(q) : x = q[b]
          BY <1>1, <3>1, <3>5, <4>3 DEF Range
        <5>2. b \in DOMAIN n.dedup_order /\ n.dedup_order[b] = x
          BY <1>2, <3>2, <4>1, <5>1
        <5>3. QED
          BY <5>2 DEF Range
      <4>4. QED
        BY <4>2, <4>3
    <3>6. QED
      BY <3>4, <3>5
  <2>2. CASE gone = 1
    <3>1. n.dedup = (Range(q) \cup {m}) \ {q[1]} /\ Len(q) = DedupCap
      BY <1>1, <2>2 DEF AddedTo
    <3>2. \A b \in 1..(Len(q) - 1) : n.dedup_order[b] = q[b + 1]
      BY <1>1, <1>2, <2>2
    <3>3. len = Len(q) /\ n.dedup_order[Len(q)] = m /\ 1 \in 1..Len(q)
      BY <1>1, <1>2, <2>2, <3>1
    <3>4. ASSUME NEW x \in Range(n.dedup_order)  PROVE x \in n.dedup
      <4>1. PICK b \in 1..Len(q) : x = n.dedup_order[b]
        BY <1>2, <3>3 DEF Range
      <4>2. CASE b = Len(q)
        BY <1>3, <3>1, <3>3, <4>1, <4>2
      <4>3. CASE b \in 1..(Len(q) - 1)
        <5>1. x = q[b + 1] /\ b + 1 \in 1..Len(q) /\ b + 1 # 1
          BY <1>1, <3>2, <4>1, <4>3
        <5>2. x \in Range(q) /\ x # q[1]
          BY <1>1, <3>3, <5>1 DEF Range
        <5>3. QED
          BY <3>1, <5>2
      <4>4. QED
        BY <1>1, <4>2, <4>3
    <3>5. ASSUME NEW x \in n.dedup  PROVE x \in Range(n.dedup_order)
      <4>1. CASE x = m
        BY <1>2, <3>3, <4>1 DEF Range
      <4>2. CASE x # m
        <5>1. x \in Range(q) /\ x # q[1]
          BY <3>1, <3>5, <4>2
        <5>2. PICK b \in 1..Len(q) : x = q[b]
          BY <1>1, <5>1 DEF Range
        <5>3. b - 1 \in 1..(Len(q) - 1) /\ (b - 1) + 1 = b
          BY <1>1, <5>1, <5>2
        <5>4. n.dedup_order[b - 1] = x
          BY <3>2, <5>2, <5>3
        <5>5. b - 1 \in DOMAIN n.dedup_order
          BY <1>1, <1>2, <3>3, <5>3
        <5>6. QED
          BY <5>4, <5>5 DEF Range
      <4>3. QED
        BY <4>1, <4>2
    <3>6. QED
      BY <3>4, <3>5
  <2>3. QED
    BY <2>1, <2>2
<1>7. QED
  BY <1>4, <1>5, <1>6 DEF DedupCoherent

\* The chat of the first message is kept; nothing else changes with it.
LEMMA ChatKept ==
  ASSUME NEW n \in ThreadStates, NEW chat \in Chats \cup {NoChat}
  PROVE  /\ WithChatId(n, chat) \in ThreadStates
         /\ WithChatId(n, chat).dedup = n.dedup
         /\ WithChatId(n, chat).dedup_order = n.dedup_order
  BY DEF WithChatId, ThreadStates

\* What on_msg() makes of an event: the list unchanged and no message notified, or
\* a message that is not listed, notified and added.
Untouched(s, r) ==
  /\ r.state.dedup = s.dedup /\ r.state.dedup_order = s.dedup_order
  /\ r.actions = <<>> \/ \E a : r.actions = <<a>> /\ ~IsNotify(SerialiseAction(a))

Added(s, r) ==
  \E m \in Messages, gone \in {0, 1} :
    /\ m \notin s.dedup /\ m # NoMessage
    /\ r.actions = <<Action("Emit", "notify_session", m)>>
    /\ AddedTo(r.state, s, m, gone)

LEMMA SerialisedFields ==
  ASSUME NEW c, NEW n, NEW a
  PROVE  /\ SerialiseAction(Action(c, n, a)).name = n
         /\ SerialiseAction(Action(c, n, a)).arg = a
  BY DEF SerialiseAction, Action

LEMMA ThreadOutcome ==
  ASSUME module = "feishu_thread", NEW s \in ThreadStates, DedupCoherent(s), NEW e \in Events
  PROVE  LET r == OnMsg(s, e) IN
           /\ r.state \in ThreadStates /\ DedupCoherent(r.state)
           /\ Untouched(s, r) \/ Added(s, r)
<1> DEFINE r == OnMsg(s, e)
           Good == /\ r.state \in ThreadStates /\ DedupCoherent(r.state)
                   /\ Untouched(s, r) \/ Added(s, r)
<1>1. \/ e.event_type \in {"other", "cc_output"}
      \/ /\ e.event_type = "msg_received" /\ e.message_id \in Messages \cup {NoMessage}
         /\ e.chat_id \in Chats \cup {NoChat}
  BY DEF Events, OtherEvent
<1>2. ASSUME r = Result(s, <<>>)  PROVE Good
  <2>1. r.state = s /\ r.actions = <<>>
    BY <1>2 DEF Result
  <2>2. QED
    BY <2>1 DEF Untouched
<1>3. CASE e.event_type = "other"
  BY <1>2, <1>3 DEF OnMsg
<1>4. CASE e.event_type = "cc_output"
  <2>1. r = HandleOutbound(s)
    BY <1>4 DEF OnMsg, FeishuThreadOnMsg
  <2>2. CASE s.chat_id = NoChat
    BY <1>2, <2>1, <2>2 DEF HandleOutbound
  <2>3. CASE s.chat_id # NoChat
    <3> DEFINE a == Action("Emit", "send_message", s.chat_id)
    <3>1. r.state = s /\ r.actions = <<a>>
      BY <2>1, <2>3 DEF HandleOutbound, Result
    <3>2. SerialiseAction(a).name = "send_message"
      BY SerialisedFields
    <3>3. ~IsNotify(SerialiseAction(a))
      BY <3>2 DEF IsNotify
    <3> HIDE DEF a
    <3>4. QED
      BY <3>1, <3>3 DEF Untouched
  <2>4. QED
    BY <2>2, <2>3
<1>5. CASE /\ e.event_type = "msg_received" /\ e.message_id \in Messages \cup {NoMessage}
           /\ e.chat_id \in Chats \cup {NoChat}
  <2> DEFINE m == e.message_id
             a == Action("Emit", "notify_session", m)
  <2>1. r = HandleInbound(s, e)
    BY <1>5 DEF OnMsg, FeishuThreadOnMsg
  <2>2. CASE m # NoMessage /\ m \in s.dedup
    BY <1>2, <2>1, <2>2 DEF HandleInbound
  <2>3. CASE m = NoMessage
    <3>1. r.state = WithChatId(s, e.chat_id) /\ r.actions = <<a>>
      BY <2>1, <2>3 DEF HandleInbound, Result
    <3>2. SerialiseAction(a).arg = NoMessage
      BY <2>3, SerialisedFields
    <3>3. ~IsNotify(SerialiseAction(a))
      BY <3>2 DEF IsNotify
    <3> HIDE DEF a
    <3>4. r.state \in ThreadStates /\ r.state.dedup = s.dedup /\ r.state.dedup_order = s.dedup_order
      BY <1>5, <3>1, ChatKept
    <3>5. QED
      BY <3>1, <3>3, <3>4 DEF Untouched, DedupCoherent
  <2>4. CASE m # NoMessage /\ m \notin s.dedup
    <3> DEFINE n == WithAddedDedup(s, m)
    <3>1. r.state = WithChatId(n, e.chat_id) /\ r.actions = <<a>>
      BY <2>1, <2>4 DEF HandleInbound, Result
    <3>2. m \in Messages
      BY <1>5, <2>4
    <3>3. n \in ThreadStates /\ \E gone \in {0, 1} : AddedTo(n, s, m, gone)
      BY <3>2, AddDedup
    <3>4. PICK gone \in {0, 1} : AddedTo(n, s, m, gone)
      BY <3>3
    <3>5. DedupCoherent(n)
      BY <2>4, <3>2, <3>4, AddedCoherent
    <3> HIDE DEF n, a
    <3>6. r.state \in ThreadStates /\ r.state.dedup = n.dedup /\ r.state.dedup_order = n.dedup_order
      BY <1>5, <3>1, <3>3, ChatKept
    <3>7. AddedTo(r.state, s, m, gone)
      BY <3>4, <3>6 DEF AddedTo
    <3>8. DedupCoherent(r.state)
      BY <3>5, <3>6 DEF DedupCoherent
    <3>9. Added(s, r)
      BY <2>4, <3>1, <3>2, <3>7 DEF Added, a
    <3>10. QED
      BY <3>6, <3>8, <3>9
  <2>5. QED
    BY <2>2, <2>3, <2>4
<1>6. QED
  BY <1>1, <1>3, <1>4, <1>5

---------------------------------------------------------------------------
(* feishu_app *)

LEMMA AppOutcome ==
  ASSUME module = "feishu_app", NEW e \in Events,
         NEW s \in AppStates, IsFiniteSet(s.bound_threads), ActiveBound(s)
  PROVE  LET n == OnMsg(s, e).state IN
           n \in AppStates /\ IsFiniteSet(n.bound_threads) /\ ActiveBound(n)
<1> DEFINE Good(n) == n \in AppStates /\ IsFiniteSet(n.bound_threads) /\ ActiveBound(n)
           m == IF e.chat_id = NoChat THEN s ELSE [s EXCEPT !.last_chat_id = e.chat_id]
<1>1. \/ e.event_type = "other"
      \/ /\ e.event_type = "msg_received" /\ e.chat_id \in {AppChat, NoChat}
         /\ e.content.name \in Threads \cup {NoThread, Slug}
  <2>1. \A c \in Contents : c.name \in Threads \cup {NoThread}
    BY DEF Contents
  <2>2. NewThread.name = Slug
    BY DEF NewThread
  <2>3. QED
    BY <2>1, <2>2 DEF Events, OtherEvent
<1>2. CASE e.event_type = "other"
  BY <1>2 DEF OnMsg, Result
<1>3. CASE e.event_type # "other"
  <2>1. e.chat_id \in {AppChat, NoChat} /\ e.content.name \in Threads \cup {NoThread, Slug}
    BY <1>1, <1>3
  <2>2. /\ m \in AppStates /\ m.bound_threads = s.bound_threads /\ m.active = s.active
    BY <2>1 DEF AppStates
  <2>3. Good(m)
    BY <2>2 DEF ActiveBound
  <2> HIDE DEF m
  <2>4. HandleAtRouted(m, e).state = m /\ HandleActive(m, e).state = m
    BY DEF HandleAtRouted, HandleActive, Result
  <2>5. Good(HandleNewSession(m, e).state)
    <3> DEFINE t == IF e.content.name # NoThread THEN e.content.name ELSE Slug
               n == WithThread(m, e.chat_id, t)
    <3>1. t \in Threads \cup {Slug}
      BY <2>1
    <3>2. /\ n.bound_threads = m.bound_threads \cup {t}
          /\ n.active = IF e.chat_id = NoChat THEN m.active ELSE [m.active EXCEPT ![e.chat_id] = t]
          /\ n.last_chat_id = m.last_chat_id
      BY <2>2 DEF WithThread, AppStates
    <3>3. n.active \in [Chats -> Threads \cup {Slug, NoThread}]
      BY <2>2, <3>1, <3>2 DEF AppStates
    <3>4. n.bound_threads \in SUBSET (Threads \cup {Slug})
      BY <2>2, <3>1, <3>2 DEF AppStates
    <3>5. n \in AppStates
      BY <2>2, <3>2, <3>3, <3>4 DEF AppStates, WithThread
    <3>6. IsFiniteSet(n.bound_threads)
      BY <2>3, <3>2, FS_AddElement
    <3>7. ActiveBound(n)
      BY <2>2, <2>3, <3>2 DEF ActiveBound, AppStates
    <3> HIDE DEF n
    <3>8. HandleNewSession(m, e).state \in {m, n}
      BY DEF HandleNewSession, Result, n
    <3>9. QED
      BY <2>3, <3>5, <3>6, <3>7, <3>8
  <2>6. OnMsg(s, e) = FeishuAppOnMsg(s, e)
    BY <1>3 DEF OnMsg
  <2>7. FeishuAppOnMsg(s, e) \in {HandleNewSession(m, e), HandleAtRouted(m, e), HandleActive(m, e)}
    BY DEF FeishuAppOnMsg, m
  <2> HIDE DEF Good
  <2>8. Good(OnMsg(s, e).state)
    BY <2>3, <2>4, <2>5, <2>6, <2>7
  <2>9. QED
    BY <2>8 DEF Good
<1>4. QED
  BY <1>2, <1>3

---------------------------------------------------------------------------
(* The actor's state, and what it was told to notify *)

\* No other handler notifies a session.
LEMMA OthersDoNotNotify ==
  ASSUME module # "feishu_thread", NEW s, NEW e, NEW a, OnMsg(s, e).actions = <<a>>
  PROVE  ~IsNotify(SerialiseAction(a))
<1> DEFINE Silent(r) == \A b : r.actions = <<b>> => SerialiseAction(b).name # "notify_session"
<1>1. \A t : Silent(Result(t, <<>>))
  BY DEF Result
<1>2. ASSUME NEW t, NEW c, NEW n, NEW x, n # "notify_session"
      PROVE Silent(Result(t, <<Action(c, n, x)>>))
  <2>1. Result(t, <<Action(c, n, x)>>).actions = <<Action(c, n, x)>>
    BY DEF Result
  <2>2. \A b : <<Action(c, n, x)>> = <<b>> => b = Action(c, n, x)
    OBVIOUS
  <2>3. QED
    BY <1>2, <2>1, <2>2, SerialisedFields
<1> HIDE DEF Silent
<1>3. \A t : Silent(FeishuAppOnMsg(t, e))
  BY <1>1, <1>2 DEF FeishuAppOnMsg, HandleNewSession, HandleAtRouted, HandleActive
<1>4. Silent(CcSessionOnMsg(s)) /\ Silent(CcAdapterRunnerOnMsg(s))
  BY <1>1, <1>2 DEF CcSessionOnMsg, CcAdapterRunnerOnMsg
<1>5. Silent(OnMsg(s, e))
  BY <1>1, <1>3, <1>4 DEF OnMsg
<1>6. QED
  BY <1>5 DEF Silent, IsNotify

LEMMA StateInit == Init => StateInv
<1> SUFFICES ASSUME Init  PROVE StateInv
  OBVIOUS
<1>1. module \in Modules /\ dispatched = <<>>
  BY DEF Init
<1>2. DOMAIN dispatched = {}
  BY <1>1
<1>3. module # "cc_session" => committed.fields = <<>>
  BY DEF Init
<1>4. CASE module = "feishu_thread"
  <2>1. Loaded = [chat_id |-> NoChat, dedup |-> {}, dedup_order |-> <<>>]
    BY <1>3, <1>4 DEF Loaded, LoadState, Defaults
  <2>2. Loaded \in ThreadStates
    BY <2>1 DEF ThreadStates
  <2>3. DedupCoherent(Loaded)
    BY <2>1, EmptyOwn, HandlerBoundAssumption DEF DedupCoherent, IsInjective
  <2>4. QED
    BY <1>1, <1>2, <1>4, <2>2, <2>3 DEF StateInv, Tracked
<1>5. CASE module = "feishu_app"
  <2>1. Loaded = [bound_threads |-> {}, active |-> [c \in Chats |-> NoThread], last_chat_id |-> NoChat]
    BY <1>3, <1>5 DEF Loaded, LoadState, Defaults
  <2>2. Loaded \in AppStates
    BY <2>1 DEF AppStates
  <2>3. IsFiniteSet(Loaded.bound_threads) /\ ActiveBound(Loaded)
    BY <2>1, FS_EmptySet DEF ActiveBound
  <2>4. QED
    BY <1>1, <1>2, <1>5, <2>2, <2>3 DEF StateInv
<1>6. QED
  BY <1>1, <1>2, <1>4, <1>5 DEF StateInv

\* The history grows at its end.
LEMMA Grown ==
  ASSUME NEW q, IsSeq(q), NEW a
  PROVE  /\ q \o <<>> = q
         /\ Len(q) \in Nat /\ DOMAIN q = 1..Len(q)
         /\ Len(q \o <<a>>) = Len(q) + 1 /\ DOMAIN (q \o <<a>>) = 1..(Len(q) + 1)
         /\ (q \o <<a>>)[Len(q) + 1] = a
         /\ \A i \in 1..Len(q) : (q \o <<a>>)[i] = q[i]
<1>1. q \in Seq(Range(q) \cup {a}) /\ <<a>> \in Seq(Range(q) \cup {a})
  BY DEF IsSeq
<1>2. Len(<<a>>) = 1 /\ <<a>>[1] = a
  OBVIOUS
<1>3. QED
  BY <1>1, <1>2

\* One action more.
Dispatched(a) ==
  /\ Len(dispatched) \in Nat /\ DOMAIN dispatched = 1..Len(dispatched)
  /\ Len(dispatched') = Len(dispatched) + 1 /\ DOMAIN dispatched' = 1..(Len(dispatched) + 1)
  /\ dispatched'[Len(dispatched) + 1] = a
  /\ \A i \in 1..Len(dispatched) : dispatched'[i] = dispatched[i]

LEMMA DispatchOne ==
  ASSUME IsSeq(dispatched), NEW a, dispatched' = dispatched \o <<a>>
  PROVE  Dispatched(a)
  BY Grown DEF Dispatched

LEMMA NotifiedKept ==
  ASSUME NEW a, Dispatched(a), NEW from \in Nat \ {0}, NEW to \in 0..Len(dispatched)
  PROVE  /\ NotifiedIn(from, to)' = NotifiedIn(from, to)
         /\ NotifiedIn(from, Len(dispatched)) \subseteq NotifiedIn(from, Len(dispatched))'
         /\ IsNotify(a) /\ from <= Len(dispatched) + 1 => a.arg \in NotifiedIn(from, Len(dispatched))'
<1>1. \A k \in from..Len(dispatched) : dispatched'[k] = dispatched[k]
  BY DEF Dispatched
<1>2. \A k \in from..to : k \in from..Len(dispatched)
  BY DEF Dispatched
<1>3. \A k \in from..Len(dispatched) : k \in from..Len(dispatched')
  BY DEF Dispatched
<1>4. NotifiedIn(from, to)' = NotifiedIn(from, to)
  BY <1>1, <1>2 DEF NotifiedIn
<1>5. NotifiedIn(from, Len(dispatched)) \subseteq NotifiedIn(from, Len(dispatched))'
  BY <1>1, <1>3 DEF NotifiedIn
<1>6. ASSUME IsNotify(a), from <= Len(dispatched) + 1
      PROVE a.arg \in NotifiedIn(from, Len(dispatched))'
  <2>1. Len(dispatched) + 1 \in from..Len(dispatched') /\ dispatched'[Len(dispatched) + 1] = a
    BY <1>6 DEF Dispatched
  <2>2. QED
    BY <1>6, <2>1 DEF NotifiedIn
<1>7. QED
  BY <1>4, <1>5, <1>6

\* An event that leaves the list alone.
LEMMA UntouchedTracked ==
  ASSUME NEW s, NEW t, t.dedup = s.dedup, t.dedup_order = s.dedup_order, Tracked(s),
         \/ UNCHANGED dispatched
         \/ \E a : Dispatched(a) /\ ~IsNotify(a)
  PROVE  Tracked(t)'
<1>1. CASE UNCHANGED dispatched
  BY <1>1 DEF Tracked, Evicted, Listed, NotifiedIn
<1>2. ASSUME NEW a, Dispatched(a), ~IsNotify(a)  PROVE Tracked(t)'
  <2>1. SUFFICES ASSUME NEW i \in DOMAIN dispatched', IsNotify(dispatched'[i])
                 PROVE (Evicted(i, t) \/ Listed(i, t))'
    BY DEF Tracked, Evicted, Listed, NotifiedIn
  <2>2. i \in DOMAIN dispatched /\ dispatched'[i] = dispatched[i] /\ i + 1 \in Nat \ {0}
    BY <1>2, <2>1 DEF Dispatched
  <2>3. NotifiedIn(i + 1, Len(dispatched)) \subseteq NotifiedIn(i + 1, Len(dispatched))'
    BY <1>2, <2>2, NotifiedKept, 0 \in 0..Len(dispatched) DEF Dispatched
  <2>4. Evicted(i, s) \/ Listed(i, s)
    BY <2>1, <2>2 DEF Tracked
  <2>5. QED
    BY <2>2, <2>3, <2>4 DEF Evicted, Listed
<1>3. QED
  BY <1>1, <1>2

\* A message that is notified and added to the list.
LEMMA AddedTracked ==
  ASSUME NEW s \in ThreadStates, DedupCoherent(s), Tracked(s),
         NEW t, DedupCoherent(t), NEW m \in Messages, NEW gone \in {0, 1}, AddedTo(t, s, m, gone),
         NEW a, Dispatched(a), IsNotify(a), a.arg = m
  PROVE  Tracked(t)'
<1> DEFINE q == s.dedup_order
           p == t.dedup_order
           len == Len(q) + 1 - gone
<1>1. /\ q \in Seq(Messages) /\ Len(q) \in Nat /\ DOMAIN q = 1..Len(q) /\ DedupCap \in Nat \ {0}
      /\ s.dedup = Range(q) /\ t.dedup = Range(p)
  BY HandlerBoundAssumption DEF ThreadStates, DedupCoherent
<1>2. /\ p \in Seq(Messages) /\ Len(p) = len /\ DOMAIN p = 1..len /\ len \in Nat /\ p[len] = m
      /\ \A b \in 1..(len - 1) : p[b] = q[b + gone]
      /\ len \in 1..len
  BY <1>1 DEF AddedTo
<1>3. SUFFICES ASSUME NEW i \in DOMAIN dispatched', IsNotify(dispatched'[i])
               PROVE (Evicted(i, t) \/ Listed(i, t))'
  BY DEF Tracked, Evicted, Listed, NotifiedIn
<1>4. i \in Nat \ {0} /\ i + 1 \in Nat \ {0} /\ Len(dispatched) \in Nat
  BY <1>3 DEF Dispatched
<1> DEFINE After == NotifiedIn(i + 1, Len(dispatched))
<1>5. CASE i = Len(dispatched) + 1
  <2>1. dispatched'[i] = a
    BY <1>5 DEF Dispatched
  <2>2. \A b \in (len + 1)..Len(p) : FALSE
    BY <1>2
  <2>3. Listed(i, t)'
    BY <1>2, <2>1, <2>2 DEF Listed
  <2>4. QED
    BY <2>3
<1>6. CASE i \in 1..Len(dispatched)
  <2>1. i \in DOMAIN dispatched /\ dispatched'[i] = dispatched[i] /\ i + 1 <= Len(dispatched) + 1
    BY <1>4, <1>6 DEF Dispatched
  <2>2. After \subseteq After' /\ m \in After'
    BY <1>4, <2>1, NotifiedKept, 0 \in 0..Len(dispatched) DEF Dispatched
  <2>3. Evicted(i, s) \/ Listed(i, s)
    BY <1>3, <2>1 DEF Tracked
  <2>4. CASE dispatched[i].arg = m
    <3>1. \A b \in (len + 1)..Len(p) : FALSE
      BY <1>2
    <3>2. Listed(i, t)'
      BY <1>2, <2>1, <2>4, <3>1 DEF Listed
    <3>3. QED
      BY <3>2
  <2>5. CASE Evicted(i, s) /\ dispatched[i].arg # m
    <3>1. dispatched[i].arg \notin s.dedup /\ Len(q) = DedupCap /\ s.dedup \subseteq After
      BY <2>5 DEF Evicted
    <3>2. gone = 1
      BY <3>1, <1>1 DEF AddedTo
    <3>3. t.dedup = (s.dedup \cup {m}) \ {q[1]} /\ Len(p) = DedupCap
      BY <1>1, <1>2, <3>1, <3>2 DEF AddedTo
    <3>4. dispatched'[i].arg \notin t.dedup /\ t.dedup \subseteq After'
      BY <2>1, <2>2, <2>5, <3>1, <3>3
    <3>5. Evicted(i, t)'
      BY <3>3, <3>4 DEF Evicted
    <3>6. QED
      BY <3>5
  <2>6. CASE Listed(i, s) /\ dispatched[i].arg # m
    <3>1. PICK c \in 1..Len(q) : /\ q[c] = dispatched[i].arg
                                 /\ \A b \in (c + 1)..Len(q) : q[b] \in After
      BY <1>1, <2>6 DEF Listed
    <3>2. CASE c - gone >= 1
      <4>1. c - gone \in 1..(len - 1) /\ (c - gone) + gone = c
        BY <1>1, <3>1, <3>2
      <4>2. p[c - gone] = dispatched'[i].arg
        BY <1>2, <2>1, <3>1, <4>1
      <4>3. ASSUME NEW b \in (c - gone + 1)..Len(p)  PROVE p[b] \in After'
        <5>1. b = len \/ (b \in 1..(len - 1) /\ b + gone \in (c + 1)..Len(q))
          <6>1. b \in Int /\ c - gone + 1 <= b /\ b <= len /\ c \in Int /\ gone \in Int
            BY <1>2, <3>1
          <6>2. CASE b # len
            BY <1>1, <3>2, <6>1, <6>2
          <6>3. QED
            BY <6>2
        <5>2. QED
          BY <1>2, <2>2, <3>1, <5>1
      <4>4. c - gone \in DOMAIN p
        BY <1>1, <1>2, <4>1
      <4>5. Listed(i, t)'
        BY <4>2, <4>3, <4>4 DEF Listed
      <4>6. QED
        BY <4>5
    <3>3. CASE ~(c - gone >= 1)
      <4>1. gone = 1 /\ c = 1
        BY <3>1, <3>3
      <4>2. Len(q) = DedupCap /\ t.dedup = (s.dedup \cup {m}) \ {q[1]} /\ Len(p) = DedupCap
        BY <1>1, <1>2, <4>1 DEF AddedTo
      <4>3. dispatched'[i].arg \notin t.dedup
        BY <2>1, <3>1, <4>1, <4>2
      <4>4. ASSUME NEW x \in t.dedup  PROVE x \in After'
        <5>1. CASE x = m
          BY <2>2, <5>1
        <5>2. CASE x # m
          <6>1. PICK b \in 1..Len(q) : x = q[b]
            BY <1>1, <4>2, <4>4, <5>2 DEF Range
          <6>2. b \in (c + 1)..Len(q)
            BY <1>1, <4>1, <4>2, <4>4, <6>1
          <6>3. QED
            BY <2>2, <3>1, <6>1, <6>2
        <5>3. QED
          BY <5>1, <5>2
      <4>5. Evicted(i, t)'
        BY <4>2, <4>3, <4>4 DEF Evicted
      <4>6. QED
        BY <4>5
    <3>4. QED
      BY <3>2, <3>3
  <2>7. QED
    BY <2>3, <2>4, <2>5, <2>6
<1>7. QED
  BY <1>3, <1>5, <1>6 DEF Dispatched

\* A thread's transition.
LEMMA ThreadStep ==
  ASSUME StateInv, ReplyInv, UNCHANGED module, module = "feishu_thread",
         NEW e \in Events, Commit(e)
  PROVE  (Loaded \in ThreadStates /\ DedupCoherent(Loaded) /\ Tracked(Loaded))'
<1>1. PICK s : s = Loaded
  OBVIOUS
<1>2. PICK r : r = OnMsg(s, e)
  OBVIOUS
<1>3. s \in ThreadStates /\ DedupCoherent(s) /\ Tracked(s)
  BY <1>1 DEF StateInv
<1>4. r.state \in ThreadStates /\ DedupCoherent(r.state) /\ (Untouched(s, r) \/ Added(s, r))
  BY <1>2, <1>3, ThreadOutcome
<1>5. IsFiniteSet(r.state.dedup)
  BY <1>4, RangeCount DEF ThreadStates, DedupCoherent
<1>6. committed'.fields = DumpState(r.state) /\ dispatched' = dispatched \o Serialised(r.actions)
  BY <1>1, <1>2 DEF Commit, Loaded
<1>7. Loaded' = r.state
  <2>1. Loaded' = LoadState(DumpState(r.state))
    BY <1>6 DEF Loaded, LoadState
  <2>2. QED
    BY <1>4, <1>5, <2>1, ThreadRoundTrip
<1>8. \/ r.actions = <<>> /\ Serialised(r.actions) = <<>>
      \/ \E a : r.actions = <<a>> /\ Serialised(r.actions) = <<SerialiseAction(a)>>
  BY <1>2, SerialisedActions
<1>9. \A a : Serialised(r.actions) = <<a>> => Dispatched(a)
  BY <1>6, DispatchOne DEF ReplyInv
<1>10. Tracked(r.state)'
  <2>1. CASE Untouched(s, r)
    <3>1. CASE r.actions = <<>>
      <4>1. UNCHANGED dispatched
        <5>1. Serialised(r.actions) = <<>>
          BY <1>8, <3>1
        <5>2. dispatched \o <<>> = dispatched
          BY Grown DEF ReplyInv
        <5>3. QED
          BY <1>6, <5>1, <5>2
      <4>2. QED
        BY <1>3, <2>1, <4>1, UntouchedTracked DEF Untouched
    <3>2. ASSUME NEW a, r.actions = <<a>>, ~IsNotify(SerialiseAction(a))
          PROVE Tracked(r.state)'
      <4>1. Dispatched(SerialiseAction(a))
        BY <1>8, <1>9, <3>2
      <4>2. QED
        BY <1>3, <2>1, <3>2, <4>1, UntouchedTracked DEF Untouched
    <3>3. QED
      BY <2>1, <3>1, <3>2 DEF Untouched
  <2>2. CASE Added(s, r)
    <3>1. PICK m \in Messages, gone \in {0, 1} :
            /\ m \notin s.dedup /\ m # NoMessage
            /\ r.actions = <<Action("Emit", "notify_session", m)>>
            /\ AddedTo(r.state, s, m, gone)
      BY <2>2 DEF Added
    <3> DEFINE a == SerialiseAction(Action("Emit", "notify_session", m))
    <3>2. IsNotify(a) /\ a.arg = m
      BY <3>1, SerialisedFields DEF IsNotify
    <3> HIDE DEF a
    <3>3. Dispatched(a)
      BY <1>8, <1>9, <3>1 DEF a
    <3>4. QED
      BY <1>3, <1>4, <3>1, <3>2, <3>3, AddedTracked
  <2>3. QED
    BY <1>4, <2>1, <2>2
<1>11. QED
  BY <1>4, <1>7, <1>10 DEF Tracked, Evicted, Listed, NotifiedIn, DedupCoherent

LEMMA StateStep ==
  ASSUME StateInv, ReplyInv, [Next]_vars
  PROVE  StateInv'
<1>1. UNCHANGED module
  BY CommitStep
<1>2. CASE UNCHANGED <<committed, dispatched>>
  <2>1. Loaded' = Loaded
    BY <1>1, <1>2 DEF Loaded, LoadState
  <2>2. Tracked(Loaded)' <=> Tracked(Loaded)
    BY <1>2, <2>1 DEF Tracked, Evicted, Listed, NotifiedIn
  <2>3. QED
    BY <1>1, <1>2, <2>1, <2>2 DEF StateInv, DedupCoherent, ActiveBound
<1>3. ASSUME NEW e \in Events, Commit(e)  PROVE StateInv'
  <2>1. module = "feishu_thread" =>
          (Loaded \in ThreadStates /\ DedupCoherent(Loaded) /\ Tracked(Loaded))'
    BY <1>1, <1>3, ThreadStep
  <2>2. ASSUME module = "feishu_app"
        PROVE (Loaded \in AppStates /\ IsFiniteSet(Loaded.bound_threads) /\ ActiveBound(Loaded))'
    <3>1. PICK n : n = OnMsg(Loaded, e).state
      OBVIOUS
    <3>2. n \in AppStates /\ IsFiniteSet(n.bound_threads) /\ ActiveBound(n)
      BY <2>2, <3>1, AppOutcome DEF StateInv
    <3>3. committed'.fields = DumpState(n)
      BY <1>3, <3>1 DEF Commit, Loaded
    <3>4. Loaded' = LoadState(DumpState(n))
      BY <1>1, <3>3 DEF Loaded, LoadState
    <3>5. Loaded' = n
      BY <3>2, <3>4, AppRoundTrip
    <3>6. QED
      BY <3>2, <3>5 DEF ActiveBound
  <2>3. ASSUME module # "feishu_thread"
        PROVE \A i \in DOMAIN dispatched' : ~IsNotify(dispatched'[i])
    <3> DEFINE acts == OnMsg(LoadState(committed.fields), e).actions
    <3>1. dispatched' = dispatched \o Serialised(acts)
      BY <1>3 DEF Commit
    <3>2. \A i \in DOMAIN dispatched : ~IsNotify(dispatched[i])
      BY <2>3 DEF StateInv
    <3>3. CASE Serialised(acts) = <<>>
      <4>1. dispatched \o <<>> = dispatched
        BY Grown DEF ReplyInv
      <4>2. QED
        BY <3>1, <3>2, <3>3, <4>1
    <3>4. ASSUME NEW a, acts = <<a>>, Serialised(acts) = <<SerialiseAction(a)>>
          PROVE \A i \in DOMAIN dispatched' : ~IsNotify(dispatched'[i])
      <4>1. ~IsNotify(SerialiseAction(a))
        BY <2>3, <3>4, OthersDoNotNotify
      <4>2. Dispatched(SerialiseAction(a))
        BY <3>1, <3>4, DispatchOne DEF ReplyInv
      <4>3. \A i \in 1..(Len(dispatched) + 1) : i = Len(dispatched) + 1 \/ i \in 1..Len(dispatched)
        BY <4>2 DEF Dispatched
      <4>4. QED
        BY <3>2, <4>1, <4>2, <4>3 DEF Dispatched
    <3>5. QED
      BY <3>3, <3>4, SerialisedActions
  <2>4. QED
    BY <1>1, <2>1, <2>2, <2>3 DEF StateInv
<1>4. QED
  BY <1>2, <1>3, CommitStep DEF CallCommits

LEMMA StateInvHolds == Spec => []StateInv
  BY StateInit, StateStep, ReplyInvHolds, PTL DEF Spec

\* Through every round trip to JSON and back the thread's dedup set is what its
\* eviction order lists, within the cap, and a chat's active thread is bound.
THEOREM StateCoherentHolds == Spec => []StateCoherent
<1>1. StateInv => StateCoherent
  <2> SUFFICES ASSUME StateInv  PROVE StateCoherent
    OBVIOUS
  <2>1. ASSUME module = "feishu_thread"
        PROVE /\ Loaded.dedup = Range(Loaded.dedup_order)
              /\ Len(Loaded.dedup_order) = Cardinality(Loaded.dedup)
              /\ Len(Loaded.dedup_order) <= DedupCap
    BY <2>1, RangeCount DEF StateInv, ThreadStates, DedupCoherent
  <2>2. module = "feishu_app" => ActiveBound(Loaded)
    BY DEF StateInv
  <2>3. QED
    BY <2>1, <2>2 DEF StateCoherent, Loaded
<1>2. QED
  BY <1>1, StateInvHolds, PTL

---------------------------------------------------------------------------
(* Deduplication *)

\* Finitely many actions notify finitely many messages.
LEMMA NotifiedFinite ==
  ASSUME NEW from \in Int, NEW to \in Int
  PROVE  IsFiniteSet(NotifiedIn(from, to))
<1> DEFINE K == {k \in from..to : IsNotify(dispatched[k])}
           f == [k \in K |-> dispatched[k].arg]
<1>1. IsFiniteSet(K)
  BY FS_Interval, FS_Subset, K \in SUBSET (from..to)
<1>2. NotifiedIn(from, to) = {f[k] : k \in K}
  BY DEF NotifiedIn
<1>3. f \in Surjection(K, NotifiedIn(from, to))
  BY <1>2 DEF Surjection
<1>4. QED
  BY <1>1, <1>3, FS_Surjection

LEMMA OnceStep ==
  ASSUME NotifiedOnce, StateInv, ReplyInv, [Next]_vars
  PROVE  NotifiedOnce'
<1>1. UNCHANGED module
  BY CommitStep
<1>2. CASE UNCHANGED <<committed, dispatched>>
  BY <1>2 DEF NotifiedOnce, NotifiedIn
<1>3. CASE module # "feishu_thread"
  <2>1. \A i \in DOMAIN dispatched' : ~IsNotify(dispatched'[i])
    BY <1>1, <1>3, StateStep DEF StateInv
  <2>2. QED
    BY <2>1 DEF NotifiedOnce
<1>4. ASSUME module = "feishu_thread", NEW e \in Events, Commit(e)  PROVE NotifiedOnce'
  <2>1. PICK s : s = Loaded
    OBVIOUS
  <2>2. PICK r : r = OnMsg(s, e)
    OBVIOUS
  <2>3. s \in ThreadStates /\ DedupCoherent(s) /\ Tracked(s)
    BY <1>4, <2>1 DEF StateInv
  <2>4. Untouched(s, r) \/ Added(s, r)
    BY <1>4, <2>2, <2>3, ThreadOutcome
  <2>5. dispatched' = dispatched \o Serialised(r.actions)
    BY <1>4, <2>1, <2>2 DEF Commit, Loaded
  <2>6. \/ r.actions = <<>> /\ Serialised(r.actions) = <<>>
        \/ \E a : r.actions = <<a>> /\ Serialised(r.actions) = <<SerialiseAction(a)>>
    BY <2>2, SerialisedActions
  <2>7. CASE Serialised(r.actions) = <<>>
    <3>1. dispatched \o <<>> = dispatched
      BY Grown DEF ReplyInv
    <3>2. UNCHANGED dispatched
      BY <2>5, <2>7, <3>1
    <3>3. QED
      BY <3>2 DEF NotifiedOnce, NotifiedIn
  <2>8. ASSUME NEW b, r.actions = <<b>>, Serialised(r.actions) = <<SerialiseAction(b)>>
        PROVE NotifiedOnce'
    <3>1. PICK a : a = SerialiseAction(b)
      OBVIOUS
    <3>2. Dispatched(a)
      BY <2>5, <2>8, <3>1, DispatchOne DEF ReplyInv
    <3>3. SUFFICES ASSUME NEW i \in DOMAIN dispatched', NEW j \in DOMAIN dispatched', i < j,
                          IsNotify(dispatched'[i]), IsNotify(dispatched'[j]),
                          dispatched'[i].arg = dispatched'[j].arg
                   PROVE Cardinality(NotifiedIn(i + 1, j - 1)') >= DedupCap
      BY DEF NotifiedOnce, NotifiedIn
    <3>4. /\ i \in Nat \ {0} /\ i + 1 \in Nat \ {0} /\ j \in Nat /\ j - 1 \in 0..Len(dispatched)
          /\ i \in DOMAIN dispatched /\ dispatched'[i] = dispatched[i]
          /\ Len(dispatched) \in Nat
      BY <3>2, <3>3 DEF Dispatched
    <3>5. NotifiedIn(i + 1, j - 1)' = NotifiedIn(i + 1, j - 1)
      BY <3>2, <3>4, NotifiedKept
    <3>6. CASE j \in DOMAIN dispatched
      <4>1. dispatched'[j] = dispatched[j]
        BY <3>2, <3>6 DEF Dispatched
      <4>2. QED
        BY <3>3, <3>4, <3>5, <3>6, <4>1 DEF NotifiedOnce
    <3>7. CASE j = Len(dispatched) + 1
      <4>1. dispatched'[j] = a /\ j - 1 = Len(dispatched)
        BY <3>2, <3>4, <3>7 DEF Dispatched
      <4>2. a.arg \notin s.dedup
        <5>1. IsNotify(SerialiseAction(b))
          BY <3>1, <3>3, <4>1
        <5>2. ~Untouched(s, r)
          <6>1. <<b>> # <<>> /\ \A c : <<c>> = <<b>> => c = b
            OBVIOUS
          <6>2. QED
            BY <2>8, <5>1, <6>1 DEF Untouched
        <5>3. PICK m \in Messages :
                m \notin s.dedup /\ r.actions = <<Action("Emit", "notify_session", m)>>
          BY <2>4, <5>2 DEF Added
        <5>4. b = Action("Emit", "notify_session", m)
          BY <2>8, <5>3
        <5>5. QED
          BY <3>1, <5>3, <5>4, SerialisedFields
      <4>3. IsNotify(dispatched[i]) /\ dispatched[i].arg = a.arg
        BY <3>3, <3>4, <4>1
      <4>4. Evicted(i, s) \/ Listed(i, s)
        BY <2>3, <3>4, <4>3 DEF Tracked
      <4>5. ~Listed(i, s)
        BY <2>3, <4>2, <4>3 DEF Listed, DedupCoherent, Range
      <4>6. Len(s.dedup_order) = DedupCap /\ s.dedup \subseteq NotifiedIn(i + 1, j - 1)
        BY <4>1, <4>4, <4>5 DEF Evicted
      <4>7. Cardinality(s.dedup) = DedupCap
        BY <2>3, <4>6, RangeCount DEF ThreadStates, DedupCoherent
      <4>8. IsFiniteSet(NotifiedIn(i + 1, j - 1))
        BY <3>4, NotifiedFinite
      <4>9. Cardinality(s.dedup) <= Cardinality(NotifiedIn(i + 1, j - 1)) /\ Cardinality(NotifiedIn(i + 1, j - 1)) \in Nat
        BY <4>6, <4>8, FS_Subset, FS_CardinalityType
      <4>10. QED
        BY <3>5, <4>7, <4>9, HandlerBoundAssumption
    <3>8. QED
      BY <3>2, <3>4, <3>6, <3>7 DEF Dispatched
  <2>9. QED
    BY <2>6, <2>7, <2>8
<1>5. QED
  BY <1>2, <1>3, <1>4, CommitStep DEF CallCommits

\* A message that is delivered again notifies the session again only after
\* DedupCap other messages have pushed its id out of the dedup list (NotifiedOnce).
THEOREM NotifiedOnceHolds == Spec => []NotifiedOnce
<1>1. Init => NotifiedOnce
  <2>1. Init => DOMAIN dispatched = {}
    BY DEF Init
  <2>2. QED
    BY <2>1 DEF NotifiedOnce
<1>2. QED
  BY <1>1, OnceStep, StateInvHolds, ReplyInvHolds, PTL DEF Spec

=============================================================================
