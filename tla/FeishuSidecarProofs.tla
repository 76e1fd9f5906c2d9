-------------------------- MODULE FeishuSidecarProofs --------------------------
(***************************************************************************)
(* Proofs about FeishuSidecar, for any ports, loads, page and pool.        *)
(***************************************************************************)
EXTENDS FeishuSidecar, FiniteSetTheorems, TLAPS

---------------------------------------------------------------------------
(* The line of directives, as its two queues change. *)

\* An envelope carries a directive.
LEMMA EnvelopePayload ==
  ASSUME NEW w \in Seq(Frames), NEW i \in Enveloped(w)
  PROVE  i \in 1..Len(w) /\ w[i].payload \in Directives /\ w[i].payload.id \in Nat
<1>1. i \in 1..Len(w) /\ w[i] \in Frames /\ w[i].event = "envelope"
  BY DEF Enveloped
<1>2. w[i].payload \in Directives
  BY <1>1 DEF Frames
<1>3. QED
  BY <1>1, <1>2 DEF Directives

\* A new connection starts with an empty queue.
LEMMA LineFirst ==
  ASSUME NEW q \in Seq(Directives), NEW w \in Seq(Frames), NEW n \in Nat, InLine(q, w, n)
  PROVE  /\ InLine(<<>>, w, n) /\ InLine(<<>>, <<>>, n)
         /\ \A id \in Nat : PastLine(id, q, w, n)
              => PastLine(id, <<>>, w, n) /\ PastLine(id, <<>>, <<>>, n)
  BY DEF InLine, PastLine, Enveloped

\* The read loop moves a frame: a directive goes to the end of the queue.
LEMMA LineRead ==
  ASSUME NEW q \in Seq(Directives), NEW w \in Seq(Frames), NEW n \in Nat, InLine(q, w, n), w # <<>>,
         NEW r, r = IF Head(w).event = "envelope" THEN Append(q, Head(w).payload) ELSE q
  PROVE  /\ r \in Seq(Directives) /\ InLine(r, Tail(w), n)
         /\ \A id \in Nat : PastLine(id, q, w, n) => PastLine(id, r, Tail(w), n)
<1>1. /\ Head(w) = w[1] /\ 1 \in DOMAIN w /\ w[1] \in Frames
      /\ \A i \in DOMAIN Tail(w) : i + 1 \in DOMAIN w /\ Tail(w)[i] = w[i + 1] /\ i + 1 > 1 /\ i \in Nat
  OBVIOUS
<1>2. CASE w[1].event # "envelope"
  BY <1>1, <1>2 DEF InLine, PastLine, Enveloped
<1>3. CASE w[1].event = "envelope"
  <2>1. w[1].payload \in Directives /\ 1 \in Enveloped(w)
    BY <1>1, <1>3 DEF Frames, Enveloped
  <2>2. r \in Seq(Directives) /\ r = Append(q, w[1].payload)
    BY <1>1, <1>3, <2>1
  <2>3. /\ Len(r) = Len(q) + 1 /\ DOMAIN r = 1..(Len(q) + 1) /\ Len(q) \in Nat /\ DOMAIN q = 1..Len(q)
        /\ r[Len(q) + 1] = w[1].payload
        /\ \A i \in DOMAIN q : r[i] = q[i]
    BY <2>1, <2>2
  <2>4. \A i \in DOMAIN r : (i \in DOMAIN q /\ r[i] = q[i]) \/ i = Len(q) + 1
    BY <2>3
  <2>5. \A i \in Enveloped(Tail(w)) : i + 1 \in Enveloped(w) /\ Tail(w)[i] = w[i + 1]
    BY <1>1 DEF Enveloped
  <2>6. /\ \A i \in DOMAIN r : r[i].id \in Nat
        /\ \A i \in Enveloped(w) : w[i].payload.id \in Nat
    <3>1. \A i \in DOMAIN r : r[i] \in Directives
      BY <2>2
    <3>2. QED
      BY <3>1, EnvelopePayload DEF Directives
  <2>7. InLine(r, Tail(w), n)
    <3>1. \A i \in DOMAIN r : r[i].id <= n
      BY <2>1, <2>3, <2>4 DEF InLine
    <3>2. \A i \in Enveloped(Tail(w)) : Tail(w)[i].payload.id <= n
      BY <2>5 DEF InLine
    <3>3. \A i, j \in DOMAIN r : i < j => r[i].id < r[j].id
      BY <2>1, <2>3, <2>4 DEF InLine
    <3>4. \A i, j \in Enveloped(Tail(w)) : i < j => Tail(w)[i].payload.id < Tail(w)[j].payload.id
      BY <1>1, <2>5 DEF InLine, Enveloped
    <3>5. \A i \in DOMAIN r, j \in Enveloped(Tail(w)) : r[i].id < Tail(w)[j].payload.id
      BY <1>1, <2>1, <2>3, <2>4, <2>5 DEF InLine, Enveloped
    <3>6. QED
      BY <3>1, <3>2, <3>3, <3>4, <3>5 DEF InLine
  <2>8. ASSUME NEW id \in Nat, PastLine(id, q, w, n)  PROVE PastLine(id, r, Tail(w), n)
    BY <2>1, <2>3, <2>4, <2>5, <2>8 DEF PastLine
  <2>9. QED
    BY <2>2, <2>7, <2>8
<1>4. QED
  BY <1>2, <1>3

\* The loop takes the first directive.
LEMMA LineTake ==
  ASSUME NEW q \in Seq(Directives), NEW w \in Seq(Frames), NEW n \in Nat, InLine(q, w, n), q # <<>>
  PROVE  /\ Tail(q) \in Seq(Directives) /\ Head(q) \in Directives /\ InLine(Tail(q), w, n)
         /\ PastLine(Head(q).id, Tail(q), w, n)
         /\ \A id \in Nat : PastLine(id, q, w, n) => PastLine(id, Tail(q), w, n) /\ id < Head(q).id
<1>1. /\ Head(q) = q[1] /\ 1 \in DOMAIN q /\ q[1] \in Directives /\ Tail(q) \in Seq(Directives)
      /\ \A i \in DOMAIN Tail(q) : i + 1 \in DOMAIN q /\ Tail(q)[i] = q[i + 1] /\ i + 1 > 1 /\ i \in Nat
  OBVIOUS
<1>2. QED
  BY <1>1 DEF InLine, PastLine, Enveloped

\* A socket that breaks lets a prefix through.
LEMMA LinePrefix ==
  ASSUME NEW q \in Seq(Directives), NEW w \in Seq(Frames), NEW n \in Nat, InLine(q, w, n),
         NEW k \in 0..Len(w)
  PROVE  /\ SubSeq(w, 1, k) \in Seq(Frames) /\ InLine(q, SubSeq(w, 1, k), n)
         /\ \A id \in Nat : PastLine(id, q, w, n) => PastLine(id, q, SubSeq(w, 1, k), n)
<1>1. /\ SubSeq(w, 1, k) \in Seq(Frames)
      /\ \A i \in DOMAIN SubSeq(w, 1, k) : i \in DOMAIN w /\ SubSeq(w, 1, k)[i] = w[i]
  OBVIOUS
<1>2. QED
  BY <1>1 DEF InLine, PastLine, Enveloped

\* What Append does to a sequence of frames.
LEMMA FrameAppended ==
  ASSUME NEW w \in Seq(Frames), NEW f \in Frames
  PROVE  /\ Append(w, f) \in Seq(Frames) /\ Len(w) \in Nat /\ DOMAIN w = 1..Len(w)
         /\ \A i \in DOMAIN Append(w, f) :
              \/ i \in DOMAIN w /\ Append(w, f)[i] = w[i]
              \/ i = Len(w) + 1 /\ Append(w, f)[i] = f
<1>1. /\ Append(w, f) \in Seq(Frames) /\ Len(w) \in Nat /\ DOMAIN w = 1..Len(w)
      /\ Len(Append(w, f)) = Len(w) + 1
  OBVIOUS
<1>2. DOMAIN Append(w, f) = 1..(Len(w) + 1)
  BY <1>1
<1>3. Append(w, f)[Len(w) + 1] = f /\ \A i \in 1..Len(w) : Append(w, f)[i] = w[i]
  OBVIOUS
<1>4. QED
  BY <1>1, <1>2, <1>3

\* A frame that is no directive.
LEMMA LineOther ==
  ASSUME NEW q \in Seq(Directives), NEW w \in Seq(Frames), NEW n \in Nat, InLine(q, w, n),
         NEW f \in Frames, f.event # "envelope"
  PROVE  /\ Append(w, f) \in Seq(Frames) /\ InLine(q, Append(w, f), n)
         /\ \A id \in Nat : PastLine(id, q, w, n) => PastLine(id, q, Append(w, f), n)
<1> DEFINE v == Append(w, f)
<1>1. v \in Seq(Frames) /\ \A i \in Enveloped(v) : i \in Enveloped(w) /\ v[i] = w[i]
  BY FrameAppended DEF Enveloped
<1> HIDE DEF v
<1>2. InLine(q, v, n) /\ \A id \in Nat : PastLine(id, q, w, n) => PastLine(id, q, v, n)
  BY <1>1 DEF InLine, PastLine
<1>3. QED
  BY <1>1, <1>2 DEF v

\* The next directive, which a worker that has joined is sent.
LEMMA LineIssue ==
  ASSUME NEW q \in Seq(Directives), NEW w \in Seq(Frames), NEW n \in Nat, InLine(q, w, n),
         NEW p \in Directives, p.id = n + 1, NEW v, v = w \/ v = Append(w, Envelope(p))
  PROVE  /\ v \in Seq(Frames) /\ InLine(q, v, n + 1)
         /\ \A id \in Nat : PastLine(id, q, w, n) => PastLine(id, q, v, n + 1)
<1>1. /\ Envelope(p) \in Frames /\ Envelope(p).event = "envelope" /\ Envelope(p).payload.id = n + 1
  BY DEF Envelope, Frames
<1>2. /\ \A i \in DOMAIN q : q[i].id \in Nat
      /\ \A i \in Enveloped(w) : w[i].payload.id \in Nat /\ i \in 1..Len(w)
  <2>1. \A i \in DOMAIN q : q[i] \in Directives
    OBVIOUS
  <2>2. QED
    BY <2>1, EnvelopePayload DEF Directives
<1>3. /\ v \in Seq(Frames) /\ Len(w) \in Nat
      /\ \A i \in Enveloped(v) :
           \/ i \in Enveloped(w) /\ v[i] = w[i]
           \/ i = Len(w) + 1 /\ v[i] = Envelope(p)
  <2>1. CASE v = w
    BY <2>1
  <2>2. CASE v = Append(w, Envelope(p))
    <3>1. /\ v \in Seq(Frames) /\ Len(w) \in Nat
          /\ \A i \in DOMAIN v :
               \/ i \in DOMAIN w /\ v[i] = w[i]
               \/ i = Len(w) + 1 /\ v[i] = Envelope(p)
      BY <1>1, <2>2, FrameAppended
    <3>2. QED
      BY <3>1 DEF Enveloped
  <2>3. QED
    BY <2>1, <2>2
<1>4. InLine(q, v, n + 1)
  <2>1. \A i \in DOMAIN q : q[i].id <= n + 1
    BY <1>2 DEF InLine
  <2>2. \A i \in Enveloped(v) : v[i].payload.id <= n + 1
    BY <1>1, <1>2, <1>3 DEF InLine
  <2>3. \A i, j \in Enveloped(v) : i < j => v[i].payload.id < v[j].payload.id
    BY <1>1, <1>2, <1>3 DEF InLine
  <2>4. \A i \in DOMAIN q, j \in Enveloped(v) : q[i].id < v[j].payload.id
    BY <1>1, <1>2, <1>3 DEF InLine
  <2>5. QED
    BY <2>1, <2>2, <2>3, <2>4 DEF InLine
<1>5. ASSUME NEW id \in Nat, PastLine(id, q, w, n)  PROVE PastLine(id, q, v, n + 1)
  BY <1>1, <1>2, <1>3, <1>5 DEF PastLine
<1>6. QED
  BY <1>3, <1>4, <1>5

---------------------------------------------------------------------------
(* The connection *)

Wires == to_worker' \in Seq(Frames) /\ queue' \in Seq(Directives) /\ to_server' \in Seq(Replies)

\* The line stays one, and who was past it still is.
Calm ==
  /\ InLine(queue', to_worker', Len(issued'))
  /\ \A id \in Nat : PastLine(id, queue, to_worker, Len(issued))
       => PastLine(id, queue', to_worker', Len(issued'))

LEMMA ReplyFrames ==
  /\ Join \in Replies /\ Hello \in Replies /\ PhxError \in Frames /\ PhxError.event # "envelope"
  /\ \A s \in {"ok", "error"} : JoinReply(s) \in Frames /\ JoinReply(s).event # "envelope"
  /\ \A id \in Nat \ {0}, r \in Results : Ack(id, r) \in Replies
  /\ \A m \in Nat : Event(m) \in Replies
  BY DEF Join, Hello, PhxError, JoinReply, Ack, Event, PrincipalId, Replies, Frames

LEMMA EmptyWires == <<>> \in Seq(Frames) /\ <<>> \in Seq(Directives) /\ <<>> \in Seq(Replies)
  OBVIOUS

LEMMA ConnectionLine ==
  ASSUME RecordsOK, LineInv, UNCHANGED issued, ConnectionStep \/ JoinOk \/ EndCycle
  PROVE  Wires /\ Calm
<1> USE DEF wireVars, portVars, RecordsOK
<1> DEFINE n == Len(issued)
<1>1. InLine(queue, to_worker, n) /\ n \in Nat
  BY DEF LineInv
<1>2. CASE UNCHANGED <<queue, to_worker>> /\ to_server' \in Seq(Replies)
  BY <1>1, <1>2 DEF Wires, Calm
<1>3. CASE ResolveUrl \/ BackoffEnds \/ ConnectFails \/ ReadLoopEnds \/ LauncherStep
           \/ ServerReadsHello \/ JoinOk
  <2>1. UNCHANGED <<queue, to_worker>>
    BY <1>3 DEF ResolveUrl, BackoffEnds, ConnectFails, ReadLoopEnds, LauncherStep,
                ServerListens, WritePortFile, ServerReadsHello, JoinOk
  <2>2. to_server' = to_server \/ to_server' = Append(to_server, Hello)
          \/ (to_server # <<>> /\ to_server' = Tail(to_server))
    BY <1>3 DEF ResolveUrl, BackoffEnds, ConnectFails, ReadLoopEnds, LauncherStep,
                ServerListens, WritePortFile, ServerReadsHello, JoinOk, Pushed
  <2>3. QED
    <3>1. Append(to_server, Hello) \in Seq(Replies)
      BY ReplyFrames
    <3>2. to_server # <<>> => Tail(to_server) \in Seq(Replies)
      OBVIOUS
    <3>3. QED
      BY <1>2, <2>1, <2>2, <3>1, <3>2
<1>4. CASE Connect
  <2>1. queue' = <<>> /\ UNCHANGED to_worker /\ to_server' \in Seq(Replies)
    BY <1>4, ReplyFrames DEF Connect
  <2>2. QED
    BY <1>1, <2>1, LineFirst, EmptyWires DEF Wires, Calm
<1>5. CASE ReadLoop
  <2>1. /\ to_worker # <<>> /\ to_worker' = Tail(to_worker) /\ UNCHANGED to_server
        /\ queue' = IF Head(to_worker).event = "envelope" THEN Append(queue, Head(to_worker).payload)
                                                         ELSE queue
    BY <1>5 DEF ReadLoop
  <2>2. Tail(to_worker) \in Seq(Frames)
    BY <2>1
  <2>3. QED
    BY <1>1, <2>1, <2>2, LineRead DEF Wires, Calm
<1>6. CASE WsDrops \/ ServerStops
  <2>1. Break /\ UNCHANGED queue
    BY <1>6 DEF WsDrops, ServerStops
  <2>2. PICK k \in 0..Len(to_worker) : to_worker' = SubSeq(to_worker, 1, k)
    BY <2>1 DEF Break
  <2>3. QED
    BY <1>1, <2>1, <2>2, LinePrefix, EmptyWires DEF Wires, Calm, Break
<1>7. CASE ChannelCrashes
  <2>1. to_worker' = Append(to_worker, PhxError) /\ UNCHANGED <<queue, to_server>>
    BY <1>7 DEF ChannelCrashes
  <2>2. QED
    BY <1>1, <2>1, LineOther, ReplyFrames DEF Wires, Calm
<1>8. ASSUME NEW s \in {"ok", "error"}, ServerJoins(s)
      PROVE Wires /\ Calm
  <2>1. /\ to_worker' = to_worker \/ to_worker' = Append(to_worker, JoinReply(s))
        /\ UNCHANGED queue /\ to_server # <<>> /\ to_server' = Tail(to_server)
    BY <1>8 DEF ServerJoins
  <2>2. to_server' \in Seq(Replies)
    BY <2>1
  <2>3. CASE to_worker' = Append(to_worker, JoinReply(s))
    BY <1>1, <2>1, <2>2, <2>3, LineOther, ReplyFrames DEF Wires, Calm
  <2>4. QED
    BY <1>2, <2>1, <2>2, <2>3
<1>9. CASE EndCycle
  <2>1. queue' = <<>> /\ to_worker' = <<>> /\ to_server' \in Seq(Replies)
    BY <1>9, EmptyWires DEF EndCycle
  <2>2. QED
    BY <1>1, <2>1, LineFirst, EmptyWires DEF Wires, Calm
<1>10. QED
  BY <1>3, <1>4, <1>5, <1>6, <1>7, <1>8, <1>9 DEF ConnectionStep, WorkerStep, EsrdStep

\* The worker serves from StartServing to EndServing.
LEMMA ConnectionCycle ==
  ASSUME ConnectionStep
  PROVE  cycle' = "serving" <=> cycle = "serving"
  BY DEF ConnectionStep, WorkerStep, EsrdStep, ResolveUrl, BackoffEnds, Connect, ConnectFails,
         ReadLoop, ReadLoopEnds, ServerReadsHello, WsDrops, ServerStops, LauncherStep,
         ServerListens, WritePortFile, ChannelCrashes, ServerJoins

---------------------------------------------------------------------------
(* Directives *)

OrderInv == LineInv /\ LoopInv /\ AppliedOnceInOrder

LEMMA DirectiveInit == Init => DirectiveInv
<1> SUFFICES ASSUME Init PROVE DirectiveInv
  OBVIOUS
<1>1. RecordsOK
  BY DEF Init, CycleInit, RecordsOK
<1>2. /\ doing = NoDirective /\ NoDirective.id = 0 /\ NoDirective \notin Begun /\ jobs = {}
      /\ effects = <<>> /\ queue = <<>> /\ to_worker = <<>> /\ issued = <<>>
  BY DEF Init, CycleInit, NoDirective, Begun
<1>3. LineInv /\ LoopInv /\ AppliedOnceInOrder
  BY <1>2 DEF LineInv, LoopInv, AppliedOnceInOrder, InLine, PastLine, Enveloped
<1>4. QED
  BY <1>1, <1>3 DEF DirectiveInv

\* Records are told apart by their fields.
LEMMA Doings ==
  /\ NoDirective.id = 0 /\ NoDirective \notin Begun /\ NoDirective \notin Returned
  /\ \A d \in Begun : d.id \in Nat \ {0} /\ d \notin Returned /\ d # NoDirective
  /\ \A d \in Returned : d.id \in Nat \ {0} /\ d \notin Begun /\ d # NoDirective
<1>1. NoDirective.id = 0
  BY DEF NoDirective
<1>2. \A d \in Begun : d.id \in Nat \ {0} /\ d.at # "returned"
  BY DEF Begun
<1>3. \A d \in Returned : d.id \in Nat \ {0} /\ d.at = "returned"
  BY DEF Returned
<1>4. QED
  BY <1>1, <1>2, <1>3

LEMMA Ids ==
  ASSUME RecordsOK
  PROVE  /\ doing.id \in Nat /\ \A j \in jobs : j.id \in Nat \ {0}
         /\ \A i \in DOMAIN effects : effects[i].id \in Nat \ {0} /\ effects[i].conn \in Nat
         /\ Len(issued) \in Nat /\ \A i \in DOMAIN queue : queue[i].id \in Nat
<1>1. doing.id \in Nat
  BY Doings DEF RecordsOK
<1>2. \A j \in jobs : j.id \in Nat \ {0}
  BY DEF RecordsOK
<1>3. \A i \in DOMAIN effects : effects[i] \in [id: Nat \ {0}, conn: Nat]
  <2> DEFINE R == [id: Nat \ {0}, conn: Nat]
  <2>1. effects \in Seq(R)
    BY DEF RecordsOK
  <2> HIDE DEF R
  <2>2. \A i \in DOMAIN effects : effects[i] \in R
    BY <2>1
  <2>3. QED
    BY <2>2 DEF R
<1>4. \A i \in DOMAIN queue : queue[i] \in Directives
  BY DEF RecordsOK
<1>5. Len(issued) \in Nat
  BY DEF RecordsOK
<1>6. QED
  BY <1>1, <1>2, <1>3, <1>4, <1>5 DEF Directives

\* A step that has nothing to do with directives but for the line.
LEMMA QuietStep ==
  ASSUME RecordsOK, OrderInv, Calm, UNCHANGED <<doing, jobs, effects, conn>>,
         cycle' = "serving" <=> cycle = "serving"
  PROVE  OrderInv'
<1>1. /\ doing.id \in Nat /\ \A j \in jobs : j.id \in Nat
      /\ \A i \in DOMAIN effects : effects[i].id \in Nat
  BY Ids
<1>2. LineInv'
  BY <1>1 DEF OrderInv, LineInv, Calm
<1>3. LoopInv'
  BY DEF OrderInv, LoopInv
<1>4. AppliedOnceInOrder'
  BY DEF OrderInv, AppliedOnceInOrder
<1>5. QED
  BY <1>2, <1>3, <1>4 DEF OrderInv

\* The end of a connection; its thread, if any, goes on.
LEMMA EndStep ==
  ASSUME RecordsOK, OrderInv, Calm, doing' = NoDirective, cycle' = "backoff",
         UNCHANGED <<jobs, effects, conn>>
  PROVE  OrderInv'
<1>1. /\ doing.id \in Nat /\ \A j \in jobs : j.id \in Nat
      /\ \A i \in DOMAIN effects : effects[i].id \in Nat
  BY Ids
<1>2. PastLine(0, queue, to_worker, Len(issued))
  <2>1. PastLine(doing.id, queue, to_worker, Len(issued))
    BY DEF OrderInv, LineInv
  <2>2. /\ \A i \in DOMAIN queue : queue[i].id \in Nat
        /\ \A i \in Enveloped(to_worker) : to_worker[i].payload.id \in Nat
    BY Ids, EnvelopePayload DEF RecordsOK
  <2>3. QED
    BY <1>1, <2>1, <2>2, Ids DEF PastLine
<1>3. LineInv'
  BY <1>1, <1>2, Doings DEF OrderInv, LineInv, Calm
<1>4. LoopInv'
  BY Doings DEF OrderInv, LoopInv
<1>5. AppliedOnceInOrder'
  BY DEF OrderInv, AppliedOnceInOrder
<1>6. QED
  BY <1>3, <1>4, <1>5 DEF OrderInv

\* What a call comes to: one that says ok has been carried out, one that the rate
\* limit refused has not.
LEMMA OutcomeFacts ==
  ASSUME NEW a \in AllActions, NEW o \in Outcomes(a)
  PROVE  /\ o[1] \in Results /\ o[2] \in BOOLEAN
         /\ (o[1] = "ok" => o[2]) /\ (o[1] = "limited" => ~o[2])
<1> DEFINE Fine(x) == /\ x[1] \in Results /\ x[2] \in BOOLEAN
                     /\ (x[1] = "ok" => x[2]) /\ (x[1] = "limited" => ~x[2])
<1>1. \A x \in Lost : Fine(x)
  BY DEF Lost, Results
<1>2. Fine(<<"ok", TRUE>>) /\ Fine(<<"limited", FALSE>>) /\ Fine(<<"empty", FALSE>>)
  BY DEF Results
<1>3. Fine(<<"fail", FALSE>>) /\ Fine(<<"raises", FALSE>>) /\ Fine(<<"raises", TRUE>>)
  BY DEF Results
<1>4. \A x \in {"fail", "raises"} \X {FALSE} : Fine(x)
  BY DEF Results
<1> HIDE DEF Fine
<1> DEFINE Calls == LarkCall \cup OnCreateMessage \cup OnCreateReaction \cup OnDeleteReactions
                     \cup OnUploadFile
           Twice == Then(LarkCall, LarkCall) \cup Then(OnUploadFile, OnCreateMessage)
<1>5. \A x \in Calls : Fine(x)
  BY <1>1, <1>2
     DEF LarkCall, OnCreateMessage, OnCreateReaction, OnDeleteReactions, OnUploadFile
<1>6. \A x \in Twice : Fine(x)
  <2>1. ASSUME NEW x \in Calls, x[1] # "ok"  PROVE Fine(<<x[1], FALSE>>)
    BY <1>5, <2>1 DEF Fine
  <2> HIDE DEF Fine
  <2>2. QED
    BY <1>5, <2>1 DEF Then
<1>7. o \in Calls \cup Twice \cup DownloadFile \cup {<<"fail", FALSE>>, <<"ok", TRUE>>}
              \cup ({"fail", "raises"} \X {FALSE})
  BY DEF Outcomes, AllActions, SendMessage, React, UnReact, SendCard, Pin, Unpin, SendFile
<1>8. \A x \in DownloadFile : Fine(x)
  BY <1>2, <1>3 DEF DownloadFile, Store
<1> HIDE DEF Calls, Twice
<1>9. Fine(o)
  BY <1>2, <1>3, <1>4, <1>5, <1>6, <1>7, <1>8
<1>10. QED
  BY <1>9 DEF Fine

Effect(d) == [id |-> d.id, conn |-> d.conn]

\* One call of the loop: it sleeps, or the directive is over, with the connection
\* or with an ack.
LEMMA AttemptEffect ==
  ASSUME NEW d, NEW q, d.action \in AllActions, Attempt(d, q)
  PROVE  /\ UNCHANGED conn
         /\ \/ /\ ~GivesUp(d) /\ doing' = Slept(d) /\ queue' = q
               /\ UNCHANGED <<cycle, to_worker, to_server, effects, gen_queue>>
            \/ /\ EndCycle /\ doing' = NoDirective /\ gen_queue' = <<>>
               /\ effects' = effects \/ effects' = Append(effects, Effect(d))
            \/ /\ doing' = NoDirective /\ queue' = q /\ UNCHANGED <<cycle, to_worker, gen_queue>>
               /\ effects' = effects \/ effects' = Append(effects, Effect(d))
               /\ \E r \in Results :
                    /\ r = "ok" => effects' = Append(effects, Effect(d))
                    /\ to_server' = to_server \/ to_server' = Append(to_server, Ack(d.id, r))
<1>1. CASE CallHangs(d, q)
  <2>1. /\ UNCHANGED <<conn, cycle, to_worker, to_server, gen_queue>>
        /\ doing' = NoDirective /\ queue' = q
        /\ effects' = effects \/ effects' = Append(effects, Effect(d))
    BY <1>1 DEF CallHangs, Apply, Effect
  <2>2. "fail" \in Results /\ "fail" # "ok"
    BY DEF Results
  <2>3. QED
    BY <2>1, <2>2
<1>2. CASE CallReturns(d, q)
  <2>1. PICK o \in Outcomes(d.action) :
          /\ Apply(d, o[2])
          /\ IF RateLimited(o[1]) /\ ~GivesUp(d)
             THEN /\ doing' = Slept(d)
                  /\ queue' = q
                  /\ UNCHANGED <<cycle, attempt, url, portVars, ws, join_reply, to_worker, to_server,
                                 channel, faults, generatorVars>>
             ELSE Push(Ack(d.id, IF RateLimited(o[1]) THEN "timeout" ELSE o[1]), q, NoDirective, gen_queue)
    BY <1>2 DEF CallReturns
  <2>2. /\ o[1] \in Results /\ o[2] \in BOOLEAN
        /\ (o[1] = "ok" => o[2]) /\ (o[1] = "limited" => ~o[2])
    BY OutcomeFacts
  <2>3. effects' = IF o[2] THEN Append(effects, Effect(d)) ELSE effects
    BY <2>1 DEF Apply, Effect
  <2>4. CASE RateLimited(o[1]) /\ ~GivesUp(d)
    BY <2>1, <2>2, <2>3, <2>4 DEF RateLimited, generatorVars
  <2>5. CASE ~(RateLimited(o[1]) /\ ~GivesUp(d))
    <3>1. PICK r \in Results : /\ r = "ok" => effects' = Append(effects, Effect(d))
                               /\ Push(Ack(d.id, r), q, NoDirective, gen_queue)
      <4> DEFINE r == IF RateLimited(o[1]) THEN "timeout" ELSE o[1]
      <4>1. r \in Results /\ (r = "ok" => effects' = Append(effects, Effect(d)))
        BY <2>2, <2>3 DEF Results
      <4>2. Push(Ack(d.id, r), q, NoDirective, gen_queue)
        BY <2>1, <2>5
      <4> HIDE DEF r
      <4>3. QED
        BY <4>1, <4>2
    <3>2. effects' = effects \/ effects' = Append(effects, Effect(d))
      BY <2>3
    <3>3. CASE PushRaises
      BY <3>1, <3>2, <3>3 DEF Push, EndServing
    <3>4. CASE ~PushRaises
      BY <3>1, <3>2, <3>4 DEF Push, Pushed
    <3>5. QED
      BY <3>3, <3>4
  <2>6. QED
    BY <2>4, <2>5
<1>3. QED
  BY <1>1, <1>2 DEF Attempt

Effects == [id: Nat \ {0}, conn: Nat]

\* The history of effects grows at its end.
LEMMA EffectsGrow ==
  ASSUME NEW es \in Seq(Effects), NEW e \in Effects, NEW fs, fs = es \/ fs = Append(es, e)
  PROVE  /\ fs \in Seq(Effects) /\ Len(es) \in Nat
         /\ \A i \in DOMAIN es : i \in 1..Len(es) /\ i \in DOMAIN fs /\ fs[i] = es[i]
         /\ \A i \in DOMAIN fs :
              \/ i \in DOMAIN es /\ fs[i] = es[i]
              \/ i = Len(es) + 1 /\ fs[i] = e
<1>1. CASE fs = es
  BY <1>1
<1>2. CASE fs = Append(es, e)
  <2>1. /\ fs \in Seq(Effects) /\ Len(es) \in Nat /\ Len(fs) = Len(es) + 1
        /\ DOMAIN es = 1..Len(es) /\ fs[Len(es) + 1] = e
        /\ \A i \in 1..Len(es) : fs[i] = es[i]
    BY <1>2
  <2>2. DOMAIN fs = 1..(Len(es) + 1)
    BY <2>1
  <2>3. QED
    BY <2>1, <2>2
<1>3. QED
  BY <1>1, <1>2

\* A call of the loop, for a directive after all others of its connection.
LEMMA AttemptStep ==
  ASSUME RecordsOK, OrderInv, NEW d \in Begun, NEW q \in Seq(Directives), Attempt(d, q),
         cycle = "serving", d.conn = conn, UNCHANGED <<issued, jobs, acks>>,
         InLine(q, to_worker, Len(issued)), PastLine(d.id, q, to_worker, Len(issued)),
         \A j \in jobs : PastLine(j.id, q, to_worker, Len(issued)) /\ j.id < d.id /\ j.conn # conn,
         \A i \in DOMAIN effects :
           PastLine(effects[i].id, q, to_worker, Len(issued)) /\ effects[i].id < d.id
  PROVE  RecordsOK' /\ OrderInv'
<1> DEFINE n == Len(issued)
           e == Effect(d)
<1>1. d.action \in AllActions /\ d.id \in Nat \ {0} /\ d.conn \in Nat /\ conn \in Nat
  BY DEF Begun, RecordsOK
<1>2. e \in Effects /\ e.id = d.id /\ e.conn = conn /\ effects \in Seq(Effects)
  BY <1>1 DEF Effects, Effect, RecordsOK
<1> HIDE DEF e
<1>3. /\ UNCHANGED conn
      /\ effects' = effects \/ effects' = Append(effects, e)
  BY <1>1, AttemptEffect DEF e
<1>4. /\ effects' \in Seq(Effects) /\ Len(effects) \in Nat
      /\ \A i \in DOMAIN effects : i \in 1..Len(effects) /\ i \in DOMAIN effects'
      /\ \A i \in DOMAIN effects' :
           \/ i \in DOMAIN effects /\ effects'[i] = effects[i]
           \/ i = Len(effects) + 1 /\ effects'[i] = e
  BY <1>2, <1>3, EffectsGrow
<1>5. AppliedOnceInOrder'
  <2>1. ASSUME NEW i \in DOMAIN effects', NEW j \in DOMAIN effects', i < j
        PROVE /\ effects'[i].id # effects'[j].id
              /\ effects'[i].conn = effects'[j].conn => effects'[i].id < effects'[j].id
    <3>1. i \in DOMAIN effects /\ effects'[i] = effects[i]
      BY <1>4, <2>1
    <3>2. CASE j \in DOMAIN effects /\ effects'[j] = effects[j]
      BY <2>1, <3>1, <3>2 DEF OrderInv, AppliedOnceInOrder
    <3>3. CASE effects'[j] = e
      BY <1>1, <1>2, <3>1, <3>3, Ids
    <3>4. QED
      BY <1>4, <3>2, <3>3
  <2>2. QED
    BY <2>1 DEF AppliedOnceInOrder
<1>6. /\ \A j, k \in jobs : j # k => j.id # k.id /\ j.conn # k.conn
      /\ \A j \in jobs, i \in DOMAIN effects' :
           /\ effects'[i].id # j.id
           /\ effects'[i].conn = j.conn => effects'[i].id < j.id
  BY <1>1, <1>2, <1>4, Ids DEF OrderInv, LoopInv
<1>7. \A i \in DOMAIN effects' : PastLine(effects'[i].id, q, to_worker, n) /\ effects'[i].conn <= conn
  <2>1. \A i \in DOMAIN effects : effects[i].conn <= conn
    BY DEF RecordsOK
  <2>2. QED
    BY <1>1, <1>2, <1>4, <2>1
<1>8. CASE /\ ~GivesUp(d) /\ doing' = Slept(d) /\ queue' = q
           /\ UNCHANGED <<cycle, to_worker, to_server, effects, gen_queue>>
  <2>1. doing' \in Begun /\ doing'.id = d.id /\ doing'.conn = conn
    <3> DEFINE b == BackoffSchedule[d.tries + 1]
    <3>1. Len(BackoffSchedule) = 6 /\ \A k \in 1..6 : BackoffSchedule[k] \in Nat
      BY DEF BackoffSchedule
    <3>2. /\ d.tries \in 0..6 /\ d.tries # 6 /\ d.elapsed \in 0..RetryDeadline
          /\ ~(d.elapsed + b > RetryDeadline) /\ RetryDeadline = 30
      BY <1>8, <3>1 DEF GivesUp, Begun, RetryDeadline
    <3>3. b \in Nat /\ d.tries + 1 \in 0..6 /\ d.elapsed + b \in 0..RetryDeadline
      <4>1. d.tries + 1 \in 1..6
        BY <3>2
      <4>2. b \in Nat
        BY <3>1, <4>1
      <4>3. PICK c \in Nat : c = b
        BY <4>2
      <4>4. PICK x \in 0..30 : x = d.elapsed
        BY <3>2
      <4>5. ~(x + c > 30)
        BY <3>2, <4>3, <4>4
      <4>6. x + c \in 0..30
        BY <4>5
      <4>7. d.elapsed + b = x + c
        BY <4>3, <4>4
      <4>8. d.elapsed + b \in 0..RetryDeadline
        <5>1. RetryDeadline = 30
          BY <3>2
        <5> HIDE DEF b
        <5>2. QED
          BY <4>6, <4>7, <5>1, Zenon
      <4>9. d.tries + 1 \in 0..6
        BY <3>2
      <4>10. QED
        BY <4>2, <4>8, <4>9
    <3>4. doing' = [d EXCEPT !.at = "sleeping", !.tries = @ + 1, !.elapsed = @ + b]
      BY <1>8 DEF Slept
    <3> HIDE DEF b
    <3>5. QED
      BY <1>1, <3>1, <3>3, <3>4 DEF Begun
  <2>2. RecordsOK'
    BY <1>3, <1>8, <2>1 DEF RecordsOK
  <2>3. LineInv'
    BY <1>8, <2>1 DEF LineInv
  <2>4. LoopInv'
    BY <1>3, <1>6, <1>8, <2>1, Doings DEF LoopInv
  <2>5. QED
    BY <1>5, <2>2, <2>3, <2>4 DEF OrderInv
<1>9. CASE EndCycle /\ doing' = NoDirective /\ gen_queue' = <<>>
  <2>1. Wires /\ Calm /\ queue' = <<>> /\ to_worker' = <<>> /\ cycle' = "backoff"
    BY <1>9, ConnectionLine DEF OrderInv, EndCycle
  <2>2. RecordsOK'
    BY <1>3, <1>4, <1>7, <1>9, <2>1 DEF RecordsOK, Wires, Effects
  <2>3. \A id \in Nat : id <= n => PastLine(id, <<>>, <<>>, n)
    BY DEF PastLine, Enveloped
  <2>4. LineInv'
    <3>1. /\ \A i \in DOMAIN effects' : effects'[i].id \in Nat /\ effects'[i].id <= n
          /\ \A j \in jobs : j.id \in Nat /\ j.id <= n
      BY <1>1, <1>2, <1>4, <1>7, Ids DEF PastLine
    <3>2. doing'.id = 0 /\ n \in Nat
      BY <1>9, Doings, Ids
    <3>3. QED
      BY <2>1, <2>3, <3>1, <3>2 DEF LineInv, Calm
  <2>5. LoopInv'
    BY <1>6, <1>9, <2>1, Doings DEF LoopInv
  <2>6. QED
    BY <1>5, <2>2, <2>4, <2>5 DEF OrderInv
<1>10. CASE /\ doing' = NoDirective /\ queue' = q /\ UNCHANGED <<cycle, to_worker, gen_queue>>
            /\ \E r \in Results :
                 to_server' = to_server \/ to_server' = Append(to_server, Ack(d.id, r))
  <2>1. to_server' \in Seq(Replies)
    <3>1. PICK r \in Results : to_server' = to_server \/ to_server' = Append(to_server, Ack(d.id, r))
      BY <1>10
    <3>2. Ack(d.id, r) \in Replies /\ to_server \in Seq(Replies)
      BY <1>1, ReplyFrames DEF RecordsOK
    <3>3. QED
      BY <3>1, <3>2
  <2>2. RecordsOK'
    BY <1>3, <1>4, <1>7, <1>10, <2>1 DEF RecordsOK, Effects
  <2>3. LineInv'
    <3>1. /\ \A i \in DOMAIN q : q[i].id \in Nat
          /\ \A i \in Enveloped(to_worker) : to_worker[i].payload.id \in Nat
      <4>1. \A i \in DOMAIN q : q[i] \in Directives
        OBVIOUS
      <4>2. QED
        BY <4>1, EnvelopePayload DEF Directives, RecordsOK
    <3>2. PastLine(0, q, to_worker, n)
      BY <1>1, <3>1, Ids DEF PastLine
    <3>3. QED
      BY <1>7, <1>10, <3>2, Doings DEF LineInv
  <2>4. LoopInv'
    BY <1>3, <1>6, <1>10, Doings DEF LoopInv
  <2>5. QED
    BY <1>5, <2>2, <2>3, <2>4 DEF OrderInv
<1>11. QED
  BY <1>1, <1>8, <1>9, <1>10, AttemptEffect

\* directive_loop() takes the next one.
LEMMA TakeStep ==
  ASSUME RecordsOK, OrderInv, TakeDirective
  PROVE  RecordsOK' /\ OrderInv'
<1> DEFINE p == Head(queue)
           n == Len(issued)
<1>1. /\ cycle = "serving" /\ doing = NoDirective /\ queue # <<>> /\ queue \in Seq(Directives)
      /\ to_worker \in Seq(Frames) /\ conn \in Nat /\ UNCHANGED <<issued, jobs, acks>>
  BY DEF TakeDirective, RecordsOK
<1>2. PICK d : d = Taken(p)
  OBVIOUS
<1>3. PICK q : q = Tail(queue)
  OBVIOUS
<1>4. IF InExecutor(d.action)
      THEN /\ doing' = d
           /\ queue' = q
           /\ UNCHANGED <<cycle, attempt, url, portVars, ws, join_reply, to_worker, to_server,
                          channel, faults, generatorVars, effects>>
      ELSE Attempt(d, q)
  BY <1>2, <1>3 DEF TakeDirective, NextDirective
<1>5. /\ q \in Seq(Directives) /\ p \in Directives /\ InLine(q, to_worker, n)
      /\ PastLine(p.id, q, to_worker, n)
      /\ \A id \in Nat : PastLine(id, queue, to_worker, n) => PastLine(id, q, to_worker, n) /\ id < p.id
  BY <1>1, <1>3, LineTake, Ids DEF OrderInv, LineInv
<1> HIDE DEF p
<1>6. d \in Begun /\ d.id = p.id /\ d.conn = conn /\ d.at = "waiting"
  <2>1. 0 \in 0..Len(BackoffSchedule) /\ 0 \in 0..RetryDeadline
    BY DEF BackoffSchedule, RetryDeadline
  <2>2. p.id \in Nat \ {0} /\ p.action \in AllActions
    BY <1>5 DEF Directives
  <2>3. QED
    BY <1>1, <1>2, <2>1, <2>2 DEF Taken, Begun
<1>7. /\ \A j \in jobs : PastLine(j.id, q, to_worker, n) /\ j.id < d.id /\ j.conn # conn
      /\ \A i \in DOMAIN effects : PastLine(effects[i].id, q, to_worker, n) /\ effects[i].id < d.id
  BY <1>1, <1>5, <1>6, Ids, Doings DEF OrderInv, LineInv, LoopInv
<1>8. CASE ~InExecutor(d.action)
  <2>1. Attempt(d, q)
    BY <1>4, <1>8
  <2>2. QED
    BY <1>1, <1>5, <1>6, <1>7, <2>1, AttemptStep
<1>9. CASE InExecutor(d.action)
  <2>1. doing' = d /\ queue' = q /\ UNCHANGED <<cycle, to_worker, to_server, effects, conn, gen_queue>>
    BY <1>4, <1>9 DEF generatorVars
  <2>2. RecordsOK'
    BY <1>1, <1>5, <1>6, <2>1 DEF RecordsOK
  <2>3. LineInv'
    BY <1>1, <1>5, <1>6, <1>7, <2>1 DEF LineInv
  <2>4. LoopInv'
    BY <1>1, <1>6, <1>7, <2>1 DEF OrderInv, LoopInv
  <2>5. AppliedOnceInOrder'
    BY <2>1 DEF OrderInv, AppliedOnceInOrder
  <2>6. QED
    BY <2>2, <2>3, <2>4, <2>5 DEF OrderInv
<1>10. QED
  BY <1>8, <1>9

\* The back-off of the rate limit is over.
LEMMA SleepStep ==
  ASSUME RecordsOK, OrderInv, SleepEnds
  PROVE  RecordsOK' /\ OrderInv'
<1>1. /\ doing \in Begun /\ doing.at = "sleeping" /\ Attempt(doing, queue)
      /\ queue \in Seq(Directives) /\ UNCHANGED <<issued, jobs, acks>>
  BY DEF SleepEnds, RecordsOK, Returned
<1>2. cycle = "serving" /\ doing.conn = conn
  BY <1>1, Doings DEF OrderInv, LoopInv
<1>3. \A j \in jobs : j.id < doing.id /\ j.conn # conn
  BY <1>1, <1>2 DEF OrderInv, LoopInv
<1>4. \A i \in DOMAIN effects : effects[i].id < doing.id
  BY <1>1 DEF OrderInv, LoopInv
<1>5. PICK d : d = doing
  OBVIOUS
<1>6. QED
  BY <1>1, <1>2, <1>3, <1>4, <1>5, AttemptStep DEF OrderInv, LineInv

\* A thread takes the directive.
LEMMA StartJobStep ==
  ASSUME RecordsOK, OrderInv, StartJob
  PROVE  RecordsOK' /\ OrderInv'
<1> USE DEF cycleVars, wireVars, generatorVars, threadVars
<1>1. /\ doing \in Begun /\ doing.at = "waiting" /\ jobs' = jobs \cup {Job(doing)}
      /\ doing' = [doing EXCEPT !.at = "running"]
      /\ UNCHANGED <<cycle, queue, to_worker, to_server, issued, effects, acks, conn, gen_queue>>
  BY DEF StartJob, RecordsOK, Returned
<1>2. /\ doing' \in Begun /\ doing'.id = doing.id /\ doing'.conn = doing.conn /\ doing'.at = "running"
      /\ Job(doing') = Job(doing)
  BY <1>1 DEF Begun, Job
<1>3. /\ cycle = "serving" /\ doing.conn = conn
      /\ \A j \in jobs : j.id < doing.id /\ j.conn # conn
      /\ \A i \in DOMAIN effects : effects[i].id < doing.id
  BY <1>1, Doings DEF OrderInv, LoopInv
<1>4. /\ Job(doing).id = doing.id /\ Job(doing).conn = conn /\ conn \in Nat /\ doing.id \in Nat \ {0}
      /\ Job(doing) \in [id: Nat \ {0}, action: AllActions, conn: 0..conn]
  BY <1>1, <1>3 DEF Job, Begun, RecordsOK
<1>5. RecordsOK'
  BY <1>1, <1>2, <1>4 DEF RecordsOK
<1>6. LineInv'
  BY <1>1, <1>2, <1>4 DEF OrderInv, LineInv
<1>7. LoopInv'
  <2>1. \A j, k \in jobs' : j # k => j.id # k.id /\ j.conn # k.conn
    BY <1>1, <1>3, <1>4, Ids DEF OrderInv, LoopInv
  <2>2. \A j \in jobs', i \in DOMAIN effects :
          /\ effects[i].id # j.id
          /\ effects[i].conn = j.conn => effects[i].id < j.id
    BY <1>1, <1>3, <1>4, Ids DEF OrderInv, LoopInv
  <2>3. QED
    BY <1>1, <1>2, <1>3, <1>4, <2>1, <2>2 DEF LoopInv
<1>8. AppliedOnceInOrder'
  BY <1>1 DEF OrderInv, AppliedOnceInOrder
<1>9. QED
  BY <1>5, <1>6, <1>7, <1>8 DEF OrderInv

\* A thread returns, perhaps after the connection that asked.
LEMMA JobReturnsStep ==
  ASSUME RecordsOK, OrderInv, NEW j \in jobs, JobReturns(j)
  PROVE  RecordsOK' /\ OrderInv'
<1> USE DEF cycleVars, wireVars, generatorVars, threadVars
<1>1. PICK o \in Outcomes(j.action) :
        /\ Apply(j, o[2])
        /\ doing' = IF doing.id = j.id THEN [id |-> j.id, at |-> "returned", result |-> o[1]] ELSE doing
  BY DEF JobReturns
<1>2. /\ jobs' = jobs \ {j}
      /\ UNCHANGED <<cycle, queue, to_worker, to_server, issued, acks, conn, gen_queue>>
  BY DEF JobReturns
<1> DEFINE e == Effect(j)
<1>3. /\ j.id \in Nat \ {0} /\ j.action \in AllActions /\ j.conn \in Nat /\ j.conn <= conn
      /\ conn \in Nat /\ e \in Effects /\ e.id = j.id /\ e.conn = j.conn /\ effects \in Seq(Effects)
  BY DEF RecordsOK, Effect, Effects
<1>4. effects' = effects \/ effects' = Append(effects, e)
  BY <1>1 DEF Apply, Effect
<1> HIDE DEF e
<1>5. /\ effects' \in Seq(Effects) /\ Len(effects) \in Nat
      /\ \A i \in DOMAIN effects : i \in 1..Len(effects) /\ i \in DOMAIN effects'
      /\ \A i \in DOMAIN effects' :
           \/ i \in DOMAIN effects /\ effects'[i] = effects[i]
           \/ i = Len(effects) + 1 /\ effects'[i] = e
  BY <1>3, <1>4, EffectsGrow
<1>6. \/ doing.id = j.id /\ doing' \in Returned /\ doing'.id = j.id
      \/ doing.id # j.id /\ doing' = doing
  BY <1>1, <1>3, OutcomeFacts DEF Returned
<1>7. RecordsOK'
  <2>1. \A i \in DOMAIN effects' : effects'[i].conn <= conn
    <3>1. \A i \in DOMAIN effects : effects[i].conn <= conn
      BY DEF RecordsOK
    <3>2. QED
      BY <1>3, <1>5, <3>1
  <2>2. doing' \in Begun \cup Returned \cup {NoDirective}
    BY <1>6 DEF RecordsOK
  <2>3. QED
    BY <1>2, <1>5, <2>1, <2>2 DEF RecordsOK, Effects
<1>8. LineInv'
  <2>1. doing'.id = doing.id
    BY <1>6
  <2>2. \A i \in DOMAIN effects' : PastLine(effects'[i].id, queue, to_worker, Len(issued))
    BY <1>3, <1>5 DEF OrderInv, LineInv
  <2>3. QED
    BY <1>2, <2>1, <2>2 DEF OrderInv, LineInv
<1>9. LoopInv'
  <2>1. doing' # NoDirective => cycle' = "serving"
    BY <1>2, <1>3, <1>6, Doings DEF OrderInv, LoopInv
  <2>2. \A k \in jobs' : k \in jobs /\ k # j
    BY <1>2
  <2>3. \A k \in jobs', i \in DOMAIN effects' :
          /\ effects'[i].id # k.id
          /\ effects'[i].conn = k.conn => effects'[i].id < k.id
    BY <1>3, <1>5, <2>2 DEF OrderInv, LoopInv
  <2>4. cycle' = "serving" => \A k \in jobs' : k.conn = conn' => doing' \in Begun /\ doing'.at = "running"
    <3>1. ASSUME cycle = "serving", NEW k \in jobs', k.conn = conn
          PROVE doing' \in Begun /\ doing'.at = "running"
      <4>1. doing \in Begun /\ doing.at = "running" /\ k.id # j.id /\ k.conn # j.conn
        BY <2>2, <3>1 DEF OrderInv, LoopInv
      <4>2. doing.id # j.id
        <5>1. k.id < doing.id \/ k = Job(doing)
          BY <2>2, <4>1 DEF OrderInv, LoopInv
        <5>2. j.id < doing.id \/ j = Job(doing)
          BY <4>1 DEF OrderInv, LoopInv
        <5>3. doing.conn = conn /\ Job(doing).conn = conn /\ j.conn # conn
          BY <3>1, <4>1 DEF OrderInv, LoopInv, Job
        <5>4. j.id < doing.id
          BY <5>2, <5>3
        <5>5. QED
          BY <5>4, Ids
      <4>3. QED
        BY <1>6, <4>1, <4>2
    <3>2. QED
      BY <1>2, <3>1
  <2>5. doing' \in Begun =>
          /\ doing'.conn = conn'
          /\ \A i \in DOMAIN effects' : effects'[i].id < doing'.id
          /\ \A k \in jobs' : k.id < doing'.id \/ (doing'.at = "running" /\ k = Job(doing'))
    <3> SUFFICES ASSUME doing' \in Begun
                 PROVE /\ doing'.conn = conn
                       /\ \A i \in DOMAIN effects' : effects'[i].id < doing'.id
                       /\ \A k \in jobs' : k.id < doing'.id \/ (doing'.at = "running" /\ k = Job(doing'))
      BY <1>2
    <3>1. doing' = doing /\ doing.id # j.id
      BY <1>6, Doings
    <3>2. j.id < doing.id
      <4>1. j.id < doing.id \/ j = Job(doing)
        BY <3>1 DEF OrderInv, LoopInv
      <4>2. Job(doing).id = doing.id
        BY DEF Job
      <4>3. QED
        BY <3>1, <4>1, <4>2
    <3>3. \A i \in DOMAIN effects' : effects'[i].id < doing.id
      BY <1>3, <1>5, <3>1, <3>2 DEF OrderInv, LoopInv
    <3>4. QED
      BY <2>2, <3>1, <3>3 DEF OrderInv, LoopInv
  <2>6. QED
    BY <2>1, <2>2, <2>3, <2>4, <2>5 DEF OrderInv, LoopInv
<1>10. AppliedOnceInOrder'
  <2>1. ASSUME NEW i \in DOMAIN effects', NEW k \in DOMAIN effects', i < k
        PROVE /\ effects'[i].id # effects'[k].id
              /\ effects'[i].conn = effects'[k].conn => effects'[i].id < effects'[k].id
    <3>1. i \in DOMAIN effects /\ effects'[i] = effects[i]
      BY <1>5, <2>1
    <3>2. CASE k \in DOMAIN effects /\ effects'[k] = effects[k]
      BY <2>1, <3>1, <3>2 DEF OrderInv, AppliedOnceInOrder
    <3>3. CASE effects'[k] = e
      BY <1>3, <3>1, <3>3 DEF OrderInv, LoopInv
    <3>4. QED
      BY <1>5, <3>2, <3>3
  <2>2. QED
    BY <2>1 DEF AppliedOnceInOrder
<1>11. QED
  BY <1>7, <1>8, <1>9, <1>10 DEF OrderInv

\* A call in a thread hangs: its job is never over.
LEMMA JobHangsStep ==
  ASSUME RecordsOK, OrderInv, NEW j \in jobs, JobHangs(j)
  PROVE  RecordsOK' /\ OrderInv'
<1> USE DEF cycleVars, wireVars
<1>1. /\ jobs' \subseteq jobs
      /\ UNCHANGED <<cycle, queue, to_worker, to_server, issued, doing, effects, acks, conn, gen_queue>>
  BY DEF JobHangs
<1>2. RecordsOK'
  BY <1>1 DEF RecordsOK
<1>3. LineInv'
  BY <1>1 DEF OrderInv, LineInv
<1>4. LoopInv'
  BY <1>1 DEF OrderInv, LoopInv
<1>5. AppliedOnceInOrder'
  BY <1>1 DEF OrderInv, AppliedOnceInOrder
<1>6. QED
  BY <1>2, <1>3, <1>4, <1>5 DEF OrderInv

\* A push: the connection ends, or the queues are what the loop leaves of them.
LEMMA PushEffect ==
  ASSUME NEW env, NEW q, NEW d, NEW g, Push(env, q, d, g)
  PROVE  /\ UNCHANGED conn
         /\ \/ EndCycle /\ cycle' = "backoff" /\ doing' = NoDirective /\ gen_queue' = <<>>
            \/ /\ UNCHANGED <<cycle, to_worker>> /\ queue' = q /\ doing' = d /\ gen_queue' = g
               /\ to_server' = to_server \/ to_server' = Append(to_server, env)
<1>1. CASE PushRaises
  BY <1>1 DEF Push, EndServing, EndCycle
<1>2. CASE ~PushRaises
  BY <1>2 DEF Push, Pushed
<1>3. QED
  BY <1>1, <1>2

LEMMA PushStep ==
  ASSUME RecordsOK, OrderInv, NEW env \in Replies, NEW d, NEW g \in Seq(Nat), Push(env, queue, d, g),
         d = doing \/ (d = NoDirective /\ doing \in Returned),
         UNCHANGED <<issued, jobs, effects, acks>>
  PROVE  RecordsOK' /\ OrderInv'
<1>1. /\ UNCHANGED conn
      /\ \/ EndCycle /\ cycle' = "backoff" /\ doing' = NoDirective /\ gen_queue' = <<>>
         \/ /\ UNCHANGED <<cycle, to_worker>> /\ queue' = queue /\ doing' = d /\ gen_queue' = g
            /\ to_server' = to_server \/ to_server' = Append(to_server, env)
  BY PushEffect
<1>2. CASE EndCycle /\ cycle' = "backoff" /\ doing' = NoDirective /\ gen_queue' = <<>>
  <2>1. Wires /\ Calm
    BY <1>2, ConnectionLine DEF OrderInv
  <2>2. RecordsOK'
    BY <1>1, <1>2, <2>1 DEF RecordsOK, Wires
  <2>3. QED
    BY <1>1, <1>2, <2>1, <2>2, EndStep
<1>3. CASE /\ UNCHANGED <<cycle, to_worker>> /\ queue' = queue /\ doing' = d /\ gen_queue' = g
           /\ to_server' = to_server \/ to_server' = Append(to_server, env)
  <2>1. to_server' \in Seq(Replies)
    <3>1. to_server \in Seq(Replies)
      BY DEF RecordsOK
    <3>2. Append(to_server, env) \in Seq(Replies)
      BY <3>1
    <3>3. QED
      BY <1>3, <3>1, <3>2
  <2>2. RecordsOK'
    BY <1>1, <1>3, <2>1 DEF RecordsOK
  <2>3. Calm
    BY <1>3 DEF OrderInv, LineInv, Calm
  <2>4. CASE d = doing
    BY <1>1, <1>3, <2>2, <2>3, <2>4, QuietStep
  <2>5. CASE d = NoDirective /\ doing \in Returned
    <3>1. PastLine(0, queue, to_worker, Len(issued))
      <4>1. PastLine(doing.id, queue, to_worker, Len(issued)) /\ doing.id \in Nat
        BY Ids DEF OrderInv, LineInv
      <4>2. /\ \A i \in DOMAIN queue : queue[i].id \in Nat
            /\ \A i \in Enveloped(to_worker) : to_worker[i].payload.id \in Nat
        BY Ids, EnvelopePayload DEF RecordsOK
      <4>3. QED
        BY <4>1, <4>2, Ids DEF PastLine
    <3>2. LineInv'
      BY <1>3, <2>5, <3>1, Doings DEF OrderInv, LineInv
    <3>3. LoopInv'
      BY <1>1, <1>3, <2>5, Doings DEF OrderInv, LoopInv
    <3>4. AppliedOnceInOrder'
      BY DEF OrderInv, AppliedOnceInOrder
    <3>5. QED
      BY <2>2, <3>2, <3>3, <3>4 DEF OrderInv
  <2>6. QED
    BY <2>4, <2>5
<1>4. QED
  BY <1>1, <1>2, <1>3

LEMMA AckJobStep ==
  ASSUME RecordsOK, OrderInv, AckJob
  PROVE  RecordsOK' /\ OrderInv'
<1>1. doing \in Returned
  BY DEF AckJob, RecordsOK, Begun
<1>2. Ack(doing.id, doing.result) \in Replies
  BY <1>1, ReplyFrames DEF Returned
<1>3. gen_queue \in Seq(Nat)
  BY DEF RecordsOK
<1>4. QED
  BY <1>1, <1>2, <1>3, PushStep DEF AckJob

LEMMA EventLoopStep ==
  ASSUME RecordsOK, OrderInv, EventLoop
  PROVE  RecordsOK' /\ OrderInv'
<1>1. gen_queue \in Seq(Nat) /\ gen_queue # <<>>
  BY DEF RecordsOK, EventLoop
<1>2. Tail(gen_queue) \in Seq(Nat) /\ Head(gen_queue) \in Nat
  BY <1>1
<1>3. Event(Head(gen_queue)) \in Replies
  BY <1>2, ReplyFrames
<1>4. QED
  <2>1. PICK d, g, env : d = doing /\ g = Tail(gen_queue) /\ env = Event(Head(gen_queue))
    OBVIOUS
  <2>2. /\ Push(env, queue, d, g) /\ g \in Seq(Nat) /\ env \in Replies
        /\ UNCHANGED <<issued, jobs, effects, acks>>
    BY <1>2, <1>3, <2>1 DEF EventLoop
  <2>3. QED
    BY <2>1, <2>2, PushStep

\* A connection begins: nothing of it is under way yet.
LEMMA ServingStep ==
  ASSUME RecordsOK, OrderInv, StartServing
  PROVE  RecordsOK' /\ OrderInv'
<1>1. /\ JoinOk /\ cycle = "joining" /\ cycle' = "serving" /\ conn' = conn + 1 /\ gen_queue' = <<>>
      /\ UNCHANGED <<issued, doing, jobs, effects, acks>> /\ conn \in Nat
  BY DEF StartServing, JoinOk, EmitEvents, directiveVars, RecordsOK
<1>2. Wires /\ Calm
  BY <1>1, ConnectionLine DEF OrderInv
<1>3. doing = NoDirective
  BY <1>1 DEF OrderInv, LoopInv
<1>4. /\ \A j \in jobs : j.conn \in Nat /\ j.conn <= conn
      /\ \A i \in DOMAIN effects : effects[i].conn \in Nat /\ effects[i].conn <= conn
  BY <1>1, Ids DEF RecordsOK
<1>5. RecordsOK'
  <2>1. jobs' \subseteq [id: Nat \ {0}, action: AllActions, conn: 0..conn']
    BY <1>1 DEF RecordsOK
  <2>2. \A i \in DOMAIN effects' : effects'[i].conn <= conn'
    BY <1>1, <1>4
  <2>3. QED
    BY <1>1, <1>2, <2>1, <2>2 DEF RecordsOK, Wires
<1>6. LineInv'
  BY <1>1, <1>2, Ids DEF OrderInv, LineInv, Calm
<1>7. LoopInv'
  BY <1>1, <1>3, <1>4, Doings DEF OrderInv, LoopInv
<1>8. AppliedOnceInOrder'
  BY <1>1 DEF OrderInv, AppliedOnceInOrder
<1>9. QED
  BY <1>5, <1>6, <1>7, <1>8 DEF OrderInv

\* esrd issues the next directive.
LEMMA IssueStep ==
  ASSUME RecordsOK, OrderInv, NEW a \in AllActions, IssueDirective(a)
  PROVE  RecordsOK' /\ OrderInv'
<1> DEFINE n == Len(issued)
           p == [kind |-> "directive", id |-> Len(issued'), action |-> a]
<1>1. /\ issued' = Append(issued, a) /\ issued \in Seq(AllActions)
      /\ UNCHANGED <<cycle, queue, to_server, doing, jobs, effects, acks, conn, gen_queue>>
      /\ to_worker' = to_worker \/ to_worker' = Append(to_worker, Envelope(p))
  BY DEF IssueDirective, Broadcast, generatorVars, RecordsOK
<1>2. issued' \in Seq(AllActions) /\ Len(issued') = n + 1 /\ n \in Nat
  BY <1>1
<1>3. p \in Directives /\ p.id = n + 1
  BY <1>2 DEF Directives
<1> HIDE DEF p
<1>4. /\ to_worker' \in Seq(Frames) /\ InLine(queue, to_worker', n + 1)
      /\ \A id \in Nat : PastLine(id, queue, to_worker, n) => PastLine(id, queue, to_worker', n + 1)
  BY <1>1, <1>2, <1>3, LineIssue DEF OrderInv, LineInv, RecordsOK
<1>5. RecordsOK'
  BY <1>1, <1>2, <1>4 DEF RecordsOK
<1>6. Calm
  BY <1>1, <1>2, <1>4 DEF Calm
<1>7. QED
  BY <1>1, <1>5, <1>6, QuietStep

\* The other steps.
LEMMA RemainingStep ==
  ASSUME RecordsOK, OrderInv,
         \/ ConnectionStep /\ UNCHANGED sidecarVars
         \/ SidecarJoinRaises \/ SidecarWatchDisconnect
         \/ StartWs \/ PollChatMessages \/ PollHangs \/ MockConnects \/ MockDrops \/ ServerReads
         \/ \E m \in unsent, g \in ws_threads : LarkPushes(m, g)
         \/ \E bot \in BOOLEAN : Post(bot)
         \/ UNCHANGED vars,
         gen_queue' \in Seq(Nat)
  PROVE  RecordsOK' /\ OrderInv'
<1> USE DEF vars, cycleVars, wireVars, sidecarVars, directiveVars, generatorVars, threadVars
<1>1. CASE ConnectionStep /\ UNCHANGED sidecarVars
  <2>1. Wires /\ Calm
    BY <1>1, ConnectionLine DEF OrderInv
  <2>2. RecordsOK'
    BY <1>1, <2>1 DEF RecordsOK, Wires
  <2>3. QED
    BY <1>1, <2>1, <2>2, ConnectionCycle, QuietStep
<1>2. CASE SidecarJoinRaises \/ SidecarWatchDisconnect
  <2>1. /\ EndCycle /\ cycle' = "backoff" /\ UNCHANGED <<issued, jobs, effects, acks, conn>>
        /\ doing' = NoDirective
    BY <1>2 DEF SidecarJoinRaises, JoinRaises, SidecarWatchDisconnect, EndServing, EndCycle,
                OrderInv, LoopInv
  <2>2. Wires /\ Calm
    BY <2>1, ConnectionLine DEF OrderInv
  <2>3. RecordsOK'
    BY <2>1, <2>2 DEF RecordsOK, Wires
  <2>4. QED
    BY <2>1, <2>2, <2>3, EndStep
<1>3. CASE ServerReads
  <2>1. /\ to_server # <<>> /\ to_server' = Tail(to_server) /\ to_server \in Seq(Replies)
        /\ UNCHANGED <<cycle, queue, to_worker, issued, doing, jobs, effects, conn, gen_queue>>
    BY <1>3 DEF ServerReads, RecordsOK
  <2>2. acks' \subseteq [id: Nat \ {0}, ok: BOOLEAN, result: Results]
    <3> DEFINE f == Head(to_server)
    <3>1. f \in Replies
      BY <2>1
    <3>2. f.kind = "directive_ack" => f.id \in Nat \ {0} /\ f.ok \in BOOLEAN /\ f.result \in Results
      BY <3>1 DEF Replies
    <3>3. acks' = acks \/ (f.kind = "directive_ack"
                            /\ acks' = acks \cup {[id |-> f.id, ok |-> f.ok, result |-> f.result]})
      BY <1>3 DEF ServerReads
    <3> HIDE DEF f
    <3>4. QED
      BY <3>2, <3>3 DEF RecordsOK
  <2>3. to_server' \in Seq(Replies)
    BY <2>1
  <2>4. RecordsOK'
    BY <2>1, <2>2, <2>3 DEF RecordsOK
  <2>5. Calm
    BY <2>1 DEF OrderInv, LineInv, Calm
  <2>6. QED
    BY <2>1, <2>4, <2>5, QuietStep
<1>4. CASE \/ StartWs \/ PollChatMessages \/ PollHangs \/ MockConnects \/ MockDrops
           \/ \E m \in unsent, g \in ws_threads : LarkPushes(m, g)
           \/ \E bot \in BOOLEAN : Post(bot)
           \/ UNCHANGED vars
  <2>1. UNCHANGED <<cycle, queue, to_worker, to_server, issued, doing, jobs, effects, acks, conn>>
    BY <1>4 DEF StartWs, PollChatMessages, PollHangs, MockConnects, MockDrops, LarkPushes, Post
  <2>2. RecordsOK'
    BY <2>1 DEF RecordsOK
  <2>3. Calm
    BY <2>1 DEF OrderInv, LineInv, Calm
  <2>4. QED
    BY <2>1, <2>2, <2>3, QuietStep
<1>5. QED
  BY <1>1, <1>2, <1>3, <1>4

---------------------------------------------------------------------------
(* The poll *)

\* The numbers of an interval can be put in order.
LEMMA IntervalInOrder ==
  ASSUME NEW lo \in Nat, NEW hi \in Nat, NEW S, S = (lo + 1)..hi
  PROVE  /\ InOrder(S) \in Seq(S)
         /\ \A i, j \in DOMAIN InOrder(S) : i < j => InOrder(S)[i] < InOrder(S)[j]
<1> DEFINE n == IF lo < hi THEN hi - lo ELSE 0
           up == [i \in 1..n |-> lo + i]
           Sorted(q) == \A i, j \in DOMAIN q : i < j => q[i] < q[j]
<1>1. n \in Nat /\ Cardinality(S) = n
  BY FS_Interval
<1>2. up \in SetToSeqs(S) /\ Sorted(up)
  <2>1. \A i \in 1..n : lo + i \in S
    OBVIOUS
  <2>2. up \in [1..n -> S] /\ DOMAIN up = 1..n /\ \A i \in 1..n : up[i] = lo + i
    BY <2>1
  <2> HIDE DEF up, n
  <2>3. \A i, j \in 1..n : i # j => up[i] # up[j]
    BY <1>1, <2>2
  <2>4. \A i, j \in 1..n : i < j => up[i] < up[j]
    BY <1>1, <2>2
  <2>5. QED
    BY <1>1, <2>2, <2>3, <2>4 DEF SetToSeqs
<1> HIDE DEF up, n, Sorted
<1>3. InOrder(S) = CHOOSE q \in SetToSeqs(S) : Sorted(q)
  BY DEF InOrder, Sorted
<1>4. InOrder(S) \in SetToSeqs(S) /\ Sorted(InOrder(S))
  BY <1>2, <1>3
<1>5. InOrder(S) \in [1..n -> S]
  BY <1>1, <1>4 DEF SetToSeqs
<1>6. InOrder(S) \in Seq(S)
  BY <1>1, <1>5
<1>7. QED
  BY <1>4, <1>6 DEF Sorted

\* A sequence in order, followed by another one in order and above it.
LEMMA InOrderAfter ==
  ASSUME NEW T, T \subseteq Nat, NEW p \in Seq(T), NEW q \in Seq(T), NEW m \in Nat,
         \A i, j \in DOMAIN p : i < j => p[i] < p[j],
         \A i, j \in DOMAIN q : i < j => q[i] < q[j],
         \A i \in DOMAIN p : p[i] <= m, \A i \in DOMAIN q : m < q[i]
  PROVE  /\ p \o q \in Seq(T)
         /\ \A i, j \in DOMAIN (p \o q) : i < j => (p \o q)[i] < (p \o q)[j]
<1> DEFINE r == p \o q
<1>1. /\ r \in Seq(T) /\ Len(r) = Len(p) + Len(q) /\ Len(p) \in Nat /\ Len(q) \in Nat
      /\ DOMAIN p = 1..Len(p) /\ DOMAIN q = 1..Len(q)
  OBVIOUS
<1>2. DOMAIN r = 1..(Len(p) + Len(q))
  BY <1>1
<1>3. /\ \A i \in 1..Len(p) : r[i] = p[i]
      /\ \A i \in (Len(p) + 1)..(Len(p) + Len(q)) : r[i] = q[i - Len(p)]
  BY <1>1
<1>4. /\ \A i \in DOMAIN p : p[i] \in Nat
      /\ \A i \in DOMAIN q : q[i] \in Nat
  <2>1. (\A i \in DOMAIN p : p[i] \in T) /\ (\A i \in DOMAIN q : q[i] \in T)
    OBVIOUS
  <2>2. QED
    BY <2>1
<1> HIDE DEF r
<1>5. ASSUME NEW i \in DOMAIN r, NEW j \in DOMAIN r, i < j  PROVE r[i] < r[j]
  <2>1. CASE j \in 1..Len(p)
    BY <1>1, <1>2, <1>3, <1>5, <2>1
  <2>2. CASE i \in 1..Len(p) /\ j \in (Len(p) + 1)..(Len(p) + Len(q))
    <3>1. j - Len(p) \in DOMAIN q /\ r[j] = q[j - Len(p)] /\ r[i] = p[i] /\ i \in DOMAIN p
      BY <1>1, <1>3, <2>2
    <3>2. p[i] <= m /\ m < q[j - Len(p)] /\ p[i] \in Nat /\ q[j - Len(p)] \in Nat
      BY <1>4, <3>1
    <3>3. QED
      BY <3>1, <3>2
  <2>3. CASE i \in (Len(p) + 1)..(Len(p) + Len(q)) /\ j \in (Len(p) + 1)..(Len(p) + Len(q))
    <3>1. /\ j - Len(p) \in DOMAIN q /\ r[j] = q[j - Len(p)] /\ i - Len(p) < j - Len(p)
          /\ i - Len(p) \in DOMAIN q /\ r[i] = q[i - Len(p)]
      BY <1>1, <1>3, <1>5, <2>3
    <3>2. QED
      BY <3>1
  <2>4. QED
    BY <1>1, <1>2, <1>5, <2>1, <2>2, <2>3
<1>6. QED
  BY <1>1, <1>5 DEF r

\* A prefix of one is one.
LEMMA InOrderPrefix ==
  ASSUME NEW T, NEW q \in Seq(T), NEW k \in 0..Len(q), NEW m \in Nat, NEW p, p = SubSeq(q, 1, k),
         \A i, j \in DOMAIN q : i < j => q[i] < q[j], \A i \in DOMAIN q : m < q[i]
  PROVE  /\ p \in Seq(T)
         /\ \A i, j \in DOMAIN p : i < j => p[i] < p[j]
         /\ \A i \in DOMAIN p : m < p[i]
<1>1. p \in Seq(T) /\ \A i \in DOMAIN p : i \in DOMAIN q /\ p[i] = q[i]
  OBVIOUS
<1>2. QED
  BY <1>1

LEMMA PollInit == Init => PollInv
<1> SUFFICES ASSUME Init PROVE PollInv
  OBVIOUS
<1>1. posted = <<>> /\ unsent = {} /\ seen = {} /\ polled = <<>> /\ cycle = "top"
  BY DEF Init, CycleInit
<1>2. QED
  BY <1>1 DEF PollInv, PolledInOrder

\* A step that leaves the poll alone, or ends it.
LEMMA PollKept ==
  ASSUME PollInv, UNCHANGED <<posted, polled>>, unsent' \subseteq unsent,
         \/ UNCHANGED <<seen, bootstrap>> /\ (cycle' = "serving" => cycle = "serving")
         \/ seen' = {} /\ (bootstrap' \/ cycle' # "serving")
  PROVE  PollInv'
<1>1. PolledInOrder' /\ posted' = posted /\ polled' = polled
  BY DEF PollInv, PolledInOrder
<1>2. CASE UNCHANGED <<seen, bootstrap>> /\ (cycle' = "serving" => cycle = "serving")
  <2>1. \A m : SeenTo(m) => SeenTo(m)'
    BY <1>2 DEF SeenTo
  <2>2. cycle' = "serving" /\ ~bootstrap' => \E m \in 0..Len(posted') : SeenTo(m)'
    <3> SUFFICES ASSUME cycle' = "serving", ~bootstrap'
                 PROVE \E m \in 0..Len(posted') : SeenTo(m)'
      OBVIOUS
    <3>1. PICK m \in 0..Len(posted) : SeenTo(m)
      BY <1>2 DEF PollInv
    <3>2. SeenTo(m)'
      BY <1>2, <3>1 DEF SeenTo
    <3>3. QED
      BY <3>1, <3>2
  <2>3. QED
    BY <1>1, <1>2, <2>2 DEF PollInv
<1>3. CASE seen' = {} /\ (bootstrap' \/ cycle' # "serving")
  BY <1>1, <1>3 DEF PollInv
<1>4. QED
  BY <1>2, <1>3

\* A pass: what is new is what was posted after the last page, or the first of it.
LEMMA PollPass ==
  ASSUME PollInv, PollChatMessages
  PROVE  PollInv' /\ \E q \in Seq(Nat) : gen_queue' = gen_queue \o q
<1>0. PICK N \in Nat : N = Len(posted)
  BY DEF PollInv
<1>1. /\ cycle = "serving" /\ UNCHANGED <<cycle, posted, unsent>> /\ seen' = seen \cup Page
      /\ bootstrap' = FALSE
  BY DEF PollChatMessages, Polling, cycleVars, larkVars
<1> DEFINE Handed(k, q) == /\ k \in 0..Len(Fresh) /\ q = SubSeq(Fresh, 1, k)
                           /\ gen_queue' = gen_queue \o q /\ polled' = polled \o q
<1>2. PICK n, q : Handed(n, q)
  BY DEF PollChatMessages
<1>3. DOMAIN posted = 1..N /\ Page = {i \in 1..N : i > N - PageSize} /\ PageSize \in Nat
  BY <1>0, SidecarBoundAssumption DEF PollInv, Page
<1>4. /\ polled \in Seq(1..N) /\ seen \subseteq 1..N
      /\ \A i, j \in DOMAIN polled : i < j => polled[i] < polled[j]
  BY <1>0, <1>3 DEF PollInv, PolledInOrder
<1>5. /\ q \in Seq(1..N)
      /\ polled' \in Seq(1..N)
      /\ \A i, j \in DOMAIN polled' : i < j => polled'[i] < polled'[j]
  <2>1. CASE bootstrap
    <3>1. Fresh = <<>>
      BY <2>1 DEF Fresh
    <3>2. SubSeq(Fresh, 1, n) = <<>>
      BY <1>2, <3>1
    <3>3. q = <<>> /\ polled' = polled \o q
      BY <1>2, <3>2, Zenon
    <3>4. polled' = polled
      BY <1>4, <3>3
    <3>5. QED
      BY <1>4, <3>3, <3>4
  <2>2. CASE ~bootstrap
    <3>1. PICK m \in 0..N : SeenTo(m)
      BY <1>0, <1>1, <2>2 DEF PollInv
    <3>2. PICK lo \in Nat : lo = IF N - PageSize > m THEN N - PageSize ELSE m
      <4>1. CASE N - PageSize > m
        <5>1. N - PageSize \in Nat
          BY <1>3, <4>1
        <5>2. QED
          BY <4>1, <5>1
      <4>2. CASE ~(N - PageSize > m)
        BY <4>2
      <4>3. QED
        BY <4>1, <4>2
    <3>3. Page \ seen = (lo + 1)..N
      <4>1. \A k \in 1..N : k > N - PageSize /\ k \notin seen <=> k > lo
        BY <1>3, <3>1, <3>2 DEF SeenTo
      <4>2. QED
        BY <1>3, <3>2, <4>1
    <3>4. PICK S : S = Page \ seen
      OBVIOUS
    <3>5. /\ Fresh = InOrder(S) /\ InOrder(S) \in Seq(S)
          /\ \A i, j \in DOMAIN InOrder(S) : i < j => InOrder(S)[i] < InOrder(S)[j]
      BY <2>2, <3>3, <3>4, IntervalInOrder DEF Fresh
    <3>6. S \subseteq 1..N /\ \A k \in S : m < k
      BY <3>1, <3>2, <3>3, <3>4
    <3>7. Fresh \in Seq(1..N) /\ \A i \in DOMAIN Fresh : m < Fresh[i]
      <4> DEFINE r == InOrder(S)
      <4>1. r \in Seq(S) /\ Fresh = r
        BY <3>5
      <4> HIDE DEF r
      <4>2. r \in [1..Len(r) -> S] /\ Len(r) \in Nat
        BY <4>1
      <4>3. r \in [1..Len(r) -> 1..N]
        BY <3>6, <4>2
      <4>4. r \in Seq(1..N)
        BY <4>2, <4>3
      <4>5. \A i \in DOMAIN r : m < r[i]
        BY <3>6, <4>2
      <4>6. QED
        BY <4>1, <4>4, <4>5
    <3>8. \A i \in DOMAIN polled : polled[i] <= m
      BY <3>1 DEF SeenTo
    <3>9. 1..N \subseteq Nat /\ m \in Nat
      OBVIOUS
    <3>10. PICK fresh : fresh = Fresh
      OBVIOUS
    <3>11. /\ q \in Seq(1..N)
           /\ \A i, j \in DOMAIN q : i < j => q[i] < q[j]
           /\ \A i \in DOMAIN q : m < q[i]
      BY <1>2, <3>5, <3>7, <3>9, <3>10, InOrderPrefix
    <3>12. QED
      BY <1>2, <1>4, <3>8, <3>9, <3>11, InOrderAfter
  <2>3. QED
    BY <2>1, <2>2
<1>6. q \in Seq(Nat)
  <2>1. q \in [1..Len(q) -> 1..N] /\ Len(q) \in Nat
    BY <1>5
  <2>2. q \in [1..Len(q) -> Nat]
    BY <2>1
  <2>3. QED
    BY <2>1, <2>2
<1>7. SeenTo(N)'
  <2>1. \A i \in DOMAIN polled' : polled'[i] <= N
    <3>1. \A i \in DOMAIN polled' : polled'[i] \in 1..N
      BY <1>5
    <3>2. QED
      BY <3>1
  <2>2. \A k \in 1..N : k > N - PageSize => k \in seen'
    BY <1>1, <1>3
  <2>3. seen' \subseteq 1..N
    BY <1>1, <1>3, <1>4
  <2>4. QED
    BY <2>1, <2>2, <2>3 DEF SeenTo
<1>8. PolledInOrder'
  BY <1>5 DEF PolledInOrder
<1>9. posted' = posted /\ Len(posted') = N /\ DOMAIN posted' = 1..N /\ unsent' = unsent
  BY <1>0, <1>1, <1>3
<1>10. \E m \in 0..Len(posted') : SeenTo(m)'
  <2>1. N \in 0..Len(posted')
    BY <1>9
  <2>2. QED
    BY <1>7, <2>1
<1>11. seen' \subseteq 1..N
  BY <1>1, <1>3, <1>4
<1>12. PollInv'
  BY <1>5, <1>8, <1>9, <1>10, <1>11 DEF PollInv
<1>13. QED
  BY <1>2, <1>6, <1>12

\* A message more in the chat.
LEMMA PostPoll ==
  ASSUME PollInv, NEW bot \in BOOLEAN, Post(bot)
  PROVE  PollInv'
<1>1. /\ posted' = Append(posted, [bot |-> bot]) /\ posted \in Seq([bot: BOOLEAN])
      /\ UNCHANGED <<cycle, seen, bootstrap, polled>>
      /\ unsent' = unsent \/ unsent' = unsent \cup {Len(posted')}
  BY DEF Post, cycleVars, PollInv
<1>2. /\ posted' \in Seq([bot: BOOLEAN]) /\ Len(posted') = Len(posted) + 1 /\ Len(posted) \in Nat
      /\ DOMAIN posted = 1..Len(posted)
  BY <1>1
<1>3. DOMAIN posted' = 1..(Len(posted) + 1)
  BY <1>2
<1>4. unsent' \subseteq DOMAIN posted' /\ seen' \subseteq DOMAIN posted'
  BY <1>1, <1>2, <1>3 DEF PollInv
<1>5. polled' \in Seq(1..Len(posted'))
  <2>1. polled \in [1..Len(polled) -> 1..Len(posted)] /\ Len(polled) \in Nat
    BY DEF PollInv
  <2>2. polled \in [1..Len(polled) -> 1..(Len(posted) + 1)]
    BY <1>2, <2>1
  <2>3. QED
    BY <1>1, <1>2, <2>1, <2>2
<1>6. PolledInOrder'
  BY <1>1 DEF PollInv, PolledInOrder
<1>7. ASSUME cycle' = "serving", ~bootstrap'  PROVE \E m \in 0..Len(posted') : SeenTo(m)'
  <2>1. PICK m \in 0..Len(posted) : SeenTo(m)
    BY <1>1, <1>7 DEF PollInv
  <2>2. SeenTo(m)' /\ m \in 0..Len(posted')
    BY <1>1, <1>2, <2>1 DEF SeenTo
  <2>3. QED
    BY <2>2
<1>8. QED
  BY <1>2, <1>4, <1>5, <1>6, <1>7 DEF PollInv

\* What an attempt of the loop leaves of the poll.
LEMMA AttemptPoll ==
  ASSUME NEW d, NEW q, Attempt(d, q)
  PROVE  \/ UNCHANGED <<seen, bootstrap, cycle>>
         \/ seen' = {} /\ cycle' = "backoff"
  BY DEF Attempt, CallReturns, CallHangs, Push, EndServing, EndCycle, generatorVars

LEMMA PollStep ==
  ASSUME PollInv, [Next]_vars
  PROVE  PollInv'
<1> USE DEF vars, cycleVars, wireVars, sidecarVars, directiveVars, generatorVars, threadVars, larkVars
<1>1. CASE ConnectionStep /\ UNCHANGED sidecarVars
  BY <1>1, ConnectionCycle, PollKept
<1>2. CASE StartServing
  BY <1>2, PollKept DEF StartServing, FirstPass
<1>3. CASE SidecarJoinRaises \/ SidecarWatchDisconnect
  BY <1>3, PollKept DEF SidecarJoinRaises, JoinRaises, SidecarWatchDisconnect, EndServing, EndCycle
<1>4. CASE TakeDirective
  <2>1. \/ UNCHANGED <<seen, bootstrap, cycle>>
        \/ \E d, q : Attempt(d, q)
    BY <1>4 DEF TakeDirective
  <2>2. QED
    BY <1>4, <2>1, AttemptPoll, PollKept DEF TakeDirective
<1>5. CASE SleepEnds
  <2>1. \E d, q : Attempt(d, q)
    BY <1>5 DEF SleepEnds
  <2>2. QED
    BY <1>5, <2>1, AttemptPoll, PollKept DEF SleepEnds
<1>6. CASE AckJob \/ EventLoop
  BY <1>6, PollKept DEF AckJob, EventLoop, Push, EndServing, EndCycle
<1>7. CASE \/ StartJob \/ StartWs \/ PollHangs \/ MockConnects \/ MockDrops \/ ServerReads
           \/ UNCHANGED vars
  BY <1>7, PollKept DEF StartJob, StartWs, PollHangs, MockConnects, MockDrops, ServerReads
<1>8. ASSUME NEW j \in jobs, JobReturns(j) \/ JobHangs(j)  PROVE PollInv'
  BY <1>8, PollKept DEF JobReturns, JobHangs
<1>9. ASSUME NEW m \in unsent, NEW g \in ws_threads, LarkPushes(m, g)  PROVE PollInv'
  BY <1>9, PollKept DEF LarkPushes
<1>10. ASSUME NEW a \in AllActions, IssueDirective(a)  PROVE PollInv'
  BY <1>10, PollKept DEF IssueDirective
<1>11. QED
  BY <1>1, <1>2, <1>3, <1>4, <1>5, <1>6, <1>7, <1>8, <1>9, <1>10, PollPass, PostPoll
     DEF Next, LoopStep, ThreadStep, OtherStep, ConnectionStep

\* The poll hands over each message at most once and in the order of the chat,
\* for any page and across connections (PolledInOrder).
THEOREM PolledInOrderHolds == Spec => []PolledInOrder
<1>1. Init => PollInv
  BY PollInit
<1>2. PollInv /\ [Next]_vars => PollInv'
  BY PollStep
<1>3. PollInv => PolledInOrder
  BY DEF PollInv
<1>4. QED
  BY <1>1, <1>2, <1>3, PTL DEF Spec

---------------------------------------------------------------------------
(* Directives, as a whole *)

LEMMA DirectiveStep ==
  ASSUME DirectiveInv, PollInv, [Next]_vars
  PROVE  DirectiveInv'
<1> USE DEF vars, cycleVars, wireVars, sidecarVars, directiveVars, generatorVars, threadVars, larkVars
<1>1. RecordsOK /\ OrderInv /\ gen_queue \in Seq(Nat)
  BY DEF DirectiveInv, OrderInv, RecordsOK
<1>2. CASE \/ ConnectionStep /\ UNCHANGED sidecarVars
           \/ StartWs \/ PollHangs \/ MockConnects \/ MockDrops \/ ServerReads
           \/ SidecarJoinRaises \/ SidecarWatchDisconnect \/ UNCHANGED vars
  <2>1. gen_queue' \in Seq(Nat)
    <3>1. gen_queue' = gen_queue \/ gen_queue' = <<>>
      BY <1>2
         DEF StartWs, PollHangs, MockConnects, MockDrops, ServerReads, SidecarJoinRaises,
             SidecarWatchDisconnect, EndServing
    <3>2. <<>> \in Seq(Nat) /\ gen_queue \in Seq(Nat)
      BY <1>1
    <3>3. QED
      BY <3>1, <3>2
  <2>2. QED
    BY <1>1, <1>2, <2>1, RemainingStep DEF DirectiveInv, OrderInv
<1>3. CASE PollChatMessages
  <2>1. PICK q \in Seq(Nat) : gen_queue' = gen_queue \o q
    BY <1>3, PollPass
  <2>2. gen_queue' \in Seq(Nat)
    BY <1>1, <2>1
  <2>3. QED
    BY <1>1, <1>3, <2>2, RemainingStep DEF DirectiveInv, OrderInv
<1>4. ASSUME NEW m \in unsent, NEW g \in ws_threads, LarkPushes(m, g)  PROVE DirectiveInv'
  <2>1. m \in Nat /\ (gen_queue' = gen_queue \/ gen_queue' = Append(gen_queue, m))
    BY <1>4 DEF PollInv, LarkPushes
  <2>2. gen_queue' \in Seq(Nat)
    BY <1>1, <2>1
  <2>3. QED
    BY <1>1, <1>4, <2>2, RemainingStep DEF DirectiveInv, OrderInv
<1>5. ASSUME NEW bot \in BOOLEAN, Post(bot)  PROVE DirectiveInv'
  <2>1. posted' = Append(posted, [bot |-> bot]) /\ posted \in Seq([bot: BOOLEAN])
    BY <1>5 DEF PollInv, Post
  <2>2. PICK m \in Nat : m = Len(posted')
    BY <2>1
  <2>3. gen_queue' = gen_queue \/ gen_queue' = Append(gen_queue, m)
    BY <1>5, <2>2 DEF Post, PushInbound, YieldMockEvent
  <2>4. gen_queue' \in Seq(Nat)
    BY <1>1, <2>3
  <2>5. QED
    BY <1>1, <1>5, <2>4, RemainingStep DEF DirectiveInv, OrderInv
<1>6. RecordsOK' /\ OrderInv' => DirectiveInv'
  BY DEF DirectiveInv, OrderInv
<1>7. QED
  BY <1>1, <1>2, <1>3, <1>4, <1>5, <1>6, ServingStep, TakeStep, SleepStep, StartJobStep, AckJobStep,
     JobReturnsStep, JobHangsStep, EventLoopStep, IssueStep
     DEF Next, LoopStep, ThreadStep, OtherStep, ConnectionStep

\* Lark carries a directive out at most once, and those of a connection in the order
\* esrd issued them, whatever the rate limit, threads and reconnects do
\* (AppliedOnceInOrder).
THEOREM AppliedOnceInOrderHolds == Spec => []AppliedOnceInOrder
<1> DEFINE Inv == DirectiveInv /\ PollInv
<1>1. Init => Inv
  BY DirectiveInit, PollInit
<1>2. Inv /\ [Next]_vars => Inv'
  BY DirectiveStep, PollStep
<1>3. Inv => AppliedOnceInOrder
  BY DEF DirectiveInv
<1>4. QED
  BY <1>1, <1>2, <1>3, PTL DEF Spec

---------------------------------------------------------------------------
(* Acks *)

\* The acks in s that say ok are of directives that es has.
Honest(s, es) ==
  \A i \in DOMAIN s : s[i].kind = "directive_ack" /\ s[i].result = "ok" => \E k \in DOMAIN es : es[k].id = s[i].id

\* One of the frames that may be sent.
HonestFrame(f, es) ==
  f.kind = "directive_ack" /\ f.result = "ok" => \E k \in DOMAIN es : es[k].id = f.id

Longer(es, fs) == \A i \in DOMAIN es : i \in DOMAIN fs /\ fs[i] = es[i]

LEMMA HonestKept ==
  ASSUME NEW s \in Seq(Replies), NEW es, NEW fs, Honest(s, es), Longer(es, fs)
  PROVE  /\ Honest(s, fs) /\ Honest(<<>>, fs)
         /\ s # <<>> => Honest(Tail(s), fs) /\ HonestFrame(Head(s), fs)
         /\ \A f \in Replies : HonestFrame(f, fs) => Honest(Append(s, f), fs)
<1>1. Honest(s, fs) /\ Honest(<<>>, fs)
  BY DEF Honest, Longer
<1>2. ASSUME s # <<>>  PROVE Honest(Tail(s), fs) /\ HonestFrame(Head(s), fs)
  <2>1. /\ Head(s) = s[1] /\ 1 \in DOMAIN s
        /\ \A i \in DOMAIN Tail(s) : i + 1 \in DOMAIN s /\ Tail(s)[i] = s[i + 1]
    BY <1>2
  <2>2. QED
    BY <1>1, <2>1 DEF Honest, HonestFrame
<1>3. ASSUME NEW f \in Replies, HonestFrame(f, fs)  PROVE Honest(Append(s, f), fs)
  <2>1. /\ Len(s) \in Nat /\ DOMAIN s = 1..Len(s) /\ Append(s, f) \in Seq(Replies)
        /\ Len(Append(s, f)) = Len(s) + 1
        /\ Append(s, f)[Len(s) + 1] = f /\ \A i \in 1..Len(s) : Append(s, f)[i] = s[i]
    OBVIOUS
  <2>2. DOMAIN Append(s, f) = 1..(Len(s) + 1)
    BY <2>1
  <2>3. ASSUME NEW i \in DOMAIN Append(s, f)
        PROVE (i \in DOMAIN s /\ Append(s, f)[i] = s[i]) \/ Append(s, f)[i] = f
    BY <2>1, <2>2
  <2>4. QED
    BY <1>1, <1>3, <2>3 DEF Honest, HonestFrame
<1>4. QED
  BY <1>1, <1>2, <1>3

LEMMA AckForm ==
  AckInv <=> /\ \A a \in acks : a.result = "ok" => \E k \in DOMAIN effects : effects[k].id = a.id
             /\ Honest(to_server, effects)
             /\ doing \in Returned /\ doing.result = "ok"
                  => \E k \in DOMAIN effects : effects[k].id = doing.id
  BY DEF AckInv, AckedMeansDone, Honest, CarriedOut

\* The general step: what is new on the way says ok of nothing that is not done.
LEMMA AckKept ==
  ASSUME RecordsOK, AckInv, Longer(effects, effects'),
         \/ to_server' = to_server \/ to_server' = <<>>
         \/ to_server # <<>> /\ to_server' = Tail(to_server)
         \/ \E f \in Replies : HonestFrame(f, effects') /\ to_server' = Append(to_server, f),
         \/ UNCHANGED acks
         \/ \E f : /\ HonestFrame(f, effects) /\ f.kind = "directive_ack"
                   /\ acks' = acks \cup {[id |-> f.id, ok |-> f.ok, result |-> f.result]},
         \/ doing' = doing \/ doing' \notin Returned
         \/ doing'.result = "ok" => \E k \in DOMAIN effects' : effects'[k].id = doing'.id
  PROVE  AckInv'
<1>1. to_server \in Seq(Replies) /\ Honest(to_server, effects)
  BY AckForm DEF RecordsOK
<1>2. Honest(to_server', effects')
  BY <1>1, HonestKept
<1>3. \A a \in acks' : a.result = "ok" => \E k \in DOMAIN effects' : effects'[k].id = a.id
  BY AckForm DEF Longer, HonestFrame
<1>4. doing' \in Returned /\ doing'.result = "ok" => \E k \in DOMAIN effects' : effects'[k].id = doing'.id
  BY AckForm DEF Longer
<1>5. QED
  BY <1>2, <1>3, <1>4 DEF AckInv, AckedMeansDone, Honest, CarriedOut

\* The frames esrd and the client exchange to connect.
LEMMA ConnectionServer ==
  ASSUME ConnectionStep \/ JoinOk \/ EndCycle
  PROVE  \/ to_server' = to_server \/ to_server' = <<>>
         \/ to_server # <<>> /\ to_server' = Tail(to_server)
         \/ \E f \in {Join, Hello} : to_server' = Append(to_server, f)
  BY DEF ConnectionStep, WorkerStep, EsrdStep, ResolveUrl, BackoffEnds, Connect, ConnectFails,
         ReadLoop, ReadLoopEnds, ServerReadsHello, WsDrops, ServerStops, LauncherStep,
         ServerListens, WritePortFile, ChannelCrashes, ServerJoins, Break, JoinOk, Pushed, EndCycle,
         wireVars

LEMMA ConnectionAcks ==
  ASSUME RecordsOK, AckInv, ConnectionStep \/ JoinOk \/ EndCycle, UNCHANGED <<acks, effects>>,
         doing' = doing \/ doing' = NoDirective
  PROVE  AckInv'
<1>1. Join.kind # "directive_ack" /\ Hello.kind # "directive_ack"
  BY DEF Join, Hello
<1>2. Longer(effects, effects')
  BY DEF Longer
<1>3. /\ HonestFrame(Join, effects') /\ Join \in Replies
      /\ HonestFrame(Hello, effects') /\ Hello \in Replies
  BY <1>1, ReplyFrames DEF HonestFrame
<1>4. \/ to_server' = to_server \/ to_server' = <<>>
      \/ to_server # <<>> /\ to_server' = Tail(to_server)
      \/ \E f \in Replies : HonestFrame(f, effects') /\ to_server' = Append(to_server, f)
  BY <1>3, ConnectionServer
<1>5. doing' = doing \/ doing' \notin Returned
  BY Doings
<1>6. QED
  BY <1>2, <1>4, <1>5, AckKept

\* A call of the loop that says ok has been carried out.
LEMMA AttemptAcks ==
  ASSUME RecordsOK, AckInv, NEW d \in Begun, NEW q, Attempt(d, q), UNCHANGED acks
  PROVE  AckInv'
<1>1. d.action \in AllActions /\ d.id \in Nat \ {0} /\ d.conn \in Nat /\ effects \in Seq(Effects)
  BY DEF Begun, RecordsOK, Effects
<1>2. effects' = effects \/ effects' = Append(effects, Effect(d))
  BY <1>1, AttemptEffect
<1>3. Effect(d) \in Effects
  BY <1>1 DEF Effect, Effects
<1>4. Longer(effects, effects')
  BY <1>1, <1>2, <1>3, EffectsGrow DEF Longer
<1>5. doing' \notin Returned
  <2>1. doing' = Slept(d) => doing' \notin Returned
    BY DEF Slept, Begun, Returned
  <2>2. QED
    BY <1>1, <2>1, AttemptEffect, Doings
<1>6. CASE to_server' = to_server
  BY <1>4, <1>5, <1>6, AckKept
<1>7. CASE EndCycle
  <2>1. to_server' = to_server \/ to_server' = <<>>
    BY <1>7 DEF EndCycle
  <2>2. QED
    BY <1>4, <1>5, <2>1, AckKept
<1>8. ASSUME NEW r \in Results, r = "ok" => effects' = Append(effects, Effect(d)),
             to_server' = Append(to_server, Ack(d.id, r))
      PROVE AckInv'
  <2>1. Ack(d.id, r) \in Replies /\ Ack(d.id, r).id = d.id /\ Ack(d.id, r).result = r
    BY <1>1, ReplyFrames DEF Ack
  <2>2. r = "ok" => \E k \in DOMAIN effects' : effects'[k].id = d.id
    <3> SUFFICES ASSUME r = "ok" PROVE \E k \in DOMAIN effects' : effects'[k].id = d.id
      OBVIOUS
    <3>1. effects' = Append(effects, Effect(d)) /\ Effect(d).id = d.id
      BY <1>8 DEF Effect
    <3>2. Len(effects) + 1 \in DOMAIN effects' /\ effects'[Len(effects) + 1] = Effect(d)
      BY <1>1, <1>3, <3>1
    <3>3. QED
      BY <3>1, <3>2
  <2>3. HonestFrame(Ack(d.id, r), effects')
    BY <2>1, <2>2 DEF HonestFrame
  <2>4. QED
    BY <1>4, <1>5, <1>8, <2>1, <2>3, AckKept
<1>9. QED
  BY <1>1, <1>6, <1>7, <1>8, AttemptEffect

LEMMA AckStep ==
  ASSUME RecordsOK, RecordsOK', AckInv, [Next]_vars
  PROVE  AckInv'
<1> USE DEF vars, cycleVars, wireVars, sidecarVars, directiveVars, generatorVars, threadVars, larkVars
<1>1. UNCHANGED effects => Longer(effects, effects')
  BY DEF Longer
<1>2. CASE (ConnectionStep /\ UNCHANGED sidecarVars) \/ StartServing
             \/ SidecarJoinRaises \/ SidecarWatchDisconnect
  <2>1. /\ ConnectionStep \/ JoinOk \/ EndCycle
        /\ UNCHANGED <<acks, effects>> /\ (doing' = doing \/ doing' = NoDirective)
    BY <1>2 DEF StartServing, SidecarJoinRaises, JoinRaises, SidecarWatchDisconnect, EndServing
  <2>2. QED
    BY <2>1, ConnectionAcks
<1>3. CASE TakeDirective
  <2>1. PICK d : d = Taken(Head(queue))
    OBVIOUS
  <2>2. d \in Begun
    <3>1. queue \in Seq(Directives) /\ queue # <<>> /\ conn \in Nat
      BY <1>3 DEF TakeDirective, RecordsOK
    <3>2. Head(queue) \in Directives
      BY <3>1
    <3>3. 0 \in 0..Len(BackoffSchedule) /\ 0 \in 0..RetryDeadline
      BY DEF BackoffSchedule, RetryDeadline
    <3>4. QED
      BY <2>1, <3>1, <3>2, <3>3 DEF Taken, Begun, Directives
  <2>3. \/ doing' = d /\ UNCHANGED <<to_server, effects>>
        \/ \E q : Attempt(d, q)
    BY <1>3, <2>1 DEF TakeDirective, NextDirective
  <2>4. UNCHANGED acks
    BY <1>3 DEF TakeDirective
  <2>5. QED
    BY <1>1, <2>2, <2>3, <2>4, AttemptAcks, AckKept, Doings
<1>4. CASE SleepEnds
  <2>1. doing \in Begun /\ Attempt(doing, queue) /\ UNCHANGED acks
    BY <1>4 DEF SleepEnds, RecordsOK, Returned
  <2>2. PICK d, q : d = doing /\ q = queue
    OBVIOUS
  <2>3. QED
    BY <2>1, <2>2, AttemptAcks
<1>5. CASE StartJob
  <2>1. doing' \notin Returned
    BY <1>5 DEF StartJob, RecordsOK, Begun, Returned
  <2>2. QED
    BY <1>1, <1>5, <2>1, AckKept DEF StartJob
<1>6. CASE AckJob
  <2>1. doing \in Returned /\ UNCHANGED <<effects, acks>>
    BY <1>6 DEF AckJob, RecordsOK, Begun
  <2>2. PICK env, g, q : env = Ack(doing.id, doing.result) /\ g = gen_queue /\ q = queue
    OBVIOUS
  <2>3. Push(env, q, NoDirective, g)
    BY <1>6, <2>2 DEF AckJob
  <2>4. env \in Replies /\ env.id = doing.id /\ env.result = doing.result
    BY <2>1, <2>2, ReplyFrames DEF Returned, Ack
  <2>5. HonestFrame(env, effects')
    BY <2>1, <2>4, AckForm DEF HonestFrame
  <2>6. CASE EndCycle /\ doing' = NoDirective
    BY <2>1, <2>6, ConnectionAcks
  <2>7. CASE doing' = NoDirective /\ (to_server' = to_server \/ to_server' = Append(to_server, env))
    BY <1>1, <2>1, <2>4, <2>5, <2>7, AckKept, Doings
  <2>8. QED
    BY <2>3, <2>6, <2>7, PushEffect
<1>7. CASE EventLoop
  <2>1. UNCHANGED <<effects, acks>> /\ gen_queue \in Seq(Nat) /\ gen_queue # <<>>
    BY <1>7 DEF EventLoop, RecordsOK
  <2>2. PICK env, g, q, d : env = Event(Head(gen_queue)) /\ g = Tail(gen_queue) /\ q = queue /\ d = doing
    OBVIOUS
  <2>3. Push(env, q, d, g)
    BY <1>7, <2>2 DEF EventLoop
  <2>4. env \in Replies /\ env.kind = "event"
    BY <2>1, <2>2, ReplyFrames DEF Event
  <2>5. HonestFrame(env, effects')
    BY <2>4 DEF HonestFrame
  <2>6. CASE EndCycle /\ doing' = NoDirective
    BY <2>1, <2>6, ConnectionAcks
  <2>7. CASE doing' = d /\ (to_server' = to_server \/ to_server' = Append(to_server, env))
    BY <1>1, <2>1, <2>2, <2>4, <2>5, <2>7, AckKept
  <2>8. QED
    BY <2>3, <2>6, <2>7, PushEffect
<1>8. ASSUME NEW j \in jobs, JobReturns(j)  PROVE AckInv'
  <2>1. PICK o \in Outcomes(j.action) :
          /\ Apply(j, o[2])
          /\ doing' = IF doing.id = j.id THEN [id |-> j.id, at |-> "returned", result |-> o[1]] ELSE doing
    BY <1>8 DEF JobReturns
  <2>2. j.action \in AllActions /\ Effect(j) \in Effects /\ effects \in Seq(Effects) /\ Effect(j).id = j.id
    <3>1. j.id \in Nat \ {0} /\ j.action \in AllActions /\ j.conn \in 0..conn /\ conn \in Nat
      BY DEF RecordsOK
    <3>2. effects \in Seq(Effects)
      BY DEF RecordsOK, Effects
    <3>3. Effect(j) \in Effects /\ Effect(j).id = j.id
      BY <3>1 DEF Effect, Effects
    <3>4. QED
      BY <3>1, <3>2, <3>3
  <2>3. effects' = IF o[2] THEN Append(effects, Effect(j)) ELSE effects
    BY <2>1 DEF Apply, Effect
  <2>4. Longer(effects, effects')
    BY <2>2, <2>3, EffectsGrow DEF Longer
  <2>5. \/ doing' = doing
        \/ doing'.result = "ok" => \E k \in DOMAIN effects' : effects'[k].id = doing'.id
    <3> SUFFICES ASSUME doing' # doing, doing'.result = "ok"
                 PROVE \E k \in DOMAIN effects' : effects'[k].id = doing'.id
      OBVIOUS
    <3>1. doing'.id = j.id /\ o[1] = "ok"
      BY <2>1
    <3>2. effects' = Append(effects, Effect(j))
      BY <2>2, <2>3, <3>1, OutcomeFacts
    <3>3. Len(effects) + 1 \in DOMAIN effects' /\ effects'[Len(effects) + 1] = Effect(j)
      BY <2>2, <3>2
    <3>4. QED
      BY <2>2, <3>1, <3>3
  <2>6. UNCHANGED <<to_server, acks>>
    BY <1>8 DEF JobReturns
  <2>7. QED
    BY <2>4, <2>5, <2>6, AckKept
<1>9. CASE ServerReads
  <2>1. /\ to_server # <<>> /\ to_server' = Tail(to_server) /\ UNCHANGED <<doing, effects>>
        /\ to_server \in Seq(Replies)
    BY <1>9 DEF ServerReads, RecordsOK
  <2>2. PICK f : f = Head(to_server)
    OBVIOUS
  <2>3. HonestFrame(f, effects)
    BY <2>1, <2>2, AckForm, HonestKept DEF Longer
  <2>4. \/ UNCHANGED acks
        \/ f.kind = "directive_ack" /\ acks' = acks \cup {[id |-> f.id, ok |-> f.ok, result |-> f.result]}
    BY <1>9, <2>2 DEF ServerReads
  <2>5. QED
    BY <1>1, <2>1, <2>3, <2>4, AckKept
<1>10. CASE \/ StartWs \/ PollChatMessages \/ PollHangs \/ MockConnects \/ MockDrops
            \/ \E j \in jobs : JobHangs(j)
            \/ \E m \in unsent, g \in ws_threads : LarkPushes(m, g)
            \/ \E bot \in BOOLEAN : Post(bot)
            \/ \E a \in AllActions : IssueDirective(a)
            \/ UNCHANGED vars
  <2>1. UNCHANGED <<to_server, doing, effects, acks>>
    BY <1>10 DEF StartWs, PollChatMessages, PollHangs, MockConnects, MockDrops, JobHangs, LarkPushes,
                 Post, IssueDirective
  <2>2. QED
    BY <1>1, <2>1, AckKept
<1>11. QED
  BY <1>2, <1>3, <1>4, <1>5, <1>6, <1>7, <1>8, <1>9, <1>10
     DEF Next, LoopStep, ThreadStep, OtherStep, ConnectionStep

\* A directive whose ack says ok has been carried out by Lark (AckedMeansDone).
THEOREM AckedMeansDoneHolds == Spec => []AckedMeansDone
<1> DEFINE Inv == DirectiveInv /\ PollInv /\ AckInv
<1>1. Init => Inv
  <2> SUFFICES ASSUME Init PROVE AckInv
    BY DirectiveInit, PollInit
  <2>1. acks = {} /\ to_server = <<>> /\ doing = NoDirective
    BY DEF Init, CycleInit
  <2>2. QED
    BY <2>1, Doings DEF AckInv, AckedMeansDone
<1>2. Inv /\ [Next]_vars => Inv'
  <2> SUFFICES ASSUME Inv, [Next]_vars  PROVE Inv'
    OBVIOUS
  <2>1. DirectiveInv' /\ PollInv'
    BY DirectiveStep, PollStep
  <2>2. AckInv'
    BY <2>1, AckStep DEF DirectiveInv
  <2>3. QED
    BY <2>1, <2>2
<1>3. Inv => AckedMeansDone
  BY DEF AckInv
<1>4. QED
  BY <1>1, <1>2, <1>3, PTL DEF Spec

=============================================================================
