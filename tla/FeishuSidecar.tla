----------------------------- MODULE FeishuSidecar -----------------------------
(***************************************************************************)
(* The Feishu adapter process: _adapter_common.runner_core with its        *)
(* directive and event loops, and esr_feishu.adapter.FeishuAdapter, which  *)
(* carries out directives against Lark (with a retry on its rate limit) and *)
(* yields what is said in Lark's chats, on a WorkerCycle connection.       *)
(*                                                                         *)
(* A call of the Lark client on the event loop is one step: nothing else   *)
(* of the process runs meanwhile.  What goes through run_in_executor takes *)
(* a thread of a bounded pool and outlives the connection that asked.      *)
(* The requests to the mock have a time-out; lark_oapi's client is built   *)
(* without one, and a call of it may never return.                         *)
(***************************************************************************)
EXTENDS WorkerCycle, FiniteSetsExt

CONSTANTS
  PageSize,    \* page_size of the poll
  PoolSize,    \* threads of the loop's default executor
  PollChat,    \* whether a poll_chat_id is configured
  Loads        \* bound: pairs, the directives esrd issues with how many messages

ASSUME SidecarBoundAssumption ==
  PageSize \in Nat \ {0} /\ PoolSize \in Nat \ {0} /\ PollChat \in BOOLEAN

VARIABLES
  mode,        \* "live", or "mock" when base_url names this host
  issued,      \* the actions of the directives issued, in order of their ids
  doing,       \* the directive the loop is at, or NoDirective
  jobs,        \* directives in executor threads
  effects,     \* history: what Lark has carried out, in order
  acks,        \* the directive_ack envelopes esrd has
  conn,        \* number of the connection, and of its event generator
  ws_waiting,  \* the generator's Lark client waits for a thread
  ws_threads,  \* generators whose Lark client runs in a thread, for good
  stuck,       \* threads a call never returns to: <<who asked, connection>>
  frozen,      \* a call on the event loop never returns: the process stands still
  mock_ws,     \* the generator's socket to the mock
  gen_queue,   \* events the generator has and has not yielded
  posted,      \* messages of the chat, oldest first
  unsent,      \* the ones Lark has yet to push over a WebSocket
  seen,        \* seen_msg_ids of the poll
  bootstrap,   \* its first pass is still to come
  polled,      \* history: messages the poll has put on a queue
  arrived      \* messages esrd has taken

directiveVars == <<issued, doing, jobs, effects, acks>>
threadVars == <<ws_threads, stuck, frozen>>
generatorVars == <<conn, ws_waiting, threadVars, mock_ws, gen_queue, seen, bootstrap>>
larkVars == <<posted, unsent>>
sidecarVars == <<mode, directiveVars, generatorVars, larkVars, polled, arrived>>
vars == <<cycleVars, sidecarVars>>

NoDirective == [id |-> 0]
AllActions == {"send_message", "send_card", "pin", "unpin", "react", "un_react",
               "download_file", "send_file", "other"}
ASSUME LoadAssumption == \A l \in Loads : l[1] \in Seq(AllActions) /\ l[2] \in Nat

Ack(id, r) == [kind |-> "directive_ack", id |-> id, ok |-> r # "raises", result |-> r]

(* _build_msg_received_envelope(): whether the sender's open_id is there. *)
PrincipalId(m) == ~posted[m].bot
Event(m) == [kind |-> "event", message |-> m, principal_id |-> PrincipalId(m)]

---------------------------------------------------------------------------
(* The end of a connection: the loops and the generator are cancelled; a
   thread goes on, an item that waits for one is withdrawn.                *)
EndServing ==
  /\ EndCycle
  /\ doing' = NoDirective
  /\ ws_waiting' = FALSE
  /\ mock_ws' = "off"
  /\ gen_queue' = <<>>
  /\ seen' = {}
  /\ UNCHANGED <<bootstrap, conn, threadVars>>

SidecarJoinRaises ==
  /\ cycle = "joining" /\ JoinRaises
  /\ UNCHANGED sidecarVars

SidecarWatchDisconnect ==
  /\ Watching /\ ws \in {"closed", "drained"}
  /\ EndServing
  /\ UNCHANGED <<mode, issued, jobs, effects, acks, larkVars, polled, arrived>>

(* A push of one of the loops.  q and g are what is left of their queues. *)
Push(env, q, d, g) ==
  IF PushRaises THEN EndServing
  ELSE /\ to_server' = Pushed(env)
       /\ queue' = q /\ doing' = d /\ gen_queue' = g
       /\ UNCHANGED <<cycle, attempt, url, portVars, ws, join_reply, to_worker, channel, faults,
                      conn, ws_waiting, threadVars, mock_ws, seen, bootstrap>>

---------------------------------------------------------------------------
(* Directives. *)

BackoffSchedule == <<1, 2, 4, 8, 16, 30>>
RetryDeadline == 30

(* on_directive(): which way an action goes. *)
InExecutor(a) ==
  a \in {"download_file", "send_file"} \/ (mode = "mock" /\ a \in {"react", "un_react"})

(* What a call may come to: pairs of the result the adapter returns and
   whether the effect took place.  A call that fails or raises may have been
   carried out all the same; one the rate limit refused has not.           *)
Lost == {"fail", "raises"} \X BOOLEAN
LarkCall == Lost \cup {<<"ok", TRUE>>, <<"limited", FALSE>>}

(* The first of two calls that does not say ok is the result of both.       *)
Then(first, second) == {<<o[1], FALSE>> : o \in {x \in first : x[1] # "ok"}} \cup second

(* The mock's endpoints.  A message to a chat the app is not a member of is
   refused with a code in an HTTP 200, which the adapter does not read: its
   result is ok with no message_id, "empty".  No answer carries a 429.  An
   upload concerns nobody until a message names it.                         *)
OnCreateMessage == Lost \cup {<<"ok", TRUE>>, <<"empty", FALSE>>}
OnCreateReaction == Lost \cup {<<"ok", TRUE>>}
OnDeleteReactions == Lost \cup {<<"ok", TRUE>>}
OnUploadFile == Lost \cup {<<"ok", TRUE>>}

(* The directives, one operator each.  A live un_react lists the reactions,
   says ok when there is none, which counts as carried out, and deletes the
   first; a download has its effect when the bytes are stored; a file is
   uploaded and then sent as a message, and not at all by the live path, which
   is not implemented.                                                      *)
SendMessage == IF mode = "mock" THEN OnCreateMessage ELSE LarkCall
React == IF mode = "mock" THEN OnCreateReaction ELSE LarkCall
UnReact ==
  IF mode = "mock" THEN OnDeleteReactions
  ELSE Then(LarkCall, LarkCall) \cup {<<"ok", TRUE>>}
SendCard == LarkCall
Pin == LarkCall
Unpin == LarkCall
Store == {<<"ok", TRUE>>, <<"fail", FALSE>>, <<"raises", FALSE>>, <<"raises", TRUE>>}
DownloadFile == {<<"fail", FALSE>>, <<"raises", FALSE>>} \cup Store
SendFile ==
  IF mode = "mock" THEN Then(OnUploadFile, OnCreateMessage) ELSE {"fail", "raises"} \X {FALSE}

(* client(): no time-out.  In mock mode three directives have no way of their
   own and go to Lark all the same.                                         *)
MayHang(a) ==
  IF mode = "mock" THEN a \in {"send_card", "pin", "unpin"} ELSE a \notin {"send_file", "other"}

Outcomes(a) ==
  CASE a = "send_message" -> SendMessage
    [] a = "react" -> React
    [] a = "un_react" -> UnReact
    [] a = "send_card" -> SendCard
    [] a = "pin" -> Pin
    [] a = "unpin" -> Unpin
    [] a = "download_file" -> DownloadFile
    [] a = "send_file" -> SendFile
    [] a = "other" -> {<<"fail", FALSE>>}

Apply(d, applied) ==
  effects' = IF applied THEN Append(effects, [id |-> d.id, conn |-> d.conn]) ELSE effects

(* _with_ratelimit_retry(): one call, and what follows it. *)
\* MUTANT of RateLimited: every failure is tried again.
AnyFailure(r) == r # "ok"
RateLimited(r) == r = "limited"

GivesUp(d) ==
  \/ d.tries = Len(BackoffSchedule)
  \/ d.elapsed + BackoffSchedule[d.tries + 1] > RetryDeadline

Slept(d) ==
  [d EXCEPT !.at = "sleeping", !.tries = @ + 1,
            !.elapsed = @ + BackoffSchedule[d.tries + 1]]

(* A call on the event loop that never returns, carried out or not: no ack of
   this directive, and nothing else either.                                  *)
CallHangs(d, q) ==
  /\ MayHang(d.action)
  /\ \E applied \in BOOLEAN : Apply(d, applied)
  /\ frozen' = TRUE
  /\ doing' = NoDirective /\ queue' = q
  /\ UNCHANGED <<cycle, attempt, url, portVars, ws, join_reply, to_worker, to_server, channel,
                 faults, conn, ws_waiting, ws_threads, stuck, mock_ws, gen_queue, seen, bootstrap>>

CallReturns(d, q) ==
  \E o \in Outcomes(d.action) :
    /\ Apply(d, o[2])
    /\ IF RateLimited(o[1]) /\ ~GivesUp(d)
       THEN /\ doing' = Slept(d)
            /\ queue' = q
            /\ UNCHANGED <<cycle, attempt, url, portVars, ws, join_reply, to_worker, to_server,
                           channel, faults, generatorVars>>
       ELSE Push(Ack(d.id, IF RateLimited(o[1]) THEN "timeout" ELSE o[1]), q, NoDirective, gen_queue)

Attempt(d, q) == CallReturns(d, q) \/ CallHangs(d, q)

(* directive_loop(): the next one when the last has had its ack. *)
NextDirective(q) == Head(q)

Taken(p) ==
  [id |-> p.id, action |-> p.action, conn |-> conn, tries |-> 0, elapsed |-> 0, at |-> "waiting"]

TakeDirective ==
  /\ cycle = "serving" /\ doing = NoDirective /\ queue # <<>>
  /\ LET d == Taken(NextDirective(queue))
         q == Tail(queue)
     IN IF InExecutor(d.action)
        THEN /\ doing' = d
             /\ queue' = q
             /\ UNCHANGED <<cycle, attempt, url, portVars, ws, join_reply, to_worker, to_server,
                            channel, faults, generatorVars, effects>>
        ELSE Attempt(d, q)
  /\ UNCHANGED <<mode, issued, jobs, acks, larkVars, polled, arrived>>

SleepEnds ==
  /\ doing # NoDirective /\ doing.at = "sleeping"
  /\ Attempt(doing, queue)
  /\ UNCHANGED <<mode, issued, jobs, acks, larkVars, polled, arrived>>

(* run_in_executor(): a thread, the call in it, and its result back on the
   loop, if the one who asked is still there.                              *)
ThreadFree == Cardinality(jobs) + Cardinality(ws_threads) + Cardinality(stuck) < PoolSize

Job(d) == [id |-> d.id, action |-> d.action, conn |-> d.conn]

\* MUTANT of StartJob: the directive is acknowledged without waiting for it.
StartJobUnawaited ==
  /\ doing # NoDirective /\ doing.at = "waiting" /\ ThreadFree
  /\ jobs' = jobs \cup {Job(doing)}
  /\ doing' = [id |-> doing.id, at |-> "returned", result |-> "ok"]
  /\ UNCHANGED <<cycleVars, mode, issued, effects, acks, generatorVars, larkVars, polled, arrived>>

StartJob ==
  /\ doing # NoDirective /\ doing.at = "waiting" /\ ThreadFree
  /\ jobs' = jobs \cup {Job(doing)}
  /\ doing' = [doing EXCEPT !.at = "running"]
  /\ UNCHANGED <<cycleVars, mode, issued, effects, acks, generatorVars, larkVars, polled, arrived>>

\* MUTANT of JobReturns: an exception in the thread is not handed over.
JobReturnsQuietly(j) ==
  /\ jobs' = jobs \ {j}
  /\ \E o \in Outcomes(j.action) :
       /\ Apply(j, o[2])
       /\ doing' = IF doing.id = j.id /\ o[1] # "raises"
                   THEN [id |-> j.id, at |-> "returned", result |-> o[1]] ELSE doing
  /\ UNCHANGED <<cycleVars, mode, issued, acks, generatorVars, larkVars, polled, arrived>>

JobReturns(j) ==
  /\ jobs' = jobs \ {j}
  /\ \E o \in Outcomes(j.action) :
       /\ Apply(j, o[2])
       /\ doing' = IF doing.id = j.id THEN [id |-> j.id, at |-> "returned", result |-> o[1]] ELSE doing
  /\ UNCHANGED <<cycleVars, mode, issued, acks, generatorVars, larkVars, polled, arrived>>

(* The download of a message's file: the loop waits for ever. *)
JobHangs(j) ==
  /\ MayHang(j.action)
  /\ jobs' = jobs \ {j}
  /\ stuck' = stuck \cup {<<"directive", j.conn>>}
  /\ UNCHANGED <<cycleVars, mode, issued, doing, effects, acks, conn, ws_waiting, ws_threads, frozen,
                 mock_ws, gen_queue, seen, bootstrap, larkVars, polled, arrived>>

AckJob ==
  /\ doing # NoDirective /\ doing.at = "returned"
  /\ Push(Ack(doing.id, doing.result), queue, NoDirective, gen_queue)
  /\ UNCHANGED <<mode, issued, jobs, effects, acks, larkVars, polled, arrived>>

---------------------------------------------------------------------------
(* Events: emit_events(), once per connection. *)

\* MUTANT of FirstPass: the history is not skipped.
NoFirstPass == FALSE
FirstPass == TRUE

EmitEvents ==
  /\ ws_waiting' = (mode = "live")
  /\ mock_ws' = IF mode = "mock" THEN "connecting" ELSE "off"
  /\ gen_queue' = <<>>

StartServing ==
  /\ JoinOk
  /\ conn' = conn + 1
  /\ EmitEvents
  /\ seen' = {} /\ bootstrap' = FirstPass
  /\ UNCHANGED <<mode, directiveVars, threadVars, larkVars, polled, arrived>>

(* _run_ws(): Client.start() never returns, and cannot be stopped. *)
StartWs ==
  /\ ws_waiting /\ ThreadFree
  /\ ws_waiting' = FALSE
  /\ ws_threads' = ws_threads \cup {conn}
  /\ UNCHANGED <<cycleVars, mode, directiveVars, conn, stuck, frozen, mock_ws, gen_queue, seen,
                 bootstrap, larkVars, polled, arrived>>

(* Lark pushes a message to one of the app's clients; _handle_receive() puts
   it on the queue of the generator that made the client.                  *)
LarkPushes(m, g) ==
  /\ unsent' = unsent \ {m}
  /\ gen_queue' = IF g = conn /\ cycle = "serving" THEN Append(gen_queue, m) ELSE gen_queue
  /\ UNCHANGED <<cycleVars, mode, directiveVars, conn, ws_waiting, threadVars, mock_ws, seen,
                 bootstrap, posted, polled, arrived>>

(* _poll_chat_messages(): the newest PageSize messages, in the order they
   were posted; the pass that first finds any only marks them.  A pass that
   raises after it has marked has handed over only some, and the others never
   come; one that fails earlier, or finds nothing, changes nothing.  The list
   call needs a thread, and is one step with what follows it, or never ends.  *)
Page == {m \in DOMAIN posted : m > Len(posted) - PageSize}
InOrder(S) == CHOOSE q \in SetToSeqs(S) : \A i, j \in DOMAIN q : i < j => q[i] < q[j]
Fresh == IF bootstrap THEN <<>> ELSE InOrder(Page \ seen)

Polling ==
  PollChat /\ mode = "live" /\ cycle = "serving" /\ ThreadFree /\ <<"poll", conn>> \notin stuck

PollChatMessages ==
  /\ Polling
  /\ ~(Page \subseteq seen)
  /\ seen' = seen \cup Page
  /\ \E k \in 0..Len(Fresh) :
       /\ gen_queue' = gen_queue \o SubSeq(Fresh, 1, k)
       /\ polled' = polled \o SubSeq(Fresh, 1, k)
  /\ bootstrap' = FALSE
  /\ UNCHANGED <<cycleVars, mode, directiveVars, conn, ws_waiting, threadVars, mock_ws, larkVars,
                 arrived>>

PollHangs ==
  /\ Polling
  /\ stuck' = stuck \cup {<<"poll", conn>>}
  /\ UNCHANGED <<cycleVars, mode, directiveVars, conn, ws_waiting, ws_threads, frozen, mock_ws,
                 gen_queue, seen, bootstrap, larkVars, polled, arrived>>

(* _emit_events_mock(): connects again for as long as it runs. *)
MockConnects ==
  /\ mock_ws = "connecting"
  /\ mock_ws' = "connected"
  /\ UNCHANGED <<cycleVars, mode, directiveVars, conn, ws_waiting, threadVars, gen_queue, seen,
                 bootstrap, larkVars, polled, arrived>>

MockDrops ==
  /\ mock_ws = "connected"
  /\ mock_ws' = "connecting"
  /\ UNCHANGED <<cycleVars, mode, directiveVars, conn, ws_waiting, threadVars, gen_queue, seen,
                 bootstrap, larkVars, polled, arrived>>

(* event_loop(): each event the generator yields becomes an envelope. *)
EventLoop ==
  /\ cycle = "serving" /\ gen_queue # <<>>
  /\ Push(Event(Head(gen_queue)), queue, doing, Tail(gen_queue))
  /\ UNCHANGED <<mode, issued, jobs, effects, acks, larkVars, polled, arrived>>

---------------------------------------------------------------------------
(* esrd's AdapterChannel, and the people in the chat. *)

Within(as, m) == \E l \in Loads : IsPrefix(as, l[1]) /\ m <= l[2]

IssueDirective(a) ==
  /\ Within(Append(issued, a), Len(posted))
  /\ issued' = Append(issued, a)
  /\ Broadcast([kind |-> "directive", id |-> Len(issued'), action |-> a])
  /\ UNCHANGED <<cycle, attempt, url, portVars, ws, join_reply, queue, to_server, channel, faults,
                 mode, doing, jobs, effects, acks, generatorVars, larkVars, polled, arrived>>

(* An ack is published under its id; an event needs a principal. *)
ServerReads ==
  /\ to_server # <<>>
  /\ LET f == Head(to_server) IN
       /\ f.kind \in {"directive_ack", "event"}
       /\ acks' = IF f.kind = "directive_ack" /\ channel = "joined"
                  THEN acks \cup {[id |-> f.id, ok |-> f.ok, result |-> f.result]} ELSE acks
       /\ arrived' = IF f.kind = "event" /\ channel = "joined" /\ f.principal_id
                     THEN arrived \cup {f.message} ELSE arrived
  /\ to_server' = Tail(to_server)
  /\ UNCHANGED <<cycle, attempt, url, portVars, ws, join_reply, to_worker, queue, channel, faults,
                 mode, issued, doing, jobs, effects, generatorVars, larkVars, polled>>

(* push_inbound() of the mock: to the open sockets it has; it keeps nothing.
   The adapter flattens what arrives there to an event.                     *)
YieldMockEvent(m) == Append(gen_queue, m)
PushInbound(m) == IF mock_ws = "connected" THEN YieldMockEvent(m) ELSE gen_queue

(* A message of a user, or of the bot itself, which has no open_id and which
   Lark does not push.                                                     *)
Post(bot) ==
  /\ Within(issued, Len(posted) + 1)
  /\ posted' = Append(posted, [bot |-> bot])
  /\ unsent' = IF mode = "live" /\ ~bot THEN unsent \cup {Len(posted')} ELSE unsent
  /\ gen_queue' = PushInbound(Len(posted'))
  /\ UNCHANGED <<cycleVars, mode, directiveVars, conn, ws_waiting, threadVars, mock_ws, seen,
                 bootstrap, polled, arrived>>

---------------------------------------------------------------------------
Init ==
  /\ CycleInit
  /\ mode \in {"live", "mock"}
  /\ issued = <<>> /\ doing = NoDirective /\ jobs = {} /\ effects = <<>> /\ acks = {}
  /\ conn = 0 /\ ws_waiting = FALSE /\ mock_ws = "off"
  /\ ws_threads = {} /\ stuck = {} /\ frozen = FALSE
  /\ gen_queue = <<>> /\ seen = {} /\ bootstrap = TRUE
  /\ posted = <<>> /\ unsent = {} /\ polled = <<>> /\ arrived = {}

(* The adapter's coroutines run until one of them never returns. *)
LoopStep ==
  /\ ~frozen
  /\ \/ WorkerStep /\ UNCHANGED sidecarVars
     \/ StartServing \/ SidecarJoinRaises \/ SidecarWatchDisconnect
     \/ TakeDirective \/ SleepEnds \/ StartJob \/ AckJob
     \/ StartWs \/ PollChatMessages \/ PollHangs \/ MockConnects \/ MockDrops \/ EventLoop

ThreadStep ==
  \/ \E j \in jobs : JobReturns(j) \/ JobHangs(j)
  \/ \E m \in unsent, g \in ws_threads : LarkPushes(m, g)

OtherStep ==
  \/ EsrdStep /\ UNCHANGED sidecarVars
  \/ \E a \in AllActions : IssueDirective(a)
  \/ ServerReads
  \/ \E bot \in BOOLEAN : Post(bot)

Next == LoopStep \/ ThreadStep \/ OtherStep

Spec == Init /\ [][Next]_vars

(* asyncio runs what is ready and wakes what sleeps; a call in a thread
   returns or it hangs, which it cannot where it has a time-out; esrd reads its
   socket.                                                                   *)
FairSpec ==
  /\ Spec
  /\ WF_vars(~frozen /\ WorkerStep /\ UNCHANGED sidecarVars)
  /\ WF_vars(~frozen /\ (StartServing \/ SidecarJoinRaises \/ SidecarWatchDisconnect))
  /\ WF_vars(~frozen /\ (TakeDirective \/ SleepEnds \/ StartJob \/ AckJob))
  /\ WF_vars(~frozen /\ EventLoop)
  /\ WF_vars(\E j \in jobs : JobReturns(j) \/ JobHangs(j))
  /\ WF_vars((ServerReadsHello \/ \E s \in {"ok", "error"} : ServerJoins(s))
               /\ UNCHANGED sidecarVars)
  /\ WF_vars(ServerReads)

---------------------------------------------------------------------------
(* Properties. *)

TypeOK ==
  /\ CycleTypeOK
  /\ Within(issued, Len(posted))
  /\ \/ doing = NoDirective
     \/ doing.at = "returned"
     \/ /\ doing.id \in DOMAIN issued
        /\ doing.tries \in 0..Len(BackoffSchedule) /\ doing.elapsed \in 0..RetryDeadline
        /\ doing.at \in {"waiting", "running", "sleeping"}
  /\ Cardinality(jobs) + Cardinality(ws_threads) + Cardinality(stuck) <= PoolSize
  /\ stuck \subseteq {"directive", "poll"} \X (1..conn) /\ frozen \in BOOLEAN
  /\ conn \in 0..(MaxFaults + 1) /\ ws_threads \subseteq 1..conn
  /\ Range(gen_queue) \subseteq DOMAIN posted /\ seen \subseteq DOMAIN posted
  /\ arrived \subseteq DOMAIN posted

(* However often a directive is tried, whatever call of it fails, and whether
   its connection is still there when its thread ends: Lark carries it out at
   most once, and the ones of a connection in the order esrd issued them.
   (The next connection does not wait for a thread of the last one.)         *)
AppliedOnceInOrder ==
  \A i, j \in DOMAIN effects :
    i < j => /\ effects[i].id # effects[j].id
             /\ effects[i].conn = effects[j].conn => effects[i].id < effects[j].id

(* A result "ok" that esrd is told of (with a message_id, where there is one)
   is something Lark has carried out.                                       *)
AckedMeansDone ==
  \A a \in acks : a.result = "ok" => \E i \in DOMAIN effects : effects[i].id = a.id

(* The poll hands over messages in the order they were posted and never again,
   across its passes and across the pollers of successive connections.       *)
PolledInOrder ==
  \A i, j \in DOMAIN polled : i < j => polled[i] < polled[j]

(* What the three rest on.  First the kinds of frames and records there are. *)
Directives == [kind: {"directive"}, id: Nat \ {0}, action: AllActions]
Frames ==
  [event: {"phx_reply"}, status: {"ok", "error"}] \cup [event: {"phx_error"}]
    \cup [event: {"envelope"}, payload: Directives]
Results == {"ok", "empty", "fail", "raises", "limited", "timeout"}
Replies ==
  [kind: {"phx_join", "handler_hello"}] \cup [kind: {"event"}, message: Nat, principal_id: BOOLEAN]
    \cup [kind: {"directive_ack"}, id: Nat \ {0}, ok: BOOLEAN, result: Results]
Begun == [id: Nat \ {0}, action: AllActions, conn: Nat, tries: 0..Len(BackoffSchedule),
          elapsed: 0..RetryDeadline, at: {"waiting", "sleeping", "running"}]
Returned == [id: Nat \ {0}, at: {"returned"}, result: Results]

RecordsOK ==
  /\ to_worker \in Seq(Frames) /\ queue \in Seq(Directives) /\ to_server \in Seq(Replies)
  /\ issued \in Seq(AllActions) /\ doing \in Begun \cup Returned \cup {NoDirective}
  /\ jobs \subseteq [id: Nat \ {0}, action: AllActions, conn: 0..conn]
  /\ effects \in Seq([id: Nat \ {0}, conn: Nat]) /\ \A i \in DOMAIN effects : effects[i].conn <= conn
  /\ acks \subseteq [id: Nat \ {0}, ok: BOOLEAN, result: Results]
  /\ conn \in Nat /\ gen_queue \in Seq(Nat)

(* Directives stand in one line, to_worker behind queue, in the order of their
   ids; one Lark has carried out, one in a thread and the one the loop is at
   are past it.  n is the number of directives issued.                      *)
Enveloped(w) == {i \in DOMAIN w : w[i].event = "envelope"}

InLine(q, w, n) ==
  /\ \A i \in DOMAIN q : q[i].id <= n
  /\ \A i \in Enveloped(w) : w[i].payload.id <= n
  /\ \A i, j \in DOMAIN q : i < j => q[i].id < q[j].id
  /\ \A i, j \in Enveloped(w) : i < j => w[i].payload.id < w[j].payload.id
  /\ \A i \in DOMAIN q, j \in Enveloped(w) : q[i].id < w[j].payload.id

PastLine(id, q, w, n) ==
  /\ id <= n
  /\ \A i \in DOMAIN q : id < q[i].id
  /\ \A i \in Enveloped(w) : id < w[i].payload.id

LineInv ==
  /\ InLine(queue, to_worker, Len(issued))
  /\ PastLine(doing.id, queue, to_worker, Len(issued))
  /\ \A j \in jobs : PastLine(j.id, queue, to_worker, Len(issued))
  /\ \A i \in DOMAIN effects : PastLine(effects[i].id, queue, to_worker, Len(issued))

(* A connection has at most one directive in a thread, its last; the one the
   loop is at comes after all the others.                                   *)
LoopInv ==
  /\ doing # NoDirective => cycle = "serving"
  /\ \A j, k \in jobs : j # k => j.id # k.id /\ j.conn # k.conn
  /\ \A j \in jobs, i \in DOMAIN effects :
       /\ effects[i].id # j.id
       /\ effects[i].conn = j.conn => effects[i].id < j.id
  /\ cycle = "serving" => \A j \in jobs : j.conn = conn => doing \in Begun /\ doing.at = "running"
  /\ doing \in Begun =>
       /\ doing.conn = conn
       /\ \A i \in DOMAIN effects : effects[i].id < doing.id
       /\ \A j \in jobs : j.id < doing.id \/ (doing.at = "running" /\ j = Job(doing))

DirectiveInv == RecordsOK /\ LineInv /\ LoopInv /\ AppliedOnceInOrder

(* A result "ok" is that of a directive carried out, wherever it is. *)
CarriedOut(id) == \E i \in DOMAIN effects : effects[i].id = id

AckInv ==
  /\ AckedMeansDone
  /\ \A i \in DOMAIN to_server :
       to_server[i].kind = "directive_ack" /\ to_server[i].result = "ok" => CarriedOut(to_server[i].id)
  /\ doing \in Returned /\ doing.result = "ok" => CarriedOut(doing.id)

(* After the first pass of a connection the poll has seen the page that ended
   with some message m, and none after m has been handed over.               *)
SeenTo(m) ==
  /\ \A i \in DOMAIN polled : polled[i] <= m
  /\ \A k \in 1..m : k > m - PageSize => k \in seen
  /\ seen \subseteq 1..m

PollInv ==
  /\ posted \in Seq([bot: BOOLEAN]) /\ unsent \subseteq DOMAIN posted /\ seen \subseteq DOMAIN posted
  /\ polled \in Seq(1..Len(posted)) /\ PolledInOrder
  /\ cycle = "serving" /\ ~bootstrap => \E m \in 0..Len(posted) : SeenTo(m)

MaxDirectives == Max({Len(l[1]) : l \in Loads})
Connected == ws = "open" /\ channel = "joined"
(* What never comes back: a call of Lark's client that hangs on the loop, or in
   the thread the loop waits for; a pool whose threads the Lark clients of
   earlier connections and hung calls have taken.                            *)
Hung == frozen \/ <<"directive", conn>> \in stuck
PoolExhausted == Cardinality(ws_threads) + Cardinality(stuck) = PoolSize

(* A directive the adapter has received is acknowledged, through every rate
   limit, failure, exception and wait for a thread, while its connection lasts
   and no call of Lark's client hangs.  With the mock only send_card, pin and
   unpin can: there the ack always comes, and the pool is never used up.      *)
DirectiveAnswered ==
  \A d \in 1..MaxDirectives :
    (\E i \in DOMAIN queue : queue[i].id = d)
      ~> (\/ \E a \in acks : a.id = d
          \/ ~Connected \/ Hung \/ (mode = "live" /\ PoolExhausted))

=============================================================================
