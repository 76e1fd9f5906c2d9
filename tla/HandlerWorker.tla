----------------------------- MODULE HandlerWorker -----------------------------
(***************************************************************************)
(* esr.ipc.handler_worker: the Python process that runs one handler module, *)
(* with the four handlers of src/handlers, called by an actor (Entity.Server *)
(* through HandlerRouter.call/3) that sends its state with every event and  *)
(* commits the state and the actions that come back.                        *)
(*                                                                          *)
(* The worker keeps nothing between calls; what makes it correct is that a  *)
(* committed transition is one application of the handler to the committed  *)
(* state, whatever is lost, late or tried again on the way.                 *)
(***************************************************************************)
EXTENDS WorkerCycle

CONSTANTS
  Messages,     \* Feishu message ids, numbers; NoMessage is a missing one
  Chats,        \* chat ids
  Threads,      \* session names, numbers
  Slug,         \* the name made from a message id, its first characters
  DedupCap,     \* _DEDUP_CAP
  MaxEvents,    \* bound: events the actor receives
  QuietEvents   \* bound: the same while nothing was retried and no fault was met

ASSUME KeyAssumption == Messages \subseteq Nat /\ Threads \subseteq Nat /\ Slug \in Nat
ASSUME HandlerBoundAssumption == DedupCap \in Nat \ {0} /\ MaxEvents \in Nat /\ QuietEvents \in Nat

VARIABLES
  module,      \* the handler module the process was started with
  actor_type,  \* the actor type the caller names in its handler key
  committed,   \* the actor's state: the dict of the last accepted reply
  call,        \* the call the actor waits for, or NoCall
  next_id,     \* ids of handler calls
  events,      \* counter for the bound
  dispatched   \* history: actions dispatched, in order

actorVars == <<module, actor_type, committed, call, next_id, events, dispatched>>
vars == <<cycleVars, actorVars>>

NoCall == [id |-> 0]
NoMessage == 0
NoChat == ""
NoThread == 0

(* "custom" stands for a plugin's handler that does not keep the contract. *)
Modules == {"feishu_app", "feishu_thread", "cc_session", "cc_adapter_runner", "custom"}

---------------------------------------------------------------------------
(* State models, and their form on the wire. *)

SchemaVersion == 1
NoVersion == 0

(* The fields' defaults, which the model fills in for an empty dict. *)
Defaults ==
  [feishu_app |-> [bound_threads |-> {}, active |-> [c \in Chats |-> NoThread],
                   last_chat_id |-> NoChat],
   feishu_thread |-> [chat_id |-> NoChat, dedup |-> {}, dedup_order |-> <<>>],
   cc_session |-> [parent_thread |-> NoThread],
   cc_adapter_runner |-> [message_count |-> 0],
   custom |-> [message_count |-> 0]]

(* _to_json_native(): a set goes out as a sorted list... *)
Sorted(S) == CHOOSE q \in SetToSeqs(S) : \A i, j \in DOMAIN q : i < j => q[i] < q[j]

DumpState(s) ==
  CASE "dedup" \in DOMAIN s -> [s EXCEPT !.dedup = Sorted(@)]
    [] "bound_threads" \in DOMAIN s -> [s EXCEPT !.bound_threads = Sorted(@)]
    [] OTHER -> s

(* ... and the state model makes it a set again. *)
LoadState(d) ==
  CASE d = <<>> -> Defaults[module]
    [] "dedup" \in DOMAIN d -> [d EXCEPT !.dedup = Range(@)]
    [] "bound_threads" \in DOMAIN d -> [d EXCEPT !.bound_threads = Range(@)]
    [] OTHER -> d

(* serialise_action(): the class of an action becomes its discriminator. *)
ActionType ==
  [Emit |-> "emit", Route |-> "route", InvokeCommand |-> "invoke_command",
   Reply |-> "reply", SendInput |-> "send_input"]
SerialiseAction(a) == [type |-> ActionType[a.class], name |-> a.name, arg |-> a.arg]
Serialised(acts) == [i \in DOMAIN acts |-> SerialiseAction(acts[i])]
Action(c, n, a) == [class |-> c, name |-> n, arg |-> a]

Result(s, acts) == [state |-> s, actions |-> acts]

---------------------------------------------------------------------------
(* Events.  A content is what the prefixes and the split tell apart. *)

Contents ==
  [form: {"new_session"}, body: {TRUE}, name: Threads \cup {NoThread}]
    \cup [form: {"new_thread"}, body: {TRUE}, name: Threads]
    \cup [form: {"new_session"}, body: {FALSE}, name: {NoThread}]
    \cup [form: {"at"}, body: BOOLEAN, name: Threads]
    \cup [form: {"plain"}, body: {TRUE}, name: {NoThread}]

NewThread == [form |-> "new_thread", body |-> TRUE, name |-> Slug]

(* The app's map has an entry per chat and no two entries meet: its events
   come from one chat, or from none.                                        *)
AppChat == CHOOSE c \in Chats : TRUE

Malformed == [event_type |-> "malformed"]
OtherEvent == [event_type |-> "other"]

(* What process_handler_call() refuses before it looks at the handler is
   enumerated for one module each: it is the same for all.                 *)
Events ==
  {OtherEvent}
    \cup CASE module = "feishu_app" ->
                [event_type: {"msg_received"}, chat_id: {AppChat}, content: Contents]
                  \cup [event_type: {"msg_received"}, chat_id: {NoChat}, content: {NewThread}]
           [] module = "feishu_thread" ->
                [event_type: {"msg_received"}, message_id: Messages, chat_id: Chats]
                  \cup [event_type: {"msg_received"}, message_id: {NoMessage}, chat_id: {NoChat}]
                  \cup [event_type: {"cc_output"}]
           [] module = "cc_session" -> [event_type: {"cc_output"}]
           [] module = "cc_adapter_runner" -> [event_type: {"text"}]
           [] module = "custom" -> {Malformed} \cup [event_type: {"raises", "bad_return"}]

---------------------------------------------------------------------------
(* feishu_app: on_msg, _handle_new_session, _handle_at_routed. *)

WithThread(s, chat, t) ==
  [s EXCEPT !.bound_threads = @ \cup {t},
            !.active = IF chat = NoChat THEN @ ELSE [@ EXCEPT ![chat] = t]]

HandleNewSession(s, e) ==
  LET t == IF e.content.name # NoThread THEN e.content.name ELSE Slug IN
    IF ~e.content.body THEN Result(s, <<>>)
    ELSE Result(WithThread(s, e.chat_id, t), <<Action("InvokeCommand", "feishu-thread-session", t)>>)

HandleAtRouted(s, e) ==
  IF e.content.body /\ e.content.name \in s.bound_threads
  THEN Result(s, <<Action("Route", "msg_received", e.content.name)>>)
  ELSE Result(s, <<>>)

HandleActive(s, e) ==
  LET t == IF e.chat_id \in Chats THEN s.active[e.chat_id] ELSE NoThread IN
    IF t # NoThread /\ t \in s.bound_threads
    THEN Result(s, <<Action("Route", "msg_received", t)>>)
    ELSE Result(s, <<>>)

FeishuAppOnMsg(s, e) ==
  LET n == IF e.chat_id = NoChat THEN s ELSE [s EXCEPT !.last_chat_id = e.chat_id] IN
    CASE e.content.form \in {"new_session", "new_thread"} -> HandleNewSession(n, e)
      [] e.content.form = "at" -> HandleAtRouted(n, e)
      [] OTHER -> HandleActive(n, e)

(* feishu_thread: _handle_inbound with the bounded dedup, _handle_outbound. *)

\* MUTANT of Evicts: the oldest entry goes one message too early.
EvictsEarly(order) == Len(order) >= DedupCap
Evicts(order) == Len(order) > DedupCap

\* MUTANT of WithAddedDedup: the oldest leaves the order and stays in the set.
WithLeakedDedup(s, m) ==
  LET order == Append(s.dedup_order, m) IN
    [s EXCEPT !.dedup = @ \cup {m}, !.dedup_order = IF Evicts(order) THEN Tail(order) ELSE order]

WithAddedDedup(s, m) ==
  LET order == Append(s.dedup_order, m) IN
    IF Evicts(order)
    THEN [s EXCEPT !.dedup = (@ \cup {m}) \ {Head(order)}, !.dedup_order = Tail(order)]
    ELSE [s EXCEPT !.dedup = @ \cup {m}, !.dedup_order = order]

WithChatId(s, chat) ==
  IF chat # NoChat /\ s.chat_id = NoChat THEN [s EXCEPT !.chat_id = chat] ELSE s

HandleInbound(s, e) ==
  LET seen == e.message_id # NoMessage
      n == IF seen THEN WithAddedDedup(s, e.message_id) ELSE s
  IN IF seen /\ e.message_id \in s.dedup THEN Result(s, <<>>)
     ELSE Result(WithChatId(n, e.chat_id),
                 <<Action("Emit", "notify_session", e.message_id)>>)

HandleOutbound(s) ==
  IF s.chat_id = NoChat THEN Result(s, <<>>)
  ELSE Result(s, <<Action("Emit", "send_message", s.chat_id)>>)

FeishuThreadOnMsg(s, e) ==
  IF e.event_type = "msg_received" THEN HandleInbound(s, e) ELSE HandleOutbound(s)

(* cc_session: up to the parent thread.  cc_adapter_runner: into the PTY. *)
CcSessionOnMsg(s) ==
  IF s.parent_thread = NoThread THEN Result(s, <<>>)
  ELSE Result(s, <<Action("Route", "cc_output", s.parent_thread)>>)

CcAdapterRunnerOnMsg(s) ==
  Result([s EXCEPT !.message_count = @ + 1], <<Action("SendInput", "text", NoThread)>>)

OnMsg(s, e) ==
  IF e.event_type = "other" THEN Result(s, <<>>)
  ELSE CASE module = "feishu_app" -> FeishuAppOnMsg(s, e)
         [] module = "feishu_thread" -> FeishuThreadOnMsg(s, e)
         [] module = "cc_session" -> CcSessionOnMsg(s)
         [] module = "cc_adapter_runner" -> CcAdapterRunnerOnMsg(s)
         [] OTHER -> Result(s, <<>>)

---------------------------------------------------------------------------
(* process_handler_call(): every error is a reply, except that a value that
   is no state, or no action, raises out of it.                            *)

(* @handler and @handler_state of the imported module fill the registries. *)
ActorTypeOf ==
  [feishu_app |-> "feishu_app_proxy", feishu_thread |-> "feishu_thread_proxy",
   cc_session |-> "cc_proxy", cc_adapter_runner |-> "cc_adapter_runner", custom |-> "custom"]
Registered(type) == type = ActorTypeOf[module]

Raises(p) ==
  /\ p.event # Malformed /\ Registered(p.handler)
  /\ p.state.version \in {NoVersion, SchemaVersion}
  /\ p.event.event_type = "bad_return"

Error(type) == [error |-> type]

ProcessHandlerCall(p) ==
  IF p.event = Malformed THEN Error("MalformedEnvelope")
  ELSE IF ~Registered(p.handler) THEN Error("HandlerNotRegistered")
  ELSE IF p.state.version \notin {NoVersion, SchemaVersion} THEN Error("SchemaVersionMismatch")
  ELSE IF p.event.event_type = "raises" THEN Error("handler")
  ELSE LET r == OnMsg(LoadState(p.state.fields), p.event) IN
         [new_state |-> [version |-> SchemaVersion, fields |-> DumpState(r.state)],
          actions |-> Serialised(r.actions)]

(* _handler_call_loop(): one call, its reply under the call's id. *)
HandlerReply(id, payload) == [kind |-> "handler_reply", id |-> id, payload |-> payload]

HandlerCallLoop ==
  /\ cycle = "serving" /\ queue # <<>>
  /\ LET c == Head(queue) IN
       IF Raises(c.payload) \/ PushRaises
       THEN EndCycle
       ELSE /\ queue' = Tail(queue)
            /\ to_server' = Pushed(HandlerReply(c.id, ProcessHandlerCall(c.payload)))
            /\ UNCHANGED <<cycle, attempt, url, portVars, ws, join_reply, to_worker, channel,
                           faults>>
  /\ UNCHANGED actorVars

---------------------------------------------------------------------------
(* The caller: invoke_handler/3, call_with_retry/2 and HandlerRouter.call/3. *)

Payload(e) == [handler |-> actor_type, state |-> committed, event |-> e]

Send(e, try) ==
  /\ call' = [id |-> next_id, event |-> e, try |-> try]
  /\ next_id' = next_id + 1
  /\ Broadcast([kind |-> "handler_call", id |-> next_id, payload |-> Payload(e)])

Quiet == faults = 0 /\ next_id = events + 1

StartCall(e) ==
  /\ call = NoCall
  /\ events < MaxEvents \/ (Quiet /\ events < QuietEvents)
  /\ Send(e, 1)
  /\ events' = events + 1
  /\ UNCHANGED <<module, actor_type, committed, dispatched, cycle, attempt, url, portVars, ws,
                 join_reply, queue, to_server, channel, faults>>

(* HandlerChannel publishes the reply under its id; the caller takes the one
   it waits for, a late one reaches nobody.                                *)
Expected(f) == f.id = call.id

\* MUTANT of AcceptReply: the actions are dispatched, the state is not kept.
AcceptActions(r) ==
  /\ call' = NoCall /\ UNCHANGED committed
  /\ dispatched' = IF "error" \in DOMAIN r THEN dispatched ELSE dispatched \o r.actions

AcceptReply(r) ==
  /\ call' = NoCall
  /\ IF "error" \in DOMAIN r THEN UNCHANGED <<committed, dispatched>>
     ELSE /\ committed' = r.new_state
          /\ dispatched' = dispatched \o r.actions

ServerReadsReply ==
  /\ to_server # <<>> /\ Head(to_server).kind = "handler_reply"
  /\ LET f == Head(to_server) IN
       IF Expected(f) THEN AcceptReply(f.payload) ELSE UNCHANGED <<call, committed, dispatched>>
  /\ to_server' = Tail(to_server)
  /\ UNCHANGED <<module, actor_type, next_id, events, cycle, attempt, url, portVars, ws,
                 join_reply, to_worker, queue, channel, faults>>

(* A time-out is tried once more, then the event is a dead letter. *)
CallTimeout ==
  /\ call # NoCall
  /\ \/ call.try = 1 /\ Send(call.event, 2)
     \/ call.try = 2 /\ call' = NoCall /\ UNCHANGED <<next_id, to_worker>>
  /\ UNCHANGED <<module, actor_type, committed, events, dispatched, cycle, attempt, url,
                 portVars, ws, join_reply, queue, to_server, channel, faults>>

---------------------------------------------------------------------------
Init ==
  /\ CycleInit
  /\ module \in Modules
  /\ actor_type \in {ActorTypeOf[module]} \cup (IF module = "cc_adapter_runner" THEN {"unknown"} ELSE {})
  /\ committed \in
       {[version |-> NoVersion, fields |-> <<>>]}
         \cup (IF module = "cc_session"
               THEN [version: {NoVersion, SchemaVersion + 1}, fields: [parent_thread: Threads]]
               ELSE {})
  /\ call = NoCall
  /\ next_id = 1
  /\ events = 0
  /\ dispatched = <<>>

Next ==
  \/ (ConnectionStep \/ JoinOk \/ JoinRaises \/ WatchDisconnect) /\ UNCHANGED actorVars
  \/ HandlerCallLoop \/ ServerReadsReply \/ CallTimeout
  \/ \E e \in Events : StartCall(e)

Spec == Init /\ [][Next]_vars

(* asyncio runs what is ready, its timers included; esrd reads its socket,
   answers a join, and its launcher starts it again when it has exited.     *)
FairSpec ==
  /\ Spec
  /\ WF_vars((ResolveUrl \/ BackoffEnds \/ Connect \/ ConnectFails \/ JoinOk \/ JoinRaises
              \/ ReadLoop \/ ReadLoopEnds \/ WatchDisconnect) /\ UNCHANGED actorVars)
  /\ WF_vars(HandlerCallLoop)
  /\ WF_vars((ServerReadsHello \/ \E s \in {"ok", "error"} : ServerJoins(s))
               /\ UNCHANGED actorVars)
  /\ WF_vars(ServerReadsReply)
  /\ WF_vars(LauncherStep /\ UNCHANGED actorVars)
  /\ WF_vars(CallTimeout)

---------------------------------------------------------------------------
(* Properties. *)

TypeOK ==
  /\ CycleTypeOK
  /\ module \in Modules
  /\ committed.version \in {NoVersion, SchemaVersion, SchemaVersion + 1}
  /\ call = NoCall \/ (call.id \in 1..(next_id - 1) /\ call.event \in Events /\ call.try \in {1, 2})
  /\ events \in 0..Max({MaxEvents, QuietEvents})
  /\ \A i \in DOMAIN dispatched :
       dispatched[i].type \in {ActionType[c] : c \in DOMAIN ActionType}

(* Why AtomicTransition holds.  A frame that carries the id of the call the actor
   waits for carries the state that is still committed, or what the handler
   makes of it: every try has an id of its own, and nothing is committed while
   one is waited for.                                                        *)
IsSeq(q) == q \in Seq(Range(q))

OwnCall(c) ==
  /\ c.id \in 1..(next_id - 1)
  /\ c.id = call.id => c.payload = Payload(call.event)

OwnReply(f) ==
  /\ f.id \in 1..(next_id - 1)
  /\ f.id = call.id => f.payload = ProcessHandlerCall(Payload(call.event))

ReplyInv ==
  /\ next_id \in Nat \ {0}
  /\ call = NoCall \/ (call.id \in 1..(next_id - 1) /\ call.event \in Events)
  /\ IsSeq(to_worker) /\ IsSeq(queue) /\ IsSeq(to_server) /\ IsSeq(dispatched)
  /\ \A f \in Range(to_worker) : f.event = "envelope" => OwnCall(f.payload)
  /\ \A c \in Range(queue) : OwnCall(c)
  /\ \A f \in Range(to_server) : f.kind = "handler_reply" => OwnReply(f)

(* One application of the handler to the committed state, for the event of the
   call in progress, which ends with it.                                    *)
Commit(e) ==
  LET r == OnMsg(LoadState(committed.fields), e) IN
    /\ committed'.fields = DumpState(r.state)
    /\ dispatched' = dispatched \o Serialised(r.actions)
CallCommits ==
  /\ call # NoCall /\ call' = NoCall
  /\ call.event \in Events \ {Malformed} /\ Commit(call.event)

(* A committed state and the actions dispatched with it are one application of
   the handler, to the state committed before and the event of the call the
   actor waits for: no retry, lost reply, late reply or reconnect makes it lose
   an update or act twice for one.                                          *)
AtomicTransition ==
  [][<<committed, dispatched>>' # <<committed, dispatched>> => CallCommits]_vars

(* The messages among the actions from..to that notified the session. *)
IsNotify(a) == a.name = "notify_session" /\ a.arg # NoMessage
NotifiedIn(from, to) == {dispatched[k].arg : k \in {k \in from..to : IsNotify(dispatched[k])}}

(* A message that is delivered again notifies the session again only after
   DedupCap other messages have pushed its id out of the thread's dedup list. *)
NotifiedOnce ==
  \A i, j \in DOMAIN dispatched :
    /\ i < j /\ IsNotify(dispatched[i]) /\ IsNotify(dispatched[j])
    /\ dispatched[i].arg = dispatched[j].arg
    => Cardinality(NotifiedIn(i + 1, j - 1)) >= DedupCap

ActiveBound(s) ==
  \A c \in Chats : s.active[c] = NoThread \/ s.active[c] \in s.bound_threads

(* Through every round trip to JSON and back a handler's state keeps what its
   on_msg() relies on.  The thread's dedup set is what its eviction order
   lists; a thread that is active in a chat is one the app has bound, so that a
   plain message after a /new-session of its chat is always routed.         *)
StateCoherent ==
  LET s == LoadState(committed.fields) IN
    /\ module = "feishu_thread" =>
         /\ s.dedup = Range(s.dedup_order)
         /\ Len(s.dedup_order) = Cardinality(s.dedup)
         /\ Len(s.dedup_order) <= DedupCap
    /\ module = "feishu_app" => ActiveBound(s)

(* Why both hold.  dedup_order lists the last messages that notified, the oldest
   first: a notification is followed by those of every id listed after its own,
   or, once its id has been evicted, by those of DedupCap ids.              *)
Loaded == LoadState(committed.fields)

ThreadStates ==
  [chat_id: Chats \cup {NoChat}, dedup: SUBSET Messages, dedup_order: Seq(Messages)]

AppStates ==
  [bound_threads: SUBSET (Threads \cup {Slug}),
   active: [Chats -> Threads \cup {Slug, NoThread}],
   last_chat_id: Chats \cup {NoChat, AppChat}]

DedupCoherent(s) ==
  /\ s.dedup = Range(s.dedup_order)
  /\ IsInjective(s.dedup_order)
  /\ Len(s.dedup_order) <= DedupCap

Evicted(i, s) ==
  /\ dispatched[i].arg \notin s.dedup
  /\ Len(s.dedup_order) = DedupCap
  /\ s.dedup \subseteq NotifiedIn(i + 1, Len(dispatched))

Listed(i, s) ==
  \E a \in DOMAIN s.dedup_order :
    /\ s.dedup_order[a] = dispatched[i].arg
    /\ \A b \in (a + 1)..Len(s.dedup_order) :
         s.dedup_order[b] \in NotifiedIn(i + 1, Len(dispatched))

Tracked(s) ==
  \A i \in DOMAIN dispatched : IsNotify(dispatched[i]) => Evicted(i, s) \/ Listed(i, s)

StateInv ==
  /\ module \in Modules
  /\ module = "feishu_thread" =>
       Loaded \in ThreadStates /\ DedupCoherent(Loaded) /\ Tracked(Loaded)
  /\ module # "feishu_thread" => \A i \in DOMAIN dispatched : ~IsNotify(dispatched[i])
  /\ module = "feishu_app" =>
       Loaded \in AppStates /\ IsFiniteSet(Loaded.bound_threads) /\ ActiveBound(Loaded)

=============================================================================
