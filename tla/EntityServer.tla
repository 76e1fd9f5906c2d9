------------------------------ MODULE EntityServer ------------------------------
(***************************************************************************)
(* Esr.Entity.Server (runtime/lib/esr/entity/server.ex): the GenServer     *)
(* that runs one actor.  It takes inbound events from its mailbox, calls   *)
(* the actor's handler in a Python worker (Esr.HandlerRouter.call/3),      *)
(* commits the state the handler returns, dispatches the actions it asked  *)
(* for, and tracks every directive it broadcasts until the adapter acks it *)
(* or its deadline passes.  Tool requests from the agent's channel use the *)
(* same tracking.                                                          *)
(*                                                                         *)
(* The process is sequential; what interleaves with it is everything that  *)
(* can put a message in its mailbox, the worker, the adapter, the timers   *)
(* and a crash.  One action is one message handled, except that a handler  *)
(* invocation is cut where the process waits for the worker and where a    *)
(* crash can separate the commit, the ETS write and each dispatch.         *)
(*                                                                         *)
(* The handler's state (an opaque map) is abstracted to the sequence of    *)
(* events it has absorbed, and an envelope to its identity, its            *)
(* idempotency key and nothing else.                                       *)
(***************************************************************************)
EXTENDS Integers, Sequences, FiniteSets

CONSTANTS
  Events,       \* inbound envelopes, each delivered at most once
  Keys,         \* idempotency keys
  NoKey,        \* payload.args.idempotency_key absent
  KeyOf,        \* [Events -> Keys \cup {NoKey}]
  Reqs,         \* tool_invoke request ids
  NoCall,       \* no handler call in progress
  ActionLists,  \* the action lists a handler may return
  DedupLimit,   \* @dedup_limit
  PauseLimit,   \* @pause_queue_limit
  MaxAcks,      \* bound: acks an adapter sends for one directive
  MaxToggles,   \* bound: pause/resume calls made by operators
  MaxCrashes    \* bound: crashes other than the ones the code itself causes

ActionKinds == {"emit", "other"}
Tools == {"reply", "session.signal_cleanup", "unknown"}

ASSUME KeyAssumption ==
  /\ NoKey \notin Keys
  /\ KeyOf \in [Events -> Keys \cup {NoKey}]
ASSUME ActionAssumption == ActionLists \subseteq Seq(ActionKinds)
ASSUME LimitAssumption ==
  /\ DedupLimit \in Nat
  /\ PauseLimit \in Nat
  /\ MaxAcks \in Nat
  /\ MaxToggles \in Nat
  /\ MaxCrashes \in Nat

CallRecords == [id: Nat, event: Events, base: Seq(Events)]
ASSUME NoCallAssumption == NoCall \notin CallRecords

VARIABLES
  mailbox,            \* messages waiting for handle_call / handle_info
  paused,             \* %Server{}.paused
  pending_events,     \* %Server{}.pending_events, newest at the head
  dedup_keys,         \* %Server{}.dedup_keys
  dedup_order,        \* %Server{}.dedup_order, oldest at the head
  pending_directives, \* DOMAIN of %Server{}.pending_directives
  pending_tool_reqs,  \* %Server{}.pending_tool_reqs: directive id -> req_id
  state,              \* %Server{}.state, as the events it has absorbed
  pc,                 \* where invoke_handler/3 stands
  call,               \* the handler call it waits for
  attempt,            \* first or second attempt of call_with_retry/2
  actions,            \* returned actions not yet dispatched
  persisted,          \* the actor's row in the :esr_actor_states ETS table
  calls,              \* handler calls the worker has not answered
  subs,               \* directive_ack topics this process subscribes to
  timers,             \* armed {:directive_deadline, id} timers
  wire,               \* directives broadcast: id -> acks sent and basis state
  next_id,            \* System.unique_integer
  arrival,            \* history: events in the order they were delivered
  started,            \* history: events in the order their handler was called
  outcome,            \* history: how each event was settled
  committed,          \* history: keys committed by this incarnation
  results,            \* history: tool_results sent for each request
  asked,              \* requests the agent has sent
  toggles, crashes    \* counters for the bounds

serverVars == <<paused, pending_events, dedup_keys, dedup_order,
                pending_directives, pending_tool_reqs, state>>
callVars == <<pc, call, attempt, actions>>
envVars == <<persisted, calls, subs, timers, wire, next_id>>
histVars == <<arrival, started, outcome, committed, results>>
boundVars == <<asked, toggles, crashes>>
vars == <<mailbox, serverVars, callVars, envVars, histVars, boundVars>>

---------------------------------------------------------------------------
(* Messages. *)

Inbound(e) == [type |-> "inbound_event", event |-> e]
ToolInvoke(r, t) == [type |-> "tool_invoke", req |-> r, tool |-> t]
DirectiveAck(d) == [type |-> "directive_ack", id |-> d]
DirectiveDeadline(d) == [type |-> "directive_deadline", id |-> d]
GenCall(op) == [type |-> op]
HandlerReply == [type |-> "handler_reply"]

Messages ==
  [type: {"inbound_event"}, event: Events]
    \cup [type: {"tool_invoke"}, req: Reqs, tool: Tools]
    \cup [type: {"directive_ack", "directive_deadline"}, id: Nat]
    \cup [type: {"pause", "resume", "handler_reply"}]

\* What a fate telemetry event (or its absence) says happened to an event.
Outcomes == {"none", "committed", "dedup_drop", "denied", "overflow",
             "dead_letter", "handler_error", "lost"}
ToolResults == {"acked", "timeout", "direct_ack", "invalid_args", "unauthorized"}

Elems(s) == {s[i] : i \in DOMAIN s}
EmptyMap == [d \in {} |-> d]

\* The process takes the message at the head of its mailbox.
Receive(type) ==
  /\ pc = "idle"
  /\ mailbox # << >>
  /\ Head(mailbox).type = type
Msg == Head(mailbox)
Consume == mailbox' = Tail(mailbox)

---------------------------------------------------------------------------
(* init/1: the first incarnation finds no ETS row and starts empty.        *)

Init ==
  /\ mailbox = << >>
  /\ paused = FALSE
  /\ pending_events = << >>
  /\ dedup_keys = {}
  /\ dedup_order = << >>
  /\ pending_directives = {}
  /\ pending_tool_reqs = EmptyMap
  /\ state = << >>
  /\ pc = "idle"
  /\ call = NoCall
  /\ attempt = 1
  /\ actions = << >>
  /\ persisted = << >>
  /\ calls = {}
  /\ subs = {}
  /\ timers = {}
  /\ wire = EmptyMap
  /\ next_id = 1
  /\ arrival = << >>
  /\ started = << >>
  /\ outcome = [e \in Events |-> "none"]
  /\ committed = << >>
  /\ results = [r \in Reqs |-> << >>]
  /\ asked = {}
  /\ toggles = 0
  /\ crashes = 0

---------------------------------------------------------------------------
(* The environment: adapters and channels send messages, operators call    *)
(* pause/1 and resume/1, timers fire, the adapter acks directives.         *)

DeliverEvent(e) ==
  /\ e \notin Elems(arrival)
  /\ arrival' = Append(arrival, e)
  /\ mailbox' = Append(mailbox, Inbound(e))
  /\ UNCHANGED <<serverVars, callVars, envVars, boundVars,
                 started, outcome, committed, results>>

DeliverToolInvoke(r, t) ==
  /\ r \notin asked
  /\ asked' = asked \cup {r}
  /\ mailbox' = Append(mailbox, ToolInvoke(r, t))
  /\ UNCHANGED <<serverVars, callVars, envVars, histVars, toggles, crashes>>

DeliverGenCall(op) ==
  /\ toggles < MaxToggles
  /\ toggles' = toggles + 1
  /\ mailbox' = Append(mailbox, GenCall(op))
  /\ UNCHANGED <<serverVars, callVars, envVars, histVars, asked, crashes>>

\* The adapter's ack reaches the process only while it is subscribed to
\* directive_ack:<id>; an adapter that reconnects may ack twice.
AdapterAck(d) ==
  /\ d \in DOMAIN wire
  /\ wire[d].acks < MaxAcks
  /\ wire' = [wire EXCEPT ![d].acks = @ + 1]
  /\ mailbox' = IF d \in subs THEN Append(mailbox, DirectiveAck(d)) ELSE mailbox
  /\ UNCHANGED <<serverVars, callVars, persisted, calls, subs, timers, next_id,
                 histVars, boundVars>>

\* Process.send_after: no code path cancels the timer.
FireDeadline(d) ==
  /\ d \in timers
  /\ timers' = timers \ {d}
  /\ mailbox' = Append(mailbox, DirectiveDeadline(d))
  /\ UNCHANGED <<serverVars, callVars, persisted, calls, subs, wire, next_id,
                 histVars, boundVars>>

---------------------------------------------------------------------------
(* pause/1, resume/1 and the inbound event clauses.                        *)

HandlePause ==
  /\ Receive("pause")
  /\ Consume
  /\ paused' = TRUE
  /\ UNCHANGED <<pending_events, dedup_keys, dedup_order, pending_directives,
                 pending_tool_reqs, state, callVars, envVars, histVars, boundVars>>

\* Mutant: resuming lifts the flag and replays nothing.
HeldMessagesDropped == << >>

\* Enum.reverse(pending_events), as messages.
HeldMessages ==
  [i \in 1..Len(pending_events) |->
     Inbound(pending_events[Len(pending_events) + 1 - i])]

\* The held events are sent to self(): they go to the tail of the mailbox.
HandleResume ==
  /\ Receive("resume")
  /\ mailbox' = Tail(mailbox) \o HeldMessages
  /\ paused' = FALSE
  /\ pending_events' = << >>
  /\ UNCHANGED <<dedup_keys, dedup_order, pending_directives, pending_tool_reqs,
                 state, callVars, envVars, histVars, boundVars>>

\* Paused: hold the event, or drop it when the queue is full.
HandleInboundPaused ==
  /\ Receive("inbound_event")
  /\ paused
  /\ Consume
  /\ IF Len(pending_events) >= PauseLimit
       THEN /\ outcome' = [outcome EXCEPT ![Msg.event] = "overflow"]
            /\ UNCHANGED pending_events
       ELSE /\ pending_events' = <<Msg.event>> \o pending_events
            /\ UNCHANGED outcome
  /\ UNCHANGED <<paused, dedup_keys, dedup_order, pending_directives,
                 pending_tool_reqs, state, callVars, envVars, boundVars,
                 arrival, started, committed, results>>

\* CapGuard.check_inbound/3 answers :denied; the grants may change at any time.
HandleInboundDenied ==
  /\ Receive("inbound_event")
  /\ ~paused
  /\ Consume
  /\ outcome' = [outcome EXCEPT ![Msg.event] = "denied"]
  /\ UNCHANGED <<serverVars, callVars, envVars, boundVars,
                 arrival, started, committed, results>>

IsDuplicate(key) == key # NoKey /\ key \in dedup_keys

HandleInboundDuplicate ==
  /\ Receive("inbound_event")
  /\ ~paused
  /\ IsDuplicate(KeyOf[Msg.event])
  /\ Consume
  /\ outcome' = [outcome EXCEPT ![Msg.event] = "dedup_drop"]
  /\ UNCHANGED <<serverVars, callVars, envVars, boundVars,
                 arrival, started, committed, results>>

---------------------------------------------------------------------------
(* invoke_handler/3.  HandlerRouter.call/3 subscribes to handler_reply:<id> *)
(* and broadcasts the call; the process then waits in a selective receive. *)

CallHandler(e) ==
  LET c == [id |-> next_id, event |-> e, base |-> state]
  IN  /\ call' = c
      /\ calls' = calls \cup {c}
      /\ next_id' = next_id + 1
      /\ pc' = "calling"

HandleInbound ==
  /\ Receive("inbound_event")
  /\ ~paused
  /\ ~IsDuplicate(KeyOf[Msg.event])
  /\ Consume
  /\ CallHandler(Msg.event)
  /\ attempt' = 1
  /\ started' = Append(started, Msg.event)
  /\ UNCHANGED <<serverVars, actions, persisted, subs, timers, wire, boundVars,
                 arrival, outcome, committed, results>>

\* Mutants: the size test is off by one; eviction trims only the queue.
WindowOverflowsEarly(keys) == Cardinality(keys) >= DedupLimit
EvictNothing(keys, order) == keys

WindowOverflows(keys) == Cardinality(keys) > DedupLimit
EvictOldest(keys, order) == keys \ {Head(order)}

\* record_dedup/2 and evict_if_full/2.
RecordDedup(key) ==
  IF key = NoKey
    THEN UNCHANGED <<dedup_keys, dedup_order, committed>>
    ELSE LET keys == dedup_keys \cup {key}
             order == Append(dedup_order, key)
         IN  /\ committed' = Append(committed, key)
             /\ IF WindowOverflows(keys)
                  THEN /\ dedup_keys' = EvictOldest(keys, order)
                       /\ dedup_order' = Tail(order)
                  ELSE /\ dedup_keys' = keys
                       /\ dedup_order' = order

\* Mutant: the receive does not pin the call id.
MatchesAny(c) == c \in calls

\* The selective receive takes only the reply to the call it is waiting for.
Matches(c) == c = call

\* {:ok, new_state, actions}: the worker computed new_state from the state
\* that the call carried.
ReplyOk(c, acts) ==
  /\ pc = "calling"
  /\ c \in calls
  /\ Matches(c)
  /\ calls' = calls \ {c}
  /\ state' = Append(c.base, call.event)
  /\ RecordDedup(KeyOf[call.event])
  /\ actions' = acts
  /\ pc' = "persist"
  /\ UNCHANGED <<mailbox, paused, pending_events, pending_directives,
                 pending_tool_reqs, call, attempt, persisted, subs, timers, wire,
                 next_id, boundVars, arrival, started, outcome, results>>

\* Back to the mailbox, the handler having failed: the state is unchanged.
GiveUp(o) ==
  /\ pc' = "idle"
  /\ call' = NoCall
  /\ actions' = << >>
  /\ outcome' = [outcome EXCEPT ![call.event] = o]

\* {:error, {:handler_error, _}} is not retryable; as the answer to the
\* second attempt it exhausts the retry.
ReplyError(c) ==
  /\ pc = "calling"
  /\ c \in calls
  /\ Matches(c)
  /\ calls' = calls \ {c}
  /\ GiveUp(IF attempt = 1 THEN "handler_error" ELSE "dead_letter")
  /\ UNCHANGED <<mailbox, serverVars, attempt, persisted, subs, timers, wire,
                 next_id, boundVars, arrival, started, committed, results>>

\* The receive times out.  Until the `after` block has unsubscribed, a late
\* reply still reaches the mailbox.
CallTimeout ==
  /\ pc = "calling"
  /\ pc' = "timed_out"
  /\ UNCHANGED <<mailbox, serverVars, call, attempt, actions, envVars,
                 histVars, boundVars>>

\* Mutant: every timeout is retried.
RetryAlways == TRUE

RetriesLeft == attempt = 1

\* Unsubscribed: retry once, then dead-letter.
Unsubscribe ==
  /\ pc = "timed_out"
  /\ \/ /\ RetriesLeft
        /\ attempt' = attempt + 1
        /\ CallHandler(call.event)
        /\ UNCHANGED <<actions, outcome>>
     \/ /\ ~RetriesLeft
        /\ GiveUp("dead_letter")
        /\ UNCHANGED <<attempt, calls, next_id>>
  /\ UNCHANGED <<mailbox, serverVars, persisted, subs, timers, wire, boundVars,
                 arrival, started, committed, results>>

\* A reply nobody waits for: it lands in the mailbox if the process is still
\* subscribed to its topic, and nowhere otherwise.
LateReply(c) ==
  /\ c \in calls
  /\ ~(pc = "calling" /\ Matches(c))
  /\ calls' = calls \ {c}
  /\ mailbox' = IF pc = "timed_out" /\ c = call
                  THEN Append(mailbox, HandlerReply) ELSE mailbox
  /\ UNCHANGED <<serverVars, callVars, persisted, subs, timers, wire, next_id,
                 histVars, boundVars>>

\* Mutant: the row keeps the state from before the call.
StaleRow == persisted

Row == state

PersistState ==
  /\ pc = "persist"
  /\ persisted' = Row
  /\ outcome' = [outcome EXCEPT ![call.event] = "committed"]
  /\ pc' = "dispatch"
  /\ UNCHANGED <<mailbox, serverVars, call, attempt, actions, calls, subs, timers,
                 wire, next_id, boundVars, arrival, started, committed, results>>

---------------------------------------------------------------------------
(* Directives: dispatch_action/2 and emit_and_track/2.                     *)

\* Mutant: no deadline is armed.
NoDeadline(id) == {}

Deadline(id) == {id}

\* Subscribe to the ack topic, arm the deadline, broadcast, remember the id.
Emit(id) ==
  /\ subs' = subs \cup {id}
  /\ timers' = timers \cup Deadline(id)
  /\ wire' = [d \in DOMAIN wire \cup {id} |->
                IF d = id THEN [acks |-> 0, basis |-> state] ELSE wire[d]]
  /\ pending_directives' = pending_directives \cup {id}
  /\ next_id' = id + 1

\* dispatch_action/2: only an emit to a real adapter changes the server's
\* state; esr-channel notifications and unknown actions leave it alone.
DispatchAction ==
  /\ pc = "dispatch"
  /\ actions # << >>
  /\ actions' = Tail(actions)
  /\ IF Head(actions) = "emit"
       THEN Emit(next_id)
       ELSE UNCHANGED <<subs, timers, wire, pending_directives, next_id>>
  /\ UNCHANGED <<mailbox, paused, pending_events, dedup_keys, dedup_order,
                 pending_tool_reqs, state, pc, call, attempt, persisted, calls,
                 histVars, boundVars>>

FinishInvocation ==
  /\ pc = "dispatch"
  /\ actions = << >>
  /\ pc' = "idle"
  /\ call' = NoCall
  /\ UNCHANGED <<mailbox, serverVars, attempt, actions, envVars, histVars, boundVars>>

Answer(r, result) == results' = [results EXCEPT ![r] = Append(@, result)]

\* build_emit_for_tool/3; `valid` stands for its argument checks and for the
\* file or chat id it looks up.
BuildEmitForTool(tool, valid) ==
  CASE tool = "session.signal_cleanup" -> "direct_ack"
    [] tool = "reply" /\ valid -> "emit"
    [] OTHER -> "invalid_args"

HandleToolInvoke ==
  /\ Receive("tool_invoke")
  /\ Consume
  /\ \E granted, valid \in BOOLEAN :
       LET reply == IF granted THEN BuildEmitForTool(Msg.tool, valid)
                               ELSE "unauthorized"
       IN  IF reply = "emit"
             THEN /\ Emit(next_id)
                  /\ pending_tool_reqs' =
                       [d \in DOMAIN pending_tool_reqs \cup {next_id} |->
                          IF d = next_id THEN Msg.req ELSE pending_tool_reqs[d]]
                  /\ UNCHANGED results
             ELSE /\ Answer(Msg.req, reply)
                  /\ UNCHANGED <<subs, timers, wire, pending_directives, next_id,
                                 pending_tool_reqs>>
  /\ UNCHANGED <<paused, pending_events, dedup_keys, dedup_order, state, callVars,
                 persisted, calls, boundVars, arrival, started, outcome, committed>>

\* Mutant: the request stays in the map.
KeepToolReq(d) == pending_tool_reqs

ForgetToolReq(d) ==
  [x \in DOMAIN pending_tool_reqs \ {d} |-> pending_tool_reqs[x]]

\* Both maps forget the directive and its topic is unsubscribed; if it came
\* from a tool request the requester is answered.
Complete(d, result) ==
  /\ pending_directives' = pending_directives \ {d}
  /\ pending_tool_reqs' = ForgetToolReq(d)
  /\ subs' = IF d \in pending_directives \cup DOMAIN pending_tool_reqs
                THEN subs \ {d} ELSE subs
  /\ IF d \in DOMAIN pending_tool_reqs
       THEN Answer(pending_tool_reqs[d], result)
       ELSE UNCHANGED results

HandleAck ==
  /\ Receive("directive_ack")
  /\ Consume
  /\ Complete(Msg.id, "acked")
  /\ UNCHANGED <<paused, pending_events, dedup_keys, dedup_order, state, callVars,
                 persisted, calls, timers, wire, next_id, boundVars,
                 arrival, started, outcome, committed>>

HandleDeadline ==
  /\ Receive("directive_deadline")
  /\ Consume
  /\ Complete(Msg.id, "timeout")
  /\ UNCHANGED <<paused, pending_events, dedup_keys, dedup_order, state, callVars,
                 persisted, calls, timers, wire, next_id, boundVars,
                 arrival, started, outcome, committed>>

---------------------------------------------------------------------------
(* The process dies with its mailbox, its subscriptions and its timers; the *)
(* supervisor (restart: :transient) starts it again and init/1 rehydrates   *)
(* the state from the ETS row.  An event in hand or in the mailbox is lost. *)

Restart ==
  /\ mailbox' = << >>
  /\ paused' = FALSE
  /\ pending_events' = << >>
  /\ dedup_keys' = {}
  /\ dedup_order' = << >>
  /\ pending_directives' = {}
  /\ pending_tool_reqs' = EmptyMap
  /\ state' = persisted
  /\ pc' = "idle"
  /\ call' = NoCall
  /\ attempt' = 1
  /\ actions' = << >>
  /\ subs' = {}
  /\ timers' = {}
  /\ committed' = << >>
  /\ outcome' = [e \in Events |->
                   IF e \in Elems(arrival) /\ outcome[e] = "none"
                     THEN "lost" ELSE outcome[e]]
  /\ UNCHANGED <<persisted, calls, wire, next_id, arrival, started, results,
                 asked, toggles>>

Crash ==
  /\ crashes < MaxCrashes
  /\ crashes' = crashes + 1
  /\ Restart

\* handle_info/2 has no clause for a stray handler_reply: FunctionClauseError.
HandleStrayReply ==
  /\ Receive("handler_reply")
  /\ crashes' = crashes + 1
  /\ Restart

---------------------------------------------------------------------------

Environment ==
  \/ \E e \in Events : DeliverEvent(e)
  \/ \E r \in Reqs, t \in Tools : DeliverToolInvoke(r, t)
  \/ \E op \in {"pause", "resume"} : DeliverGenCall(op)
  \/ \E d \in DOMAIN wire : AdapterAck(d)
  \/ \E d \in timers : FireDeadline(d)
  \/ \E c \in calls : LateReply(c)

Mailbox ==
  \/ HandlePause \/ HandleResume
  \/ HandleInboundPaused \/ HandleInboundDenied
  \/ HandleInboundDuplicate \/ HandleInbound
  \/ HandleToolInvoke \/ HandleAck \/ HandleDeadline \/ HandleStrayReply

Invocation ==
  \/ \E c \in calls : ReplyError(c) \/ \E acts \in ActionLists : ReplyOk(c, acts)
  \/ CallTimeout \/ Unsubscribe
  \/ PersistState \/ DispatchAction \/ FinishInvocation

Next == Environment \/ Mailbox \/ Invocation \/ Crash

Spec == Init /\ [][Next]_vars

(***************************************************************************)
(* The BEAM schedules a process that has work; receive timeouts and armed  *)
(* timers fire.  Nothing is assumed of workers, adapters or operators.     *)
(***************************************************************************)
Fairness ==
  /\ WF_vars(Mailbox)
  /\ WF_vars(CallTimeout)
  /\ WF_vars(Unsubscribe \/ PersistState \/ DispatchAction \/ FinishInvocation)
  /\ WF_vars(\E d \in timers : FireDeadline(d))

FairSpec == Spec /\ Fairness

---------------------------------------------------------------------------
(* Properties. *)

PCs == {"idle", "calling", "timed_out", "persist", "dispatch"}

\* Every variable keeps its type: the server's fields, the ETS row and what is
\* in flight.
TypeOK ==
  /\ mailbox \in Seq(Messages)
  /\ paused \in BOOLEAN
  /\ pending_events \in Seq(Events)
  /\ dedup_keys \subseteq Keys
  /\ dedup_order \in Seq(Keys)
  /\ pending_directives \subseteq Nat
  /\ pending_tool_reqs \in [DOMAIN pending_tool_reqs -> Reqs]
  /\ DOMAIN pending_tool_reqs \subseteq Nat
  /\ state \in Seq(Events)
  /\ pc \in PCs
  /\ call \in CallRecords \cup {NoCall}
  /\ pc = "idle" <=> call = NoCall
  /\ attempt \in {1, 2}
  /\ actions \in Seq(ActionKinds)
  /\ persisted \in Seq(Events)
  /\ calls \subseteq CallRecords
  /\ subs \subseteq Nat
  /\ timers \subseteq Nat
  /\ wire \in [DOMAIN wire -> [acks: Nat, basis: Seq(Events)]]
  /\ DOMAIN wire \subseteq Nat
  /\ next_id \in Nat
  /\ arrival \in Seq(Events)
  /\ started \in Seq(Events)
  /\ outcome \in [Events -> Outcomes]
  /\ committed \in Seq(Keys)
  /\ results \in [Reqs -> Seq(ToolResults)]
  /\ asked \subseteq Reqs
  /\ toggles \in Nat
  /\ crashes \in Nat

IsPrefixOf(s, t) == Len(s) <= Len(t) /\ \A i \in 1..Len(s) : s[i] = t[i]

\* The bounded FIFO window works (record_dedup/2, evict_if_full/2): within one
\* incarnation a key is committed again only after at least DedupLimit other
\* keyed events have been committed in between.
DedupWindow ==
  \A i, j \in DOMAIN committed :
    i < j /\ committed[i] = committed[j] => j - i > DedupLimit

\* The MapSet and the queue that back the window never drift apart, and the
\* window never outgrows its limit.
DedupConsistent ==
  /\ dedup_keys = Elems(dedup_order)
  /\ Len(dedup_order) <= DedupLimit

\* The inductive form of the two: the queue holds the last keys committed, all
\* different, and the key of the event in the handler's hands is not among them,
\* although it was looked up before the call was made.
DedupInv ==
  /\ DedupConsistent
  /\ DedupWindow
  /\ Len(dedup_order) = (IF Len(committed) < DedupLimit
                            THEN Len(committed) ELSE DedupLimit)
  /\ \A i \in DOMAIN dedup_order :
       dedup_order[i] = committed[Len(committed) - Len(dedup_order) + i]
  /\ IsFiniteSet(dedup_keys) /\ Cardinality(dedup_keys) = Len(dedup_order)
  /\ pc \in {"calling", "timed_out"} => ~IsDuplicate(KeyOf[call.event])

\* A tool request is answered at most once, whatever the order in which the
\* adapter's acks and the never-cancelled deadline arrive.
ToolAnsweredOnce == \A r \in Reqs : Len(results[r]) <= 1

\* How often the elements of X occur in a queue: never, or exactly once.
Nowhere(q, X) == \A i \in DOMAIN q : q[i] \notin X
Once(q, X) ==
  \E i \in DOMAIN q : q[i] \in X /\ \A j \in DOMAIN q : q[j] \in X => j = i

\* Its inductive form: a request is in the mailbox, or waits on one directive, or
\* has been answered, and never two of these.
RequestOf(r) == {ToolInvoke(r, t) : t \in Tools}
WaitsOn(r) == {d \in DOMAIN pending_tool_reqs : pending_tool_reqs[d] = r}
RequestInv(r) ==
  /\ Len(results[r]) <= 1
  /\ Nowhere(mailbox, RequestOf(r)) \/ Once(mailbox, RequestOf(r))
  /\ Once(mailbox, RequestOf(r)) => r \in asked /\ results[r] = << >> /\ WaitsOn(r) = {}
  /\ \A d, x \in WaitsOn(r) : r \in asked /\ results[r] = << >> /\ x = d
  /\ r \notin asked => results[r] = << >>
ToolInv == \A r \in Reqs : RequestInv(r)

\* Nothing tracked can be forgotten: a tool request waits on a directive that is
\* still pending, every subscription belongs to a pending directive, and every
\* pending directive has a deadline still to come.
DirectivesTracked ==
  /\ DOMAIN pending_tool_reqs \subseteq pending_directives
  /\ subs = pending_directives
  /\ \A d \in pending_directives :
       d \in timers \/ DirectiveDeadline(d) \in Elems(mailbox)

\* invoke_handler/3 persists before it dispatches, "so a crash between the two
\* never emits directives for a state the system has no record of".
NoUnrecordedEmit ==
  \A d \in DOMAIN wire : IsPrefixOf(wire[d].basis, persisted)

\* Its inductive form: outside an invocation the process and the store agree, and
\* a call in progress carries the state the store holds.
PersistInv ==
  /\ pc # "persist" => state = persisted
  /\ pc \in {"calling", "timed_out"} => call.base = persisted
  /\ pc = "persist" => state = Append(persisted, call.event)
  /\ NoUnrecordedEmit

\* No committed handler transition is ever overwritten: retries, late replies
\* and restarts only ever extend the persisted history.
NoLostUpdate == [][IsPrefixOf(persisted, persisted')]_vars

InHand(e) == pc \in {"calling", "timed_out", "persist"} /\ call.event = e
Copies(e) ==
  Cardinality({i \in DOMAIN mailbox : mailbox[i] = Inbound(e)})
    + Cardinality({i \in DOMAIN pending_events : pending_events[i] = e})
    + (IF InHand(e) THEN 1 ELSE 0)

\* Conservation: a delivered event whose fate is open is in exactly one place
\* (mailbox, pause queue, or handler call) and a settled one is nowhere.
NoSilentLoss ==
  \A e \in Events :
    Copies(e) = IF e \in Elems(arrival) /\ outcome[e] = "none" THEN 1 ELSE 0

\* The same without counting: what a step moves is one occurrence.
Undecided(e) == e \in Elems(arrival) /\ outcome[e] = "none"
InMailbox(e) == Once(mailbox, {Inbound(e)}) /\ Nowhere(pending_events, {e}) /\ ~InHand(e)
Held(e) == Nowhere(mailbox, {Inbound(e)}) /\ Once(pending_events, {e}) /\ ~InHand(e)
Handled(e) == Nowhere(mailbox, {Inbound(e)}) /\ Nowhere(pending_events, {e}) /\ InHand(e)
Settled(e) == Nowhere(mailbox, {Inbound(e)}) /\ Nowhere(pending_events, {e}) /\ ~InHand(e)
PlacedInv(e) ==
  /\ IF Undecided(e) THEN InMailbox(e) \/ Held(e) \/ Handled(e) ELSE Settled(e)
  /\ e \notin Elems(arrival) => outcome[e] = "none"
LossInv == \A e \in Events : PlacedInv(e)

\* Every tool request that reached a process which does not crash is answered,
\* by the ack or by the deadline.
ToolEventuallyAnswered ==
  \A r \in Reqs : r \in asked ~> (results[r] # << >> \/ crashes > 0)

\* Every delivered event is eventually settled, unless an operator holds it
\* paused or the process crashes.
EventEventuallySettled ==
  \A e \in Events :
    e \in Elems(arrival) ~> (outcome[e] # "none" \/ paused \/ crashes > 0)

\* PRD 01 F20 and entity_server_pause_test.exs: after a resume the held events
\* "dispatch in arrival order before new inputs".
ArrivalOrder ==
  \A i, j \in DOMAIN started, m, n \in DOMAIN arrival :
    i < j /\ started[i] = arrival[m] /\ started[j] = arrival[n] => m < n

=============================================================================
