# ESR runtime: a TLA+ verification project

ESR connects chat platforms (Feishu) to coding agents (Claude Code) through an
Elixir/OTP runtime of supervised actors and a set of Python workers. This
directory holds TLA+ models of the parts of the runtime whose correctness
depends on interleavings, failures and timeouts, the TLC configurations that
check them, and TLAPS proofs of every safety property the runs check.

All paths below are relative to the repository; `esr/` stands for
`runtime/lib/esr/` and `esr_web/` for `runtime/lib/esr_web/`.

## 1. Inventory

| Component | State it keeps | Operations | Interacts with |
|---|---|---|---|
| Entity server, `esr/entity/server.ex` | actor state, pause queue, dedup window, pending directives and tool requests | inbound event, pause, resume, tool_invoke, directive_ack, directive deadline | handler workers (PubSub call/reply), adapters (directive/ack), ETS store |
| Actor index, `esr/entity/registry.ex`, `registry/index_watcher.ex` | two public ETS indexes, a monitor map | register_attrs, deregister_attrs, monitor_and_track, DOWN | every peer's `init/1` and `terminate/2`; `Esr.ActorQuery` |
| Session lifecycle, `esr/session/*`, `esr/commands/session/*` | supervisors, chat routing slots, observers, session records, instance and URI rows | create, end, auto-spawn, bind, unbind, switch, observer DOWN | app adapter (inbound), command Tasks, agent spawner |
| Admin queue, `esr/slash/*`, `esr/entity/slash_handler.ex`, `esr/cli/main.ex` | four directories of command files, pending map, timers, Tasks | submit, poll, dispatch, finish, recover, sweep | CLI (another OS process), command modules |
| Feishu chat proxy, `esr/plugins/feishu/feishu_chat_proxy.ex` | boot-bridge buffer, flags and timers, pending downloads | inbound text and media, stdout, flush, hand-off, resize, acks | terminal, browser socket, agent channel, app adapter |
| Feishu app adapter, `esr/plugins/feishu/feishu_app_adapter.ex` | pending reactions, guide rate limit | inbound, outbound, react / un-react | chat routing, session router, Python adapter |
| Agent channel, `esr_web/channel_channel.ex`, `esr/resource/adapter_socket/registry.ex`, `esr/plugins/claude_code/*` | one registered socket per session | join, tool_invoke, push, leave | chat proxy, CC process, MCP bridge |
| MCP bridge, `py/src/cc_channel_runner/*` | WebSocket, pending replies, pending tool calls, inbox | connect, join, push, receive, heartbeat, tool call, notification, shut-down | Claude Code over stdio, agent channel |
| Branch clean-up rendezvous, `esr/slash/cleanup_rendezvous.ex`, `esr/commands/session/branch_end.ex` | session id to waiting Task | register, signal, timeout, deregister | slash handler, entity server |
| Capabilities and grants, `esr/resource/capability/*`, `esr/session/process.ex`, `esr/entity/cap_guard.ex` | grants table, per-session cache, rate limits | load, has?, change broadcast | every command and inbound |
| Agent instances, `esr/entity/agent/instance_registry.ex` | instance and primary rows | add, remove, promote | session lifecycle, URI store |
| OS processes and terminals, `esr/os_process.ex`, `esr/entity/pty_process.ex`, `esr/worker_supervisor.ex` | OS children | start, exit, restart, clean up | supervisors |
| Worker connection, `py/src/_ipc_common/*`, `py/src/esr/ipc/channel_client.py` | socket, back-off, port, queue | resolve, connect, join, read, push, reconnect | adapter and handler channels, port file |
| Handler worker, `py/src/esr/ipc/handler_worker.py`, `handlers/*` | none between calls; the actor keeps the state | handler_call with load, on_msg, dump | entity server |
| Feishu sidecar, `py/src/_adapter_common/runner_core.py`, `adapters/feishu/*` | the directive in hand, executor threads, seen message ids, event queue | directives, acks, retries, events by WebSocket and poll | adapter channel, Lark |
| Feishu mock, `scripts/mock_feishu.py` | messages, reactions, sockets | the endpoints the adapter calls, inbound push | Feishu sidecar, test scenarios |
| Workspaces, plugins, bundles, templates, URIs | files and tables read at boot or on change | load, validate, resolve | commands |

What is hard in this system:

* every component is a process with a mailbox, so a message read from the
  mailbox was sent in a state that is gone (acks, DOWNs, timers, hand-offs);
* check and act are often in different processes (a name is checked by a
  command Task and written several calls later; a slot is looked up by the
  adapter and filled by the router);
* timers are rarely cancelled and race the answer they stand in for;
* processes crash and are restarted with an empty memory, while files, ETS rows,
  Tasks and other processes' references to the old pid live on;
* delivery between runtime and workers is at most once or at least once
  depending on the path, and a worker may answer after it was given up.

For each component the properties that make it correct are listed with its module
in section 3; `PROJECT.json` lists the hazards at the lines where they bite, and
what covers them.

## 2. Plan

Order: what carries every message first, then what creates and destroys
sessions, then the operator's way in, then the agent's.

1. `EntityServer`: done, its safety properties proved.
2. `ActorIndex`, `SessionLifecycle`: done, their safety properties proved.
3. `AdminQueue`: done, its safety properties proved. Next: `CleanupRendezvous` (the
   clean-up hand-shake of `/session:branch-end` against the slash handler's
   shorter timer).
4. `ChatProxy`: done, its safety properties proved.
5. `McpBridge`, with `ToolCall` as its abstract specification: done, the refinement
   proved. Next on this
   socket: `ChannelBridge` (two joins at once, readiness and the CC process's
   buffer; it shares the join with `ChatProxy`).
6. `WorkerCycle`, and on it `HandlerWorker` and `FeishuSidecar`: done, the safety
   properties of the two proved. Left:
   the reconnect loop inside `ChannelClient`, which no worker switches on (what it
   flushes may be overtaken by a concurrent push, a push during the re-join
   raises, a second drop orphans the join, and the heartbeat is not restarted).
7. `SessionGrants`, `InstanceRegistry`, and the reaction life cycle of the app
   adapter.
8. Cap guard and rate limits, OS processes, the dead-letter queue.
9. More abstract specifications: a tool request as a one-shot answer (implemented
   by `EntityServer`), a command as a job with one result (implemented by
   `AdminQueue`).
10. Proofs (section 6): every invariant and action property of the runs is a
   theorem. Left: what the liveness properties rest on that is safety (an open
   inbound message of `SessionLifecycle` always has somebody to settle it, a
   directive the sidecar holds has a thread, a delay or an ack before it), the
   abstract specifications of item 9 with their refinements, and type
   correctness of the modules whose proofs carry only the types they need.

## 3. Modules

Each component has a module, an `MC` module with the values of its constants,
and one `.cfg` per run (section 4). In every module one action is one message handled
or one step of a process between two points where others can interfere;
histories, used only by properties, are marked as such in `VARIABLES`.

### EntityServer

The GenServer that runs one actor. Its fields are variables of the same names;
`mailbox` is the process's message queue. A handler call is cut into the broadcast
(`HandleInbound`), the answer or the timeout of the selective receive
(`ReplyOk`, `ReplyError`, `CallTimeout`), the unsubscription (`Unsubscribe`, until
which a late reply still reaches the mailbox), the ETS write (`PersistState`) and
one `DispatchAction` for each action returned. `Restart` is what a crash loses and
what `init/1` finds again. The handler's state is abstracted to the sequence of
events it has absorbed, so that an overwritten update is visible.

* `DedupWindow`, `DedupConsistent`: the bounded duplicate window works and its
  two halves agree.
* `NoSilentLoss`: an event is in exactly one place until it is settled. It does not
  say in which order events are settled (`ArrivalOrder` below).
* `ToolAnsweredOnce`, `DirectivesTracked`: acks, duplicates and deadlines.
* `NoUnrecordedEmit`, `NoLostUpdate`: persistence before dispatch, and late
  replies and crashes never roll the stored state back.
* `ToolEventuallyAnswered`, `EventEventuallySettled`: liveness.
* `ArrivalOrder` does not hold (section 5): resuming re-sends held events behind newer ones.

### ActorIndex

The name and role indexes, the peers that register in them and the watcher. The
steps of `register_attrs/2` are separate, because a peer may be killed between
them, and the watcher's call may time out while its request is still queued.

* `NoLeakedRow`, `RoleRowKept`, `DeadRowsReclaimed`: no dead peer's row is
  forgotten and no live peer's row is taken away. Excused is a peer that is killed
  between its inserts and the request to monitor it (the history `early`): the code
  has nobody who would clean up after that one.
* Not claimed: that names are unique (see section 5).

### SessionLifecycle

Router, spawner, supervisors, chat slots, observers, the adapter's routing
decision and the session commands. The router's work on one request is cut at
every call to another process, the end of a session included: it looks the pid up
(`EndFind`), stops that process (`EndStop`, or `EndStopMissing` when another has
taken its place and the match on `:ok` takes the router down), and clears the slots
(`EndDetach`). Git worktrees, agent definitions and URI aliases are abstracted: of
a session's stores only presence and name matter.

`Esr.Session` says `use Supervisor`, so that its child specification is
`:permanent`: a session whose supervisor crashes is started again under the same
sid (`SupervisorCrash`, `SupervisorRestart`), with its default children and
without the pipeline. `gen` counts these processes, `FirstGone(s)` says that the one
the session was created with has gone, which is what its observer monitors.
Between exit and restart the sid is unregistered. `max_restarts`, which would take
`Esr.Session.Supervisor` down with every session after several crashes in a few
seconds, is not modelled. `/session:new` has its two ways: through the router from a
chat (`NewCreate`), and with the placeholder `"pending"` from the command line
straight to the supervisor (`NewCreateDirect`), without pipeline, slot or observer.
The app adapter may be away (`FaaCrash`, `FaaRestart`); what an observer then has to
say is logged and dropped (`unheard`).

* `SlotCoherent`, `DeadSlotWatched`, `RolledBackClean`, `DeathReported`,
  `InboundSettled` hold.
* `DeadSlotWatched` and `DeathReported` are about the end of a session's first
  supervisor, restarted or not. `DeathReported` counts a report that is dropped for
  want of an adapter; without that the code promises none.
* `RolledBackClean`: the supervisor a rolled-back `/session:new` created is gone. If it
  crashed first, the roll-back finds no process or another one than it looked up, and
  the restarted session stays; `rollback_spawn/1` ignores the answer in both cases.
* `InboundSettled` counts a message lost with the router or the adapter as settled:
  it says that no message is parked for ever.
* Both `DeadSlotWatched` and `RolledBackClean` speak of one life of the runtime
  (`restarts = 0`), because a restart brings back the slots on disk and no observer, and
  of the slot the router made for the session. A pair of chat and session that
  `/session:bind`, or the late attach of `/session:new`, put together afterwards is
  in the history `bound` and left out: such an attach can put a dead session back
  (section 5).
* `WatchInv` and `CommandInv` are what the two rest on: who has the clean-up of each
  attached session to do, and to which command a session belongs.
* `ReportedIsGone` does not hold (section 5): a session reported dead may be running.
* `IncompleteTornDown` does not hold (section 5): the spawner's teardown is a call of the router
  to itself.

### AdminQueue

CLI, queue directories, watcher, slash handler, Tasks and janitor. `disk` is the
contents of every file; a rename and the write that follows it are two steps. A
write that fails is logged and leaves the file as it was or truncated
(`FinishWrite`), and the CLI takes a file it cannot parse for a time-out. Crashes
of watcher, handler and runtime can come between any two steps.

* `OneOutcome` (executed once, answered once), `NoLostCommand`,
  `PendingPickedUp`, `CommandSettles` hold (commands that recovery re-queues are
  excluded from the first, as the code re-executes them on purpose).
* `MailInv` and `QueueInv(c)` say why: a command passes each station of the queue once.
* `RequeuedOnlyStranded` does not hold (section 5): recovery re-queues a command that is still
  being executed.

### ChatProxy

The proxy with the terminal, browser, agent channel and adapter around it. Output
is a sequence of numbered chunks of four kinds; the dialog's text takes two, so
that a flush can fall between them. Sessions started by the agent spawner are
modelled, where the terminal's topic and the session's coincide.

* `FlushComing`, `MirroredInOrder` (once, in order, nothing after the hand-off),
  `OutputMirrored`: the bridge. A flush mirrors the whole buffer as one message, and
  nothing when none of it is visible.
* `SettledOnce`, `MediaTracked`, `InboundSettles`: inbound messages and
  downloads.
* `AgentExitNotified` does not hold (section 5): after the hand-off the proxy is deaf to the
  agent's exit.

### McpBridge and ToolCall

The process Claude Code starts as its MCP server, the Phoenix channel at the
other end of its WebSocket, and the frames between. One asyncio loop runs every
coroutine: a step is what runs between two awaits, and a coroutine that waits for a
future resumes in a step of its own (`JoinResume`, `PushResume`, `ResultResume`).
`pending` and `pending_tool_calls` are the dictionaries of those names; a call is
also its `req_id`. `WsDrops` loses any part of what is under way. The channel hands
a `tool_invoke` to the session's peer and replies nothing (`ServerInvoke`). The
bridge expects an ack, and its steps behind that ack (`ResultResume`,
`ToolCallTimeout`) are reached only with one: the constant `Acking` adds a channel
that gives it (`AckedInvoke`, external), next to the one there is. Of the time-out
behind the ack no property is stated, because with this repository's channel it
never starts.

* `ToolCall` is the promise to Claude Code: executed at most once, answered at
  most once, a result only after the execution and never another call's.
  `ImplementsToolCall` is the refinement, with `stage` mapped to idle, open and
  closed and `told` to the call whose result was returned.
* `PendingHasWaiter`: no future outlives the coroutine that waits for it.
* `CallsAssumption` keeps a `req_id` apart from the marks for "no result yet",
  an error and the timeout, which the code tells apart by type.
* `NoteArrives`: a notification survives the close of the socket behind it.
* `ToolCallReturns` (violated): a call whose push is not answered hangs.

### WorkerCycle, HandlerWorker, FeishuSidecar

`WorkerCycle` is one connection after another of a Python worker: the URL, resolved
anew at every attempt from the port file, the back-off, `connect`, `join`, the read
loop, the watcher of the socket. When esrd has stopped (`ServerStops`), its launcher
writes the port file (`WritePortFile`: `scripts/esrd.sh:85`,
`scripts/esrd-launchd.sh:24`) and only then starts the server, which listens later
(`ServerListens`): in between a worker reads a port on which nobody listens. `ws` tells
a broken peer from a closed socket and from one whose read loop has ended, because
the code acts on each at another time. The two others extend it with the loops on
top and are separate compositions of it.

`HandlerWorker` adds the handler-call loop, the four handler modules branch by
branch (and a fifth that breaks the contract), the way of a state through
JSON (a set becomes a sorted list and a set again, a missing version is filled in),
and the calling actor with its one retry. The checks of an event and of a call are
chains in the order of the code, so that an event to which two of them apply takes
the first. Message and thread ids are numbers (`KeyAssumption`): of a
string only its order, in which the list is sorted, matters.

* `AtomicTransition`: a committed state and its actions are one application of
  the handler, for the event of the call awaited, whatever is retried, late or lost.
* `NotifiedOnce`, `StateCoherent`: what the handlers' states promise across
  any number of calls.
* `ReachableAgain` (of `WorkerCycle`): the worker gets back to esrd, except from the
  two dead ends `JoinOrphaned` and `ChannelOrphaned` (section 5).

`FeishuSidecar` adds the directive loop with one operator per directive, the
rate-limit retry with its schedule, executor threads that outlive the connection
that asked, the Lark client in a thread that cannot be stopped, the poll, and the
mock. `Outcomes(a)` pairs what the adapter says with what Lark did: a call that
failed may have been carried out. Two calls in a row (list and delete of a
reaction, upload and send of a file) fail at the first or go on to the second
(`Then`). The mock's bookkeeping is reduced to what it answers and whether the
effect took place. The live Lark client is built without a time-out, so that a call
of it may never return: on the event loop it freezes the worker (`CallHangs`,
`frozen`), in a thread it keeps that thread and whoever waits for it (`JobHangs`,
`PollHangs`, `stuck`). The mock's calls have a time-out, and so do all of the
mock mode but `send_card`, `pin` and `unpin`, which go to Lark there too. The poll
runs if a chat is configured (`PollChat`); a pass that raises half-way has marked
the whole page as seen and handed over only its beginning.

* `AppliedOnceInOrder`, `AckedMeansDone`: effects and acks.
* `PolledInOrder`: over all pollers of all connections.
* `DirectiveAnswered`: every directive received is acked, through rate limits,
  failures, exceptions and waits for a thread, unless its connection ends, a call of the
  Lark client hangs or the pool of the live adapter is used up. Those two the code does
  nothing about (section 5); the mock's pool never is used up.

## 4. Runs, bounds and fairness

The inductive invariants (section 6) were checked by TLC on a run's instance, or on a
variant of it with more commands or crashes, before they were proved. The runs check what is hard; the type invariants (`TypeOK`) of the modules that
have no run for theirs hold on the same instances.

`PROJECT.json` says of each run what it checks and shows. Bounds are constants
named `Max...`, or the sizes of the sets of events, pids, sessions, commands and
messages. They are chosen so that the scenario of each covered hazard fits:

* EntityServer, events: three events of which two share a key and a window of
  one, so that a key is evicted and comes back; a pause queue of one, so that it
  overflows; the restarts are the ones a stray reply causes. Directives: one
  event and one tool request with their directives, one ack each besides the
  deadline, a pause and a resume, a crash at any step.
* ActorIndex: three pids and two names, so that a peer, its replacement and
  a namesake overlap.
* SessionLifecycle, routing: two sessions, a bound and an unbound chat, three
  messages, a fault (of supervisor, proxy or adapter) and an operator command. New: two
  `/session:new` of one name, one from a chat and one from the command line, a fault,
  two operator commands and a restart of the runtime. The two are separate because
  all of it together is out of reach. A restarted supervisor is not counted as a fault.
* AdminQueue: one command dispatched up to three times with two crashes. Commands
  meet only in the mailboxes, which are in order; with two commands and one crash
  the same properties hold, at many times the states.
* ChatProxy, bridge: three chunks (the dialog and something else), an exit and a
  crash. Media: a text and a media message, two acks, a browser and an adapter
  that may be down.
* McpBridge: two calls and two notifications, one with an attachment, three
  items of traffic in all, so that two calls overlap with a notification, a
  heartbeat or a shut-down; the real number of connection attempts.
* HandlerWorker: three events while nothing has been retried and no fault was met (a
  message, another that pushes it out of a dedup list of one, and the first
  again), otherwise two, with one fault and two ports; every call may be retried
  and answered late.
* FeishuSidecar: every directive by itself, one on the loop with one in a thread in
  either order, one with a message, or three messages of which a page shows
  two; one fault; a pool of two threads, so that a Lark client and a download
  leave none, and two clients use it up. The retry schedule is the real one:
  1, 2, 4, 8 and 16 seconds already exceed the 30-second deadline with the next
  delay, so the schedule's last entry is never slept.

Deadlock checking is off everywhere: with bounded inputs every run may end in a
state where nothing is left to do. What must not be stuck is stated as liveness.

Fairness is weak and only on what the BEAM guarantees: a live process takes the
next message of its mailbox, an armed timer fires, a supervisor restarts its
child. In the Python modules it is on what asyncio guarantees: a coroutine that is
ready runs and a timer fires, as long as no call on the loop hangs. A call in a
thread returns or hangs for good; only where it has a time-out must it return. The
poll has no fairness, nor has the restart of a session's supervisor: nothing needs it.
Where a module's other end is the runtime, the runtime reads its sockets and
answers a join, and the launcher starts it again when it has stopped (`KeepAlive`
in `scripts/launchd/com.ezagent.esrd.plist:11`; with `esrd.sh` an operator does).
No other fairness is assumed of workers, adapters, Tasks, clients, operators or
the agent, with one exception: the session's peer in McpBridge answers what it was
given, so that the violation of `ToolCallReturns` is not the fault of a silent peer.
Symmetry (of sessions) is used in one run, which checks no liveness.

A run with `expect: violation` states what a comment or document of the
repository says and shows by TLC's trace that the code does otherwise.

## 5. Where code and documentation part

One disagreement is kept as a run, `mcp_tool_return`, with its lines in the
findings of `PROJECT.json`: the channel never replies to a `tool_invoke`, so
the push that waits for the reply never returns and the 30-second timeout behind it
never starts. Five more are formulas of the modules that are false; put the
formula in place of the properties of the named configuration and TLC prints
the trace:

| Said | Where | What the code does | Formula, configuration |
|---|---|---|---|
| after a resume "events dispatch in arrival order before new inputs" | `docs/superpowers/prds/01-actor-runtime.md:100` | `handle_call(:resume)` (`esr/entity/server.ex:214`) re-sends the held events behind whatever waits in the mailbox | `ArrivalOrder`, `MCEntityServerEvents.cfg` |
| "If any role is missing, tear down via `Esr.Session.Router.end_session/1`" | `esr/session/agent_spawner.ex:575` | the call (line 611) is made by the router to itself: the router exits and the session stays up | `IncompleteTornDown`, `MCSessionLifecycleRouting.cfg` |
| "the session is already dead", and a `:transient` supervisor | `esr/session/lifecycle_observer.ex:61`, `esr/session.ex:4` | `use Supervisor` (`esr/session.ex:22`) is `:permanent`: the session is started again and runs under its sid, counted in `max_children`, after its end was reported and its slot cleared | `ReportedIsGone`, `MCSessionLifecycleRouting.cfg` |
| "Processing files older than this are considered stranded" | `esr/slash/queue_watcher.ex:54` | the age (line 149) counts from the CLI's write, so a restarted watcher re-queues a command that is being executed | `RequeuedOnlyStranded`, `MCAdminQueue.cfg` |
| "The clause notifies the bound chat that the agent process died" | `esr/plugins/feishu/feishu_chat_proxy.ex:534` | the hand-off (line 481) unsubscribes from the only topic the exit is broadcast on | `AgentExitNotified`, `MCChatProxyBridge.cfg` |

The others were reproduced by TLC on the same models, or read off the code while
modelling it, and are recorded here so that nobody takes the properties above for
more than they say.

| Said | Where | What the code does |
|---|---|---|
| the name index has its "uniqueness enforced via `:ets.insert_new/2`" | `esr/entity/registry.ex:18` | `deregister_attrs/2` and the watcher delete the name row by key, so the exit of a peer whose registration was refused frees the name under its live holder |
| `list_by_role/2`: "List all live pids for a given role" | `esr/actor_query.ex:61` | a peer restarted before its predecessor's rows are gone ignores `:name_taken` and stays out of the indexes |
| "session names are unique within `(owner_user, name)`" | `esr/commands/session/new.ex:291` | two concurrent commands both pass the check |
| "auto-spawn a session for a previously-unseen" chat | `esr/session/router.ex:144` | two messages that arrive before the first session is attached each spawn one |
| I1: every inbound gets a visible reply or error | `docs/notes/system-invariants.md:13` | a failed auto-spawn is only logged |
| I2: every live slot points at a live session or is detached | `docs/notes/system-invariants.md:14` | the attach of `/session:new` may come after the session's observer has cleaned up |
| I3: a session directory exists only with its supervisor tree | `docs/notes/system-invariants.md:15` | ending a session leaves `session.json` |
| `finish/3` works "Atomically" | `esr/slash/queue_result.ex:114` | the CLI may read the bare command between the rename and the write |
| the Task's result reaches "the NEW Dispatcher pid" | `docs/superpowers/specs/2026-04-21-esr-dev-prod-isolation-design.md:946` | it is sent to the dead handler and dropped |
| "detect the dialog's text in the stdout stream" | `esr/plugins/feishu/feishu_chat_proxy.ex:150` | a flush between the two halves hides it |
| the default-size timer is double-checked "via the cleared ref" | `esr/plugins/feishu/feishu_chat_proxy.ex:495` | a queued timer message sets the default size over the browser's |
| "`cc_mcp_ready` flips the bridge off" | `esr/plugins/feishu/feishu_chat_proxy.ex:138` | a proxy restarted after the join comes up with the bridge on |

In the Python workers:

| Said | Where | What the code does |
|---|---|---|
| "receive() then yields no further items and this coroutine returns" | `py/src/cc_channel_runner/phx_receive.py:60` | after the WebSocket has closed, `receive()` waits on the inbox for ever and the bridge stays up |
| "If the underlying WS disconnects, the disconnect watcher raises ConnectionError" | `py/src/esr/ipc/handler_worker.py:177` | `join()` comes before the watcher and has no timeout: a drop while it waits leaves the worker there (`JoinOrphaned`) |
| (nothing is said of a channel that crashes) | `py/src/_ipc_common/frame.py:17` | a `phx_error` of the topic is dropped and nothing re-joins (`ChannelOrphaned`) |
| "Never raises" | `py/src/esr/ipc/handler_worker.py:46` | a handler that does not return a pair raises out of `process_handler_call` and ends the connection |
| "Returns normally only if directive_loop / event_loop both complete" | `py/src/_adapter_common/runner_core.py:147` | the wait is FIRST_COMPLETED |
| "Returns `{"ok": True, "result": <dict>}` on success" | `py/src/_adapter_common/runner_core.py:64` | so it does when the adapter returns a failure: only an exception makes `ok` false |
| "rejects outbound from non-member apps" | `adapters/feishu/src/esr_feishu/adapter.py:331` | the refusal is a code in an HTTP 200 (`scripts/mock_feishu.py:342`), which the adapter does not read: it acks ok with no message id |
| "the daemon thread will exit on process teardown" | `adapters/feishu/src/esr_feishu/adapter.py:886` | until then the client runs on in its thread after a reconnect; Lark may push to it, which loses the message, and enough of them use up the executor (`PoolExhausted`) |
| (nothing is said of a call that does not return) | `adapters/feishu/src/esr_feishu/adapter.py:209` | the live client has no time-out: a hung call on the loop freezes the worker, one in a thread keeps the directive loop waiting (`Hung`), and a hung poll ends the polling of that connection |
| bot-self messages: "`_message_to_envelope` returns None for those" | `adapters/feishu/src/esr_feishu/adapter.py:952` | it never returns None; such a message has no principal and the channel refuses it |
| "This loop bridges the gap: fresh messages (dedup by message_id)" | `adapters/feishu/src/esr_feishu/adapter.py:899` | a message may come both ways; the first message of an empty chat is swallowed by the first pass, more than a page between two passes are lost, and so is the rest of a page when a pass raises in its middle |

## 6. Proofs

TLAPS proves for every value of the constants (any sets, any bounds) what the
runs check on instances: every invariant and every action property of the passing
runs, and the refinement of `ToolCall`, is a theorem. The invariants the proofs are
made of stand next to the properties in the component's module, so that TLC can
check them too; what only types a variable stands in the proof module.

The assumptions are the `ASSUME`s of the modules. The null values are not members
of their sets, the maps have their types, the bounds are natural numbers. Page,
pool and dedup list have room for one entry at least, as their constants in the
code do; the entity server's window may even be 0. A port is not 0 and the fall-back
port is one of them (`PortAssumption`). Two say how data is
represented: a uuid is none of the words for a missing result
(`CallsAssumption` of `McpBridge`), and message and thread ids are ordered like
numbers (`KeyAssumption` of `HandlerWorker`).

In each proof a step of the system is split by action, and each action by the part
of the invariant it disturbs; what it does not touch goes through a lemma
(`...Frame`, `...Kept`) that says which variables the part reads. The lemmas that
recur are about queues: what appending, taking the head and dropping do to the
occurrences and to the order of the elements.

* `EntityServerProofs`.
  `NoUnrecordedEmitHolds`, `NoLostUpdateHolds` from `PersistInv`: outside an
  invocation process and store agree, and a call in flight carries the stored
  state; the emitted basis alone says nothing about the next state.
  `DedupWindowHolds`, `DedupConsistentHolds` from `DedupInv`: the queue is the tail
  of the committed keys, and the key of the event being handled is not in it,
  although it was looked up before the call.
  `DirectivesTrackedHolds`: the property is inductive; the work is in the deadline,
  which is either armed or somewhere in the mailbox.
  `ToolAnsweredOnceHolds` from `ToolInv`: a request is in the mailbox once, or waits
  on one directive, or has been answered. Without the first two a second answer
  could come from a copy.
  `NoSilentLossHolds` from `LossInv`, which says the same as the property without
  counting: a step moves one occurrence, and sums of cardinalities hide that.
  `TypeCorrect` gives the types of all of them.
* `ActorIndexProofs`. `IndexTypeCorrect`; `NoLeakedRowHolds` from `IndexInv`,
  which says for each stage of a peer's life who will see it die;
  `RoleRowKeptHolds`, an action property.
* `SessionLifecycleProofs`. `SlotCoherentHolds`, from lemmas about attaching and
  detaching one slot. `DeadSlotWatchedHolds` from `WatchInv`: every attached session,
  dead or alive, has its observer or the router in the middle of it, and an observer
  that is about to be started is the first. A session dies at any moment, so the
  claim has to hold of live ones before. `RolledBackCleanHolds` from `CommandInv`: a
  session belongs to one command and is not the one the router is creating, an end
  request comes from the owner, and once the router is past `EndStop` the first
  supervisor of the session it names is gone, as it is when the router finds none or
  another. The two are proved together, in `LifeInv`.
* `AdminQueueProofs`. `QueueTypeCorrect` includes `MailInv`: a dispatch request is
  the only message of its reference and comes before its Task, timer and pending
  entry. `OneOutcomeHolds` adds `QueueInv(c)` for each command that was not
  re-queued: while its file waits, or is in the watcher's hands, no reference was
  given out for it, and later it has one only. `NoLostCommandHolds` is
  inductive as it stands: every rename leaves the file in one of the directories, and
  only the janitor deletes.
* `ChatProxyProofs`. `FlushComingHolds` from `BridgeInv`: a set timer reference has
  its flush to come, non-empty output has a reference or a queued flush, a process
  that is down has neither. `MediaTrackedHolds`, `SettledOnceHolds` from `MediaInv` and
  `FateInv`: a message not yet taken is in the mailbox once, and one with a download
  under way has come to no end. `MirroredInOrderHolds`, an action property, from
  `MirrorInv`: chat, buffer and mailbox are one line in the order printed, and the
  announcement of the join is behind nothing printed later.
* `McpBridgeProofs`. `BridgeTypeCorrect`. `PendingHasWaiterHolds` from `RefInv`: a
  reference is taken once, so that a reply settles only the wait it is for.
  `BridgeImplementsToolCall`, the refinement, from `CallInv`: an invocation is on the
  wire at most once and only before its execution, a result only after it. Each
  step maps to a step of `ToolCall` or to a stutter.
* `HandlerWorkerProofs`. `ReplyInvHolds`: every frame with the id of the call
  awaited carries its payload, or the answer to it. `AtomicTransitionHolds`, an
  action property, follows: only such a reply commits. `StateCoherentHolds` and
  `NotifiedOnceHolds` from `StateInv`: the eviction order lists the last messages that
  notified, without repetition, and of a notification whose id is not listed any
  more as many others followed as the list is long. That sorting a set and
  making it a set again loses nothing is proved, not assumed (`SortExists` and what
  follows it). The attempt showed that the model's first form, with overlapping
  `CASE` conditions, left open what an event to which two checks apply does; the
  order is now the code's.
* `FeishuSidecarProofs`. `PolledInOrderHolds` from `PollInv`: after its first pass
  the poll has seen the page that ended with some message and has handed over none
  after it. `AppliedOnceInOrderHolds` from `DirectiveInv`: directives stand in one line
  in the order of their ids, what has been done or is being done is past it, and a
  connection has at most one directive in a thread, its last. A thread may
  outlive its connection, so that the order holds per connection only.
  `AckedMeansDoneHolds` from `AckInv`, which follows a result from the operator
  through the socket to the runtime.

Only model-checked: the liveness properties (`ToolEventuallyAnswered`,
`EventEventuallySettled`, `DeadRowsReclaimed`, `DeathReported`, `InboundSettled`,
`PendingPickedUp`, `CommandSettles`, `OutputMirrored`, `InboundSettles`, `NoteArrives`,
`ReachableAgain`, `DirectiveAnswered`), because fairness and
ENABLED are outside the proof system's reach, and the violated `ToolCallReturns`.
For the same reason the theorem about `ToolCall` uses nothing of the fairness in
`Spec`, and `ToolCall` promises none. No module a proof reaches declares a
recursive operator.

## 7. Not modelled

Text processing (slash parsing, YAML and JSON formats, URIs, manifests, CLI
rendering, `uri.py`, `parsers.py`, which has no caller in the worker, and
`capabilities.py`), the HTTP client's own work, git worktrees, and what Claude
prints or decides. Of the Python client `auto_reconnect`, `call()` and the
heartbeat; the checks in `verify/`, which read source text; the end-to-end
scenarios and the mock's inspection endpoints, which are tests.
The parts planned for later are listed in section 2 and, with reasons, under
`components` in `PROJECT.json`.
