---------------------------- MODULE SessionLifecycle ----------------------------
(***************************************************************************)
(* The life of a session, from the chat message or /session:new command    *)
(* that creates it to the end of its supervisor:                           *)
(*                                                                         *)
(*   Esr.Session.Router          the control-plane GenServer               *)
(*   Esr.Session.AgentSpawner    do_create/1, which runs inside it         *)
(*   Esr.Session.Supervisor      the bounded DynamicSupervisor             *)
(*   Esr.Session.ChatRouting.Registry   chat -> current / attached         *)
(*   Esr.Session.LifecycleObserver      one watcher per session            *)
(*   Esr.Entity.FeishuAppAdapter        routing of inbound chat messages   *)
(*   Esr.Commands.Session.{New,End,BindChat,UnbindChat,Switch}             *)
(*                                                                         *)
(* The router handles one request at a time; do_create/1 is cut at every   *)
(* call it makes to another process, because the session's own processes,  *)
(* its observer, the chat adapter and the command tasks all run meanwhile. *)
(* Of a session's pipeline only the FeishuChatProxy (FCP) is kept apart:   *)
(* it is the peer that inbound messages are routed to.  The other stages   *)
(* count through the completeness check.                                   *)
(*                                                                         *)
(* Esr.Session is a permanent child of Esr.Session.Supervisor (that is     *)
(* what "use Supervisor" gives), so a session's supervisor that exits by   *)
(* itself is started again under the same sid, with no peers.  gen tells   *)
(* the processes apart: who holds the pid of an earlier one sees it dead.  *)
(* Not modelled: the restart intensity of Esr.Session.Supervisor, by which *)
(* a fourth exit within five seconds would end every session.              *)
(***************************************************************************)
EXTENDS Integers, Sequences, FiniteSets

CONSTANTS
  Sids, NoSid,        \* session ids (uuids, never reused)
  Chats, NoChat,      \* (chat_id, app_id) pairs
  WorkspaceChats,     \* chats bound to a workspace
  Msgs, ChatOf,       \* inbound messages and the chat each comes from
  News, NewChat,      \* /session:new commands and the chat each comes from (NoChat:
                      \*   submitted from the command line, chat_id "pending")
  NameOf, NoName,     \* the (owner, name) each command asks for
  NoCmd,              \* an end request that no /session:new waits for
  MaxSessions,        \* max_children of Esr.Session.Supervisor
  MaxFaults,          \* bound: process crashes
  MaxOps,             \* bound: operator commands other than /session:new
  MaxRestarts         \* bound: restarts of the whole runtime

Names == {NameOf[n] : n \in News}

ASSUME ConstAssumption ==
  /\ NoSid \notin Sids
  /\ NoChat \notin Chats
  /\ NoCmd \notin News
  /\ WorkspaceChats \subseteq Chats
  /\ ChatOf \in [Msgs -> Chats]
  /\ NewChat \in [News -> Chats \cup {NoChat}]
  /\ NoName \notin {NameOf[n] : n \in News}
ASSUME BoundAssumption ==
  /\ MaxSessions \in Nat
  /\ MaxFaults \in Nat
  /\ MaxOps \in Nat
  /\ MaxRestarts \in Nat

VARIABLES
  sup,       \* each session's supervisor
  gen,       \* how often it has been started again
  fcp,       \* each session's FeishuChatProxy
  stale,     \* sessions with a dead FCP's row still in the actor index
  routing,   \* :esr_session_chat_routing, mirrored in chat_attached.yaml
  obs,       \* the chat a session's LifecycleObserver reports to
  instances, \* sessions with a primary row in Agent.InstanceRegistry
  entities,  \* sessions with a canonical row in the URI store
  records,   \* session.json files: the name each was written with
  mailbox,   \* the router's mailbox
  job,       \* the request the router is working on
  cmd,       \* the /session:new command tasks
  online,    \* the chat adapter is registered
  faa,       \* the routing decision the chat adapter is acting on
  inbound,   \* what became of each inbound message
  guided,    \* chats that got the unbound-chat guide in the last 10 minutes
  created,   \* history: sessions do_create/1 has attached to their chat
  notices,   \* history: sessions whose end was reported to their chat
  unheard,   \* history: sessions whose end was reported with no adapter registered
  bound,     \* history: <<chat, session>> pairs attached once the session existed, by
             \*   /session:bind-chat or by the attach of /session:new
  incomplete,\* history: sessions found without a complete pipeline
  faults, ops, restarts   \* counters for the bounds

subtreeVars == <<sup, gen, fcp, stale>>
storeVars == <<instances, entities, records>>
routerVars == <<mailbox, job>>
adapterVars == <<online, faa, inbound, guided>>
histVars == <<created, notices, unheard, bound, incomplete>>
boundVars == <<faults, ops, restarts>>
vars == <<subtreeVars, routing, obs, storeVars, routerVars, cmd, adapterVars,
          histVars, boundVars>>

---------------------------------------------------------------------------
(* Types. *)

\* "unlisted": restarted while its predecessor's name row was still there, so
\* register_attrs/2 refused it and it is in no index (see ActorIndex).
FcpStates == {"none", "live", "crashed", "unlisted"}
Slots == [current: Sids \cup {NoSid}, attached: SUBSET Sids]
Requests ==
  [type: {"create"}, from: {n \in News : NewChat[n] # NoChat}]
    \cup [type: {"new_chat_thread"}, msg: Msgs]
    \cup [type: {"end"}, sid: Sids, from: News \cup {NoCmd}]
JobSteps == {"idle", "started", "spawned", "verified", "attached", "observed",
             "stopping", "stopped"}
Idle == [pc |-> "idle"]
\* pid: the generation of the supervisor the router has the pid of.
Jobs == {Idle} \cup [pc: JobSteps \ {"idle"}, req: Requests, sid: Sids, pid: Nat,
                     missing: BOOLEAN]
CmdSteps == {"idle", "checked", "creating", "created", "claimed", "persisted",
             "done", "rejected", "failed", "rolling", "rolled_back", "crashed"}
NoRoute == [verdict |-> "idle"]
Routes == {NoRoute} \cup [verdict: {"forward", "forward_dead", "cleanup"}, msg: Msgs, sid: Sids]
Fates == {"unsent", "routing", "pending", "delivered", "error", "guided",
          "quiet", "dropped", "lost"}

TypeOK ==
  /\ sup \in [Sids -> {"unused", "up", "restarting", "down"}]
  /\ gen \in [Sids -> Nat]
  /\ fcp \in [Sids -> FcpStates]
  /\ stale \in SUBSET Sids
  /\ routing \in [Chats -> Slots]
  /\ obs \in [Sids -> Chats \cup {NoChat}]
  /\ instances \in SUBSET Sids
  /\ entities \in SUBSET Sids
  /\ records \in [Sids -> Names \cup {NoName}]
  /\ mailbox \in Seq(Requests)
  /\ job \in Jobs
  /\ cmd \in [News -> [pc: CmdSteps, sid: Sids \cup {NoSid}]]
  /\ online \in BOOLEAN
  /\ faa \in Routes
  /\ inbound \in [Msgs -> Fates]
  /\ guided \in SUBSET Chats
  /\ created \in SUBSET Sids
  /\ notices \in SUBSET Sids
  /\ unheard \in SUBSET Sids
  /\ bound \in SUBSET (Chats \X Sids)
  /\ incomplete \in SUBSET Sids
  /\ faults \in Nat
  /\ ops \in Nat
  /\ restarts \in Nat

Init ==
  /\ sup = [s \in Sids |-> "unused"]
  /\ gen = [s \in Sids |-> 0]
  /\ fcp = [s \in Sids |-> "none"]
  /\ stale = {}
  /\ routing = [c \in Chats |-> [current |-> NoSid, attached |-> {}]]
  /\ obs = [s \in Sids |-> NoChat]
  /\ instances = {}
  /\ entities = {}
  /\ records = [s \in Sids |-> NoName]
  /\ mailbox = << >>
  /\ job = Idle
  /\ cmd = [n \in News |-> [pc |-> "idle", sid |-> NoSid]]
  /\ online = TRUE
  /\ faa = NoRoute
  /\ inbound = [m \in Msgs |-> "unsent"]
  /\ guided = {}
  /\ created = {}
  /\ notices = {}
  /\ unheard = {}
  /\ bound = {}
  /\ incomplete = {}
  /\ faults = 0
  /\ ops = 0
  /\ restarts = 0

---------------------------------------------------------------------------
(* Esr.Session.ChatRouting.Registry.  A row that is absent and a row with  *)
(* an empty set behave alike.  Each change is written to chat_attached.yaml *)
(* in the same call, so the file is always what routing says.              *)

\* handle_call({:attach_session, ...})
AttachTo(slot, s) ==
  [current |-> IF slot.current = NoSid THEN s ELSE slot.current,
   attached |-> slot.attached \cup {s}]

\* handle_call({:detach_session, ...}); which of the remaining sessions is
\* promoted depends on MapSet's order.
DetachWithoutPromotion(slot, s) ==
  {[current |-> IF slot.current = s THEN NoSid ELSE slot.current,
    attached |-> slot.attached \ {s}]}
DetachFrom(slot, s) ==
  LET left == slot.attached \ {s} IN
  {[current |-> cur, attached |-> left] :
     cur \in IF slot.current # s THEN {slot.current}
             ELSE IF left = {} THEN {NoSid} ELSE left}

attach_session(c, s) == routing' = [routing EXCEPT ![c] = AttachTo(@, s)]
detach_session(c, s) ==
  \E slot \in DetachFrom(routing[c], s) : routing' = [routing EXCEPT ![c] = slot]

\* handle_call({:detach_session_by_id, sid}): every row that has sid.
AfterDetach(c, s) ==
  IF s \in routing[c].attached \/ routing[c].current = s
    THEN DetachFrom(routing[c], s) ELSE {routing[c]}
detach_session_by_id(s) ==
  \E new \in [Chats -> UNION {AfterDetach(c, s) : c \in Chats}] :
    /\ \A c \in Chats : new[c] \in AfterDetach(c, s)
    /\ routing' = new

current_session(c) == routing[c].current

---------------------------------------------------------------------------
(* Esr.ActorQuery.fcp_for_session/1: what may come back for a session.     *)

fcp_for_session(s) ==
  (IF fcp[s] = "live" THEN {"alive"} ELSE {})
    \cup (IF s \in stale THEN {"dead"} ELSE {})
    \cup (IF fcp[s] # "live" /\ s \notin stale THEN {"not_found"} ELSE {})

---------------------------------------------------------------------------
(* Requests to the router and what they are for. *)

Create(n) == [type |-> "create", from |-> n]
EndSession(s, n) == [type |-> "end", sid |-> s, from |-> n]
NewChatThread(m) == [type |-> "new_chat_thread", msg |-> m]
ChatFor(req) == IF req.type = "create" THEN NewChat[req.from] ELSE ChatOf[req.msg]

\* What max_children counts, a child being restarted included.
Children == {s \in Sids : sup[s] \in {"up", "restarting"}}
Fresh == {s \in Sids : sup[s] = "unused"}

\* Esr.Session.Supervisor.start_session/1: the first supervisor of s.
StartSession(s) == sup' = [sup EXCEPT ![s] = "up"]

\* That first process has exited, whether another has taken its place or not.
FirstGone(s) == sup[s] \in {"restarting", "down"} \/ (sup[s] = "up" /\ gen[s] > 0)

\* Processes of a session die: the FCP, if any, leaves its index row behind,
\* and a message the adapter is about to send goes to a dead pid.
PeersDie(s) ==
  /\ stale' = IF fcp[s] = "live" THEN stale \cup {s} ELSE stale
  /\ faa' = IF faa.verdict = "forward" /\ faa.sid = s
              THEN [faa EXCEPT !.verdict = "forward_dead"] ELSE faa

\* The reply to GenServer.call; a caller that gave up never sees it.
Reply(n, from, to, s) ==
  cmd' = IF n \in News /\ cmd[n].pc = from
           THEN [cmd EXCEPT ![n] = [pc |-> to, sid |-> s]] ELSE cmd

Serving == job = Idle /\ mailbox # << >>
AtStep(pc) == job.pc = pc

---------------------------------------------------------------------------
(* Router: handle_call({:create_session_sync, ...}) and                    *)
(* handle_info({:new_chat_thread, ...}), both through do_create/1.         *)

\* do_create/1 returns {:error, _}: the caller is told, or for a chat message
\* a telemetry event and a log line are all there is.
CreateFails(req) ==
  /\ job' = Idle
  /\ \/ /\ req.type = "create"
        /\ Reply(req.from, "creating", "failed", NoSid)
        /\ UNCHANGED inbound
     \/ /\ req.type = "new_chat_thread"
        /\ inbound' = [inbound EXCEPT ![req.msg] = "dropped"]
        /\ UNCHANGED cmd

\* No agent_def (no default template, or it does not materialize), or the
\* supervisor is full.
CreateRefused ==
  /\ Serving
  /\ LET req == Head(mailbox) IN
       /\ req.type # "end"
       /\ req.type = "new_chat_thread" \/ Cardinality(Children) >= MaxSessions
       /\ CreateFails(req)
  /\ mailbox' = Tail(mailbox)
  /\ UNCHANGED <<subtreeVars, routing, obs, storeVars, online, faa, guided, histVars, boundVars>>

\* start_session_sup/4
CreateStart ==
  /\ Serving
  /\ Head(mailbox).type # "end"
  /\ Cardinality(Children) < MaxSessions
  /\ \E s \in Fresh :
       /\ StartSession(s)
       /\ job' = [pc |-> "started", req |-> Head(mailbox), sid |-> s, pid |-> gen[s],
                  missing |-> FALSE]
  /\ mailbox' = Tail(mailbox)
  /\ UNCHANGED <<gen, fcp, stale, routing, obs, storeVars, cmd, adapterVars, histVars,
                 boundVars>>

\* spawn_pipeline/3 spawns every stage, except one whose module does not
\* resolve to a stateful peer: that one is skipped without a word.
SpawnPipeline ==
  /\ AtStep("started")
  /\ sup[job.sid] = "up"
  /\ \E skipped \in BOOLEAN :
       job' = [job EXCEPT !.pc = "spawned", !.missing = skipped]
  /\ fcp' = [fcp EXCEPT ![job.sid] = "live"]
  /\ UNCHANGED <<sup, gen, stale, routing, obs, storeVars, mailbox, cmd, adapterVars,
                 histVars, boundVars>>

\* A stage fails to start: {:error, {:peer_spawn_failed, ...}}.  What was
\* spawned before it, and the session's supervisor, stay.
SpawnFails ==
  /\ AtStep("started")
  /\ sup[job.sid] = "up"
  /\ \E f \in {"none", "live"} : fcp' = [fcp EXCEPT ![job.sid] = f]
  /\ CreateFails(job.req)
  /\ UNCHANGED <<sup, gen, stale, routing, obs, storeVars, mailbox, online, faa, guided,
                 histVars, boundVars>>

\* verify_pipeline_complete/2 asks the role index for every expected role.
PipelineComplete ==
  /\ ~job.missing
  /\ fcp_for_session(job.sid) # {"not_found"}

VerifyComplete ==
  /\ AtStep("spawned")
  /\ PipelineComplete
  /\ job' = [job EXCEPT !.pc = "verified"]
  /\ UNCHANGED <<subtreeVars, routing, obs, storeVars, mailbox, cmd, adapterVars,
                 histVars, boundVars>>

RouterHangs == UNCHANGED <<job, mailbox, cmd, inbound>>
\* The router exits.  Its mailbox goes with it and so do the calls waiting on
\* it; the application supervisor starts it again.
RouterCrash ==
  /\ job' = Idle
  /\ mailbox' = << >>
  /\ cmd' = [n \in News |-> IF cmd[n].pc \in {"creating", "rolling"}
                              THEN [cmd[n] EXCEPT !.pc = "crashed"] ELSE cmd[n]]
  /\ inbound' = [m \in Msgs |-> IF inbound[m] = "pending" THEN "lost" ELSE inbound[m]]

\* The pipeline is incomplete: verify_pipeline_complete/2 calls
\* Esr.Session.Router.end_session/1 from inside the router, and a GenServer
\* that calls itself exits.
VerifyIncomplete ==
  /\ AtStep("spawned")
  /\ ~PipelineComplete
  /\ RouterCrash
  /\ incomplete' = incomplete \cup {job.sid}
  /\ UNCHANGED <<subtreeVars, routing, obs, storeVars, online, faa, guided, created, notices,
                 unheard, bound, boundVars>>

\* The supervisor died under spawn_pipeline/3 and is not back yet: start_child
\* exits :noproc, which no clause catches.
SpawnOnDeadSupervisor ==
  /\ AtStep("started")
  /\ sup[job.sid] = "restarting"
  /\ RouterCrash
  /\ UNCHANGED <<subtreeVars, routing, obs, storeVars, online, faa, guided, histVars, boundVars>>

\* register/3
Register ==
  /\ AtStep("verified")
  /\ attach_session(ChatFor(job.req), job.sid)
  /\ created' = created \cup {job.sid}
  /\ job' = [job EXCEPT !.pc = "attached"]
  /\ UNCHANGED <<subtreeVars, obs, storeVars, mailbox, cmd, adapterVars, notices,
                 unheard, bound, incomplete, boundVars>>

\* start_lifecycle_observer/3 asks nothing about the supervisor whose pid do_create/1
\* has kept: an observer of a dead one gets its DOWN at once.
ObserveIfUp(s) == sup[s] = "up"
Observe(s) == s \in Sids

\* register_primary_agent/2 and start_lifecycle_observer/3
StartObserver ==
  /\ AtStep("attached")
  /\ instances' = instances \cup {job.sid}
  /\ obs' = IF Observe(job.sid) THEN [obs EXCEPT ![job.sid] = ChatFor(job.req)] ELSE obs
  /\ job' = [job EXCEPT !.pc = "observed"]
  /\ UNCHANGED <<subtreeVars, routing, entities, records, mailbox, cmd, adapterVars,
                 histVars, boundVars>>

CreateReplies ==
  /\ AtStep("observed")
  /\ job.req.type = "create"
  /\ Reply(job.req.from, "creating", "created", job.sid)
  /\ job' = Idle
  /\ UNCHANGED <<subtreeVars, routing, obs, storeVars, mailbox, adapterVars,
                 histVars, boundVars>>

\* redeliver_triggering_envelope/4: to the current session's FCP, which need
\* not be the one just created, without asking whether it is alive.
Redeliver ==
  /\ AtStep("observed")
  /\ job.req.type = "new_chat_thread"
  /\ LET m == job.req.msg
         s == current_session(ChatOf[m])
     IN \/ /\ s # NoSid
           /\ \E found \in fcp_for_session(s) :
                inbound' = [inbound EXCEPT ![m] =
                              CASE found = "alive" -> "delivered"
                                [] found = "dead" -> "lost"
                                [] found = "not_found" -> "dropped"]
        \/ /\ s = NoSid
           /\ inbound' = [inbound EXCEPT ![m] = "dropped"]
  /\ job' = Idle
  /\ UNCHANGED <<subtreeVars, routing, obs, storeVars, mailbox, cmd, online, faa, guided,
                 histVars, boundVars>>

---------------------------------------------------------------------------
(* Router: handle_call({:end_session_sync, sid}).                          *)

EndUnknown ==
  /\ Serving
  /\ LET req == Head(mailbox) IN
       /\ req.type = "end"
       /\ sup[req.sid] # "up"
       /\ Reply(req.from, "rolling", "rolled_back", req.sid)
  /\ mailbox' = Tail(mailbox)
  /\ UNCHANGED <<subtreeVars, routing, obs, storeVars, job, adapterVars, histVars, boundVars>>

\* GenServer.whereis finds the pid of the supervisor there is now.
EndFind ==
  /\ Serving
  /\ LET req == Head(mailbox) IN
       /\ req.type = "end"
       /\ sup[req.sid] = "up"
       /\ job' = [pc |-> "stopping", req |-> req, sid |-> req.sid, pid |-> gen[req.sid],
                  missing |-> FALSE]
  /\ mailbox' = Tail(mailbox)
  /\ UNCHANGED <<subtreeVars, routing, obs, storeVars, cmd, adapterVars, histVars, boundVars>>

\* stop_session/1: terminate_child of that pid, also of one that has exited and whose
\* exit Esr.Session.Supervisor has not handled yet.
EndStop ==
  /\ AtStep("stopping")
  /\ gen[job.sid] = job.pid
  /\ sup' = [sup EXCEPT ![job.sid] = "down"]
  /\ PeersDie(job.sid)
  /\ fcp' = [fcp EXCEPT ![job.sid] = "none"]
  /\ job' = [job EXCEPT !.pc = "stopped"]
  /\ UNCHANGED <<gen, routing, obs, storeVars, mailbox, cmd, online, inbound, guided,
                 histVars, boundVars>>

\* That process has been replaced: terminate_child answers {:error, :not_found}, which
\* the match on :ok in handle_call does not take.
EndStopMissing ==
  /\ AtStep("stopping")
  /\ gen[job.sid] # job.pid
  /\ RouterCrash
  /\ UNCHANGED <<subtreeVars, routing, obs, storeVars, online, faa, guided, histVars, boundVars>>

EndDetach ==
  /\ AtStep("stopped")
  /\ detach_session_by_id(job.sid)
  /\ Reply(job.req.from, "rolling", "rolled_back", job.sid)
  /\ job' = Idle
  /\ UNCHANGED <<subtreeVars, obs, storeVars, mailbox, adapterVars, histVars, boundVars>>

---------------------------------------------------------------------------
(* The session's own processes. *)

\* The FCP dies abruptly; its DynamicSupervisor will start another.
FcpCrash(s) ==
  /\ faults < MaxFaults
  /\ fcp[s] = "live"
  /\ PeersDie(s)
  /\ fcp' = [fcp EXCEPT ![s] = "crashed"]
  /\ faults' = faults + 1
  /\ UNCHANGED <<sup, gen, routing, obs, storeVars, routerVars, cmd, online, inbound, guided,
                 histVars, ops, restarts>>

\* The new FCP registers, or finds its predecessor's name row in the way.
FcpRestart(s) ==
  /\ fcp[s] = "crashed"
  /\ fcp' = [fcp EXCEPT ![s] = IF s \in stale THEN "unlisted" ELSE "live"]
  /\ UNCHANGED <<sup, gen, stale, routing, obs, storeVars, routerVars, cmd, adapterVars,
                 histVars, boundVars>>

\* IndexWatcher handles the DOWN of a dead FCP.
IndexDown(s) ==
  /\ s \in stale
  /\ stale' = stale \ {s}
  /\ UNCHANGED <<sup, gen, fcp, routing, obs, storeVars, routerVars, cmd, adapterVars,
                 histVars, boundVars>>

\* Esr.Session.Process crashes: :one_for_all restarts the peers'
\* DynamicSupervisor, which comes back empty.
SubtreeRestart(s) ==
  /\ faults < MaxFaults
  /\ sup[s] = "up"
  /\ fcp[s] # "none"
  /\ PeersDie(s)
  /\ fcp' = [fcp EXCEPT ![s] = "none"]
  /\ faults' = faults + 1
  /\ UNCHANGED <<sup, gen, routing, obs, storeVars, routerVars, cmd, online, inbound, guided,
                 histVars, ops, restarts>>

\* The session's supervisor exits by itself: it has restarted its children too often.
SupervisorCrash(s) ==
  /\ faults < MaxFaults
  /\ sup[s] = "up"
  /\ sup' = [sup EXCEPT ![s] = "restarting"]
  /\ PeersDie(s)
  /\ fcp' = [fcp EXCEPT ![s] = "none"]
  /\ faults' = faults + 1
  /\ UNCHANGED <<gen, routing, obs, storeVars, routerVars, cmd, online, inbound, guided,
                 histVars, ops, restarts>>

\* Esr.Session.Supervisor handles the exit and starts the session again.
SupervisorRestart(s) ==
  /\ sup[s] = "restarting"
  /\ sup' = [sup EXCEPT ![s] = "up"]
  /\ gen' = [gen EXCEPT ![s] = @ + 1]
  /\ UNCHANGED <<fcp, stale, routing, obs, storeVars, routerVars, cmd, adapterVars,
                 histVars, boundVars>>

\* LifecycleObserver.handle_info({:DOWN, ...}) of the session's first supervisor: tell
\* the chat, which is a dropped log line if its adapter is not there, clear its slot.
ObserverDown(s) ==
  /\ obs[s] # NoChat
  /\ FirstGone(s)
  /\ notices' = IF online THEN notices \cup {s} ELSE notices
  /\ unheard' = IF online THEN unheard ELSE unheard \cup {s}
  /\ detach_session(obs[s], s)
  /\ obs' = [obs EXCEPT ![s] = NoChat]
  /\ UNCHANGED <<subtreeVars, storeVars, routerVars, cmd, adapterVars, created, bound,
                 incomplete, boundVars>>

---------------------------------------------------------------------------
(* Esr.Commands.Session.New: a task that calls the router and the stores.  *)

Step(n, from, to) ==
  /\ cmd[n].pc = from
  /\ cmd' = [cmd EXCEPT ![n].pc = to]

\* check_name_unique/2 scans the session records there are now.
NameTaken(n) == \E s \in entities : records[s] = NameOf[n]
NewCheck(n) ==
  /\ Step(n, "idle", IF NameTaken(n) THEN "rejected" ELSE "checked")
  /\ UNCHANGED <<subtreeVars, routing, obs, storeVars, routerVars, adapterVars,
                 histVars, boundVars>>

\* spawn_session/10 of a command that comes from a chat: the router's work.
NewCreate(n) ==
  /\ NewChat[n] # NoChat
  /\ Step(n, "checked", "creating")
  /\ mailbox' = Append(mailbox, Create(n))
  /\ UNCHANGED <<subtreeVars, routing, obs, storeVars, job, adapterVars, histVars, boundVars>>

\* spawn_session/10 of one that does not: the task itself starts the supervisor, with no
\* pipeline, no slot and no observer.
NewCreateDirect(n) ==
  /\ NewChat[n] = NoChat
  /\ cmd[n].pc = "checked"
  /\ \/ /\ Cardinality(Children) >= MaxSessions
        /\ Step(n, "checked", "failed")
        /\ UNCHANGED sup
     \/ /\ Cardinality(Children) < MaxSessions
        /\ \E s \in Fresh : /\ StartSession(s)
                            /\ cmd' = [cmd EXCEPT ![n] = [pc |-> "created", sid |-> s]]
  /\ UNCHANGED <<gen, fcp, stale, routing, obs, storeVars, routerVars, adapterVars,
                 histVars, boundVars>>

\* The 30 s (create) or 10 s (end) call timeout: the task exits, its request
\* stays in the router's mailbox.
NewTimeout(n) ==
  /\ \E pc \in {"creating", "rolling"} : Step(n, pc, "crashed")
  /\ UNCHANGED <<subtreeVars, routing, obs, storeVars, routerVars, adapterVars,
                 histVars, boundVars>>

\* maybe_claim_uri/2 and bind_session_to_workspace/2 succeed; claiming makes
\* the session's canonical row if the command has URI components.
NewClaim(n) ==
  /\ Step(n, "created", "claimed")
  /\ entities' \in {entities, entities \cup {cmd[n].sid}}
  /\ UNCHANGED <<subtreeVars, routing, obs, instances, records, routerVars, adapterVars,
                 histVars, boundVars>>

RollBackKeepsSession(n, from) == Step(n, from, "rolled_back") /\ UNCHANGED mailbox
\* rollback_spawn/1
RollBack(n, from) ==
  /\ Step(n, from, "rolling")
  /\ mailbox' = Append(mailbox, EndSession(cmd[n].sid, n))

\* The name or worktree is taken, the workspace is gone, or the record cannot
\* be written.
NewFails(n) ==
  /\ \E pc \in {"created", "claimed"} : RollBack(n, pc)
  /\ UNCHANGED <<subtreeVars, routing, obs, storeVars, job, adapterVars, histVars, boundVars>>

\* persist_session_record/4
NewPersist(n) ==
  /\ Step(n, "claimed", "persisted")
  /\ records' = [records EXCEPT ![cmd[n].sid] = NameOf[n]]
  /\ entities' = entities \cup {cmd[n].sid}
  /\ UNCHANGED <<subtreeVars, routing, obs, instances, routerVars, adapterVars,
                 histVars, boundVars>>

\* maybe_attach_chat/3: attach unless the slot's current session is this one, or there
\* is no chat.
NewAttach(n) ==
  /\ Step(n, "persisted", "done")
  /\ LET c == NewChat[n]
         s == cmd[n].sid
     IN IF c = NoChat \/ current_session(c) = s THEN UNCHANGED routing
                                                ELSE attach_session(c, s)
  /\ bound' = IF NewChat[n] = NoChat \/ cmd[n].sid \in routing[NewChat[n]].attached
                THEN bound ELSE bound \cup {<<NewChat[n], cmd[n].sid>>}
  /\ UNCHANGED <<subtreeVars, obs, storeVars, routerVars, adapterVars, created, notices,
                 unheard, incomplete, boundVars>>

---------------------------------------------------------------------------
(* The other session commands. *)

OperatorStep == ops < MaxOps /\ ops' = ops + 1

\* /session:end
CmdEnd(s) ==
  /\ OperatorStep
  /\ sup[s] # "unused"
  /\ mailbox' = Append(mailbox, EndSession(s, NoCmd))
  /\ UNCHANGED <<subtreeVars, routing, obs, storeVars, job, cmd, adapterVars, histVars,
                 faults, restarts>>

\* /session:bind-chat: any session with a row in the URI store.
CmdBindChat(c, s) ==
  /\ OperatorStep
  /\ s \in entities
  /\ attach_session(c, s)
  /\ bound' = bound \cup {<<c, s>>}
  /\ UNCHANGED <<subtreeVars, obs, storeVars, routerVars, cmd, adapterVars, created,
                 notices, unheard, incomplete, faults, restarts>>

\* /session:unbind-chat
CmdUnbindChat(c, s) ==
  /\ OperatorStep
  /\ sup[s] # "unused"
  /\ detach_session(c, s)
  /\ bound' = bound \ {<<c, s>>}
  /\ UNCHANGED <<subtreeVars, obs, storeVars, routerVars, cmd, adapterVars, created,
                 notices, unheard, incomplete, faults, restarts>>

\* /session:switch
CmdSwitch(c, s) ==
  /\ OperatorStep
  /\ s \in routing[c].attached
  /\ routing' = [routing EXCEPT ![c].current = s]
  /\ UNCHANGED <<subtreeVars, obs, storeVars, routerVars, cmd, adapterVars, histVars,
                 faults, restarts>>

---------------------------------------------------------------------------
(* FeishuAppAdapter.do_handle_upstream_inbound/5. *)

\* The chat has a current session: look its FCP up and decide.
FaaRoute(m) ==
  /\ online
  /\ faa = NoRoute
  /\ inbound[m] = "unsent"
  /\ LET s == current_session(ChatOf[m]) IN
       /\ s # NoSid
       /\ \E found \in fcp_for_session(s) :
            faa' = [verdict |-> IF found = "alive" THEN "forward" ELSE "cleanup",
                    msg |-> m, sid |-> s]
  /\ inbound' = [inbound EXCEPT ![m] = "routing"]
  /\ UNCHANGED <<subtreeVars, routing, obs, storeVars, routerVars, cmd, online, guided, histVars,
                 boundVars>>

\* send(fcp_pid, {:feishu_inbound, envelope})
FaaForward ==
  /\ faa.verdict \in {"forward", "forward_dead"}
  /\ inbound' = [inbound EXCEPT ![faa.msg] =
                   IF faa.verdict = "forward" THEN "delivered" ELSE "lost"]
  /\ faa' = NoRoute
  /\ UNCHANGED <<subtreeVars, routing, obs, storeVars, routerVars, cmd, online, guided, histVars,
                 boundVars>>

\* cleanup_and_reply/4
FaaCleanup ==
  /\ faa.verdict = "cleanup"
  /\ detach_session(ChatOf[faa.msg], faa.sid)
  /\ inbound' = [inbound EXCEPT ![faa.msg] = "error"]
  /\ faa' = NoRoute
  /\ UNCHANGED <<subtreeVars, obs, storeVars, routerVars, cmd, online, guided, histVars, boundVars>>

\* No current session: UnboundChatGuard.check/3, then the guide, silence, or
\* a :new_chat_thread broadcast to the router.
FaaUnrouted(m) ==
  LET c == ChatOf[m] IN
  /\ online
  /\ faa = NoRoute
  /\ inbound[m] = "unsent"
  /\ current_session(c) = NoSid
  /\ \/ /\ c \in WorkspaceChats
        /\ mailbox' = Append(mailbox, NewChatThread(m))
        /\ inbound' = [inbound EXCEPT ![m] = "pending"]
        /\ UNCHANGED guided
     \/ /\ c \notin WorkspaceChats
        /\ inbound' = [inbound EXCEPT ![m] = IF c \in guided THEN "quiet" ELSE "guided"]
        /\ guided' = guided \cup {c}
        /\ UNCHANGED mailbox
  /\ UNCHANGED <<subtreeVars, routing, obs, storeVars, job, cmd, online, faa, histVars,
                 boundVars>>

\* Ten minutes have passed.
GuideExpires(c) ==
  /\ c \in guided
  /\ guided' = guided \ {c}
  /\ UNCHANGED <<subtreeVars, routing, obs, storeVars, routerVars, cmd, online, faa, inbound,
                 histVars, boundVars>>

\* The adapter exits, with the message it was routing; DynamicSupervisor starts another.
\* The guide's memory is UnboundChatGuard's and survives.
FaaCrash ==
  /\ faults < MaxFaults
  /\ online
  /\ online' = FALSE
  /\ faa' = NoRoute
  /\ inbound' = [m \in Msgs |-> IF inbound[m] = "routing" THEN "lost" ELSE inbound[m]]
  /\ faults' = faults + 1
  /\ UNCHANGED <<subtreeVars, routing, obs, storeVars, routerVars, cmd, guided, histVars,
                 ops, restarts>>

FaaRestart ==
  /\ ~online
  /\ online' = TRUE
  /\ UNCHANGED <<subtreeVars, routing, obs, storeVars, routerVars, cmd, faa, inbound,
                 guided, histVars, boundVars>>

---------------------------------------------------------------------------
\* The runtime goes down and comes up: processes and ETS tables are lost, the
\* files are read back.
Restart ==
  /\ restarts < MaxRestarts
  /\ restarts' = restarts + 1
  /\ sup' = [s \in Sids |-> IF s \in Children THEN "down" ELSE sup[s]]
  /\ fcp' = [s \in Sids |-> "none"]
  /\ stale' = {}
  /\ obs' = [s \in Sids |-> NoChat]
  /\ instances' = {}
  /\ entities' = {s \in Sids : records[s] # NoName}
  /\ mailbox' = << >>
  /\ job' = Idle
  /\ cmd' = [n \in News |->
               IF cmd[n].pc \in {"idle", "done", "rejected", "failed", "rolled_back"}
                 THEN cmd[n] ELSE [cmd[n] EXCEPT !.pc = "crashed"]]
  /\ faa' = NoRoute
  /\ inbound' = [m \in Msgs |-> IF inbound[m] \in {"pending", "routing"}
                                  THEN "lost" ELSE inbound[m]]
  /\ online' = TRUE
  /\ guided' = {}
  /\ UNCHANGED <<gen, routing, records, histVars, faults, ops>>

---------------------------------------------------------------------------
RouterStep ==
  \/ CreateRefused \/ CreateStart \/ SpawnPipeline \/ SpawnFails
  \/ VerifyComplete \/ VerifyIncomplete \/ SpawnOnDeadSupervisor
  \/ Register \/ StartObserver \/ CreateReplies \/ Redeliver
  \/ EndUnknown \/ EndFind \/ EndStop \/ EndStopMissing \/ EndDetach

SessionStep(s) ==
  \/ FcpCrash(s) \/ FcpRestart(s) \/ IndexDown(s)
  \/ SubtreeRestart(s) \/ SupervisorCrash(s) \/ SupervisorRestart(s)

NewStep(n) ==
  \/ NewCheck(n) \/ NewCreate(n) \/ NewCreateDirect(n) \/ NewTimeout(n) \/ NewClaim(n)
  \/ NewFails(n) \/ NewPersist(n) \/ NewAttach(n)

CommandStep ==
  \E s \in Sids :
    \/ CmdEnd(s)
    \/ \E c \in Chats : CmdBindChat(c, s) \/ CmdUnbindChat(c, s) \/ CmdSwitch(c, s)

AdapterStep ==
  \/ \E m \in Msgs : FaaRoute(m) \/ FaaUnrouted(m)
  \/ FaaForward \/ FaaCleanup
  \/ \E c \in Chats : GuideExpires(c)
  \/ FaaCrash \/ FaaRestart

Next ==
  \/ RouterStep
  \/ \E s \in Sids : SessionStep(s) \/ ObserverDown(s)
  \/ \E n \in News : NewStep(n)
  \/ CommandStep
  \/ AdapterStep
  \/ Restart

Spec == Init /\ [][Next]_vars

\* Live GenServers handle their messages; a command task runs to its end.
FairSpec ==
  /\ Spec
  /\ WF_vars(RouterStep)
  /\ \A s \in Sids : WF_vars(ObserverDown(s)) /\ WF_vars(IndexDown(s))
  /\ \A n \in News : WF_vars(cmd[n].pc # "idle" /\ NewStep(n))
  /\ WF_vars(FaaForward \/ FaaCleanup)

---------------------------------------------------------------------------
(* Properties. *)

\* A chat's slot is coherent after any mix of attach, detach, switch, session
\* end and restart: it has a current session exactly when it has attached
\* ones, and the current one is among them.  Otherwise a chat with live
\* sessions would look unbound, or route to a session it has left.
SlotCoherent ==
  \A c \in Chats :
    IF routing[c].attached = {}
      THEN routing[c].current = NoSid
      ELSE routing[c].current \in routing[c].attached

\* A session does not linger in the chat it was created for once the supervisor it was
\* created with is gone: as long as the slot holds it, its observer (or the router in the
\* middle of creating it) has the clean-up to do.  Chats it was bound to afterwards are
\* left out, and so is a restart of the runtime, which brings back the slots on disk and
\* no observer.
DeadSlotWatched ==
  restarts = 0 =>
    \A c \in Chats, s \in Sids :
      /\ s \in routing[c].attached
      /\ FirstGone(s)
      /\ <<c, s>> \notin bound
      => \/ obs[s] = c
         \/ job.pc = "attached" /\ job.sid = s

\* What it rests on: this is so of every session, dead or not, and the observer the
\* router is about to start is the session's first and reports to that chat.
Creating == job.pc \in JobSteps \ {"idle", "stopping", "stopped"}

WatchInv ==
  /\ \A c \in Chats, s \in Sids :
       s \in routing[c].attached /\ <<c, s>> \notin bound =>
         \/ obs[s] = c
         \/ job.pc = "attached" /\ job.sid = s /\ ChatFor(job.req) = c
  /\ \A s \in Sids : sup[s] = "unused" => obs[s] = NoChat
  /\ Creating => sup[job.sid] # "unused" /\ job.req.type # "end"
  /\ Creating /\ job.pc # "observed" => obs[job.sid] = NoChat

\* /session:new that rolled back leaves behind neither the supervisor it started nor a
\* slot that nobody will clear, as long as the runtime stays up (a restart brings back
\* the slots on disk and no observer).  A session that crashed by itself and is started
\* again in the meantime is beyond the roll-back: end_session/1 then answers
\* :unknown_session or the router exits, and rollback_spawn/1 ignores what it answers.
RolledBackClean ==
  \A n \in News :
    cmd[n].pc = "rolled_back" /\ restarts = 0 =>
      /\ FirstGone(cmd[n].sid)
      /\ \A c \in Chats :
           /\ cmd[n].sid \in routing[c].attached
           /\ <<c, cmd[n].sid>> \notin bound
           => obs[cmd[n].sid] = c

\* What it rests on: a session belongs to one command, not to the router any more;
\* a command's end request is for its session; and the supervisor of what has been rolled
\* back is gone, as is that of what the router has stopped.
EndRequests(box) == {r \in {box[i] : i \in DOMAIN box} : r.type = "end"}
Early == {"idle", "checked", "creating"}
Owning == {"created", "claimed", "persisted", "rolling", "rolled_back"}
Ended == {"rolling", "rolled_back", "crashed"}
FromOwner(r) == r.from \in News => cmd[r.from].pc \in Ended /\ cmd[r.from].sid = r.sid

CommandInv ==
  /\ \A n \in News :
       /\ cmd[n].sid # NoSid => sup[cmd[n].sid] # "unused"
       /\ cmd[n].sid # NoSid /\ Creating => cmd[n].sid # job.sid
       /\ cmd[n].pc \in Early => cmd[n].sid = NoSid
       /\ cmd[n].pc \in Owning => cmd[n].sid # NoSid
       /\ cmd[n].pc = "rolled_back" => FirstGone(cmd[n].sid)
  /\ \A n, k \in News : cmd[n].sid = cmd[k].sid /\ cmd[n].sid # NoSid => n = k
  /\ \A r \in EndRequests(mailbox) : FromOwner(r)
  /\ job.pc \in {"stopping", "stopped"} =>
       /\ job.req.type = "end" /\ job.req.sid = job.sid
       /\ FromOwner(job.req)
       /\ job.pc = "stopped" => FirstGone(job.sid)

\* I4 of docs/notes/system-invariants.md: the end of the supervisor of a session that had
\* been attached is reported to its chat, or dropped for want of an adapter, even if it
\* dies before its observer is started and even if it is started again.
DeathReported ==
  \A s \in Sids : (s \in created /\ FirstGone(s)) ~> (s \in notices \cup unheard)

\* Every inbound message the adapter took is settled one way or another.
InboundSettled ==
  \A m \in Msgs :
    (inbound[m] \in {"pending", "routing"}) ~> (inbound[m] \notin {"pending", "routing"})

\* Stated by verify_pipeline_complete/2: a session whose pipeline is incomplete
\* is torn down.
IncompleteTornDown == \A s \in incomplete : sup[s] = "down"

\* Stated by LifecycleObserver ("the session is already dead") and by the :transient of
\* Esr.Session's moduledoc: a session whose end its chat was told of does not run.
ReportedIsGone == \A s \in notices : sup[s] # "up"
=============================================================================
