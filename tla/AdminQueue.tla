------------------------------ MODULE AdminQueue ------------------------------
(***************************************************************************)
(* The admin command queue: the CLI writes a command file, the runtime     *)
(* executes it and leaves the result in a file the CLI polls for.          *)
(*                                                                         *)
(*   Esr.Cli.Main              cmd_exec_kind/3, poll_for_result/4          *)
(*   Esr.Slash.QueueWatcher    directory watch and boot-time recovery      *)
(*   Esr.Slash.QueueResult     pending -> processing -> completed | failed *)
(*   Esr.Slash.ReplyTarget.QueueFile                                       *)
(*   Esr.Slash.QueueJanitor    retention                                   *)
(*   Esr.Entity.SlashHandler   dispatch_command/2: checks, Task, timer     *)
(*   Esr.Session.Admin.Process who the slash handler is                    *)
(*                                                                         *)
(* The CLI is another OS process; watcher, handler and one Task for each   *)
(* dispatched command run concurrently inside the runtime.  The handler,   *)
(* the watcher and the whole runtime may crash between any two steps.      *)
(* A file's rename and the rewriting of its contents are separate steps.   *)
(***************************************************************************)
EXTENDS Integers, Sequences, FiniteSets

CONSTANTS
  Cmds, NoCmd,     \* submissions (their ids are never reused)
  Malformed,       \* submissions whose file is not a YAML map
  Refs,            \* dispatch references, one for each dispatch_command/2 call
  MaxCrashes       \* bound: crashes of watcher, handler or runtime

ASSUME ConstAssumption ==
  /\ NoCmd \notin Cmds
  /\ Malformed \subseteq Cmds
  /\ MaxCrashes \in Nat

VARIABLES
  disk,       \* contents of <dir>/<id>.yaml, for every directory and id
  old,        \* ids whose file was written more than ten minutes ago
  events,     \* the watcher's mailbox of file events
  watcher,    \* what the watcher is doing
  handler,    \* the slash handler process
  registered, \* whom Admin.Process knows as slash handler
  mailbox,    \* the slash handler's mailbox
  pending,    \* its pending map: dispatches waiting for a result
  timers,     \* dispatch timers that are running
  finishing,  \* result files moved but not yet written, by the process at it
  cmdOf,      \* the command of each dispatch
  task,       \* the Task of each dispatch
  client,     \* what each CLI invocation knows
  runs,       \* history: how often a Task was started for each command
  answers,    \* history: directories the results of a command were sent to
  requeued,   \* history: commands returned from processing/ to pending/
  swept,      \* history: commands the janitor removed
  crashes     \* counter for MaxCrashes

fileVars == <<disk, old>>
watcherVars == <<events, watcher>>
handlerVars == <<handler, registered, mailbox, pending, timers>>
taskVars == <<cmdOf, task, runs>>
histVars == <<answers, requeued, swept>>
vars == <<fileVars, watcherVars, handlerVars, finishing, taskVars, client, histVars, crashes>>

---------------------------------------------------------------------------
(* Types. *)

Dirs == {"pending", "processing", "completed", "failed"}
Absent == "absent"
\* "ok" and "error": a result document; "command": the submission as written.
Contents == {Absent, "command", "malformed", "ok", "error"}
Results == {"ok", "error"}
\* ReplyTarget.QueueFile.render/1
DirFor(result) == IF result = "ok" THEN "completed" ELSE "failed"

Messages == [type: {"dispatch_command", "timeout"}, ref: Refs]
              \cup [type: {"command_result"}, ref: Refs, result: Results]
NoFinish == [cmd |-> NoCmd]
Finishes == {NoFinish} \cup [cmd: Cmds, result: Results]
Waiting == [pc |-> "waiting"]
Clients == [pc: {"idle", "waiting", "timeout"}]
             \cup [pc: {"read"}, dir: {"completed", "failed"}, content: Contents \ {Absent}]

TypeOK ==
  /\ disk \in [Dirs -> [Cmds -> Contents]]
  /\ old \in SUBSET Cmds
  /\ events \in Seq(Cmds)
  /\ watcher \in [pc: {"down", "continue", "scanning", "ready"},
                  todo: SUBSET Cmds, moved: Cmds \cup {NoCmd}]
  /\ handler \in {"up", "crashed"}
  /\ registered \in {"current", "stale", "none"}
  /\ mailbox \in Seq(Messages)
  /\ pending \in SUBSET Refs
  /\ timers \in SUBSET pending
  /\ finishing \in [{"handler", "watcher"} -> Finishes]
  /\ cmdOf \in [Refs -> Cmds \cup {NoCmd}]
  /\ task \in [Refs -> {"none", "running", "orphaned", "over"}]
  /\ client \in [Cmds -> Clients]
  /\ runs \in [Cmds -> Nat]
  /\ answers \in [Cmds -> SUBSET {"completed", "failed"}]
  /\ requeued \in SUBSET Cmds
  /\ swept \in SUBSET Cmds
  /\ crashes \in Nat

WatcherDown == [pc |-> "down", todo |-> {}, moved |-> NoCmd]

Init ==
  /\ disk = [d \in Dirs |-> [c \in Cmds |-> Absent]]
  /\ old = {}
  /\ events = << >>
  /\ watcher = WatcherDown
  /\ handler = "up"
  /\ registered = "current"
  /\ mailbox = << >>
  /\ pending = {}
  /\ timers = {}
  /\ finishing = [p \in {"handler", "watcher"} |-> NoFinish]
  /\ cmdOf = [r \in Refs |-> NoCmd]
  /\ task = [r \in Refs |-> "none"]
  /\ client = [c \in Cmds |-> [pc |-> "idle"]]
  /\ runs = [c \in Cmds |-> 0]
  /\ answers = [c \in Cmds |-> {}]
  /\ requeued = {}
  /\ swept = {}
  /\ crashes = 0

---------------------------------------------------------------------------
(* Files. *)

Has(dir, c) == disk[dir][c] # Absent

\* File.rename/2, where the source exists.
Rename(from, to, c) ==
  [disk EXCEPT ![to][c] = disk[from][c], ![from][c] = Absent]

\* A watcher that has subscribed is told of every change in pending/.
Notify(c) == events' = IF watcher.pc = "down" THEN events ELSE Append(events, c)

TimersOf(c) == {r \in timers : cmdOf[r] = c}

\* Ten minutes pass; the five-second dispatch timer of a command does not
\* outlast them.
TenMinutes(c) ==
  /\ c \notin old
  /\ client[c].pc # "idle"
  /\ TimersOf(c) = {}
  /\ old' = old \cup {c}
  /\ UNCHANGED <<disk, watcherVars, handlerVars, finishing, taskVars, client, histVars, crashes>>

\* QueueJanitor.sweep/1, fourteen days later: the CLI has long stopped waiting.
Sweep(dir, c) ==
  /\ dir \in {"completed", "failed"}
  /\ Has(dir, c)
  /\ client[c].pc # "waiting"
  /\ TimersOf(c) = {}
  /\ disk' = [disk EXCEPT ![dir][c] = Absent]
  /\ swept' = swept \cup {c}
  /\ UNCHANGED <<old, watcherVars, handlerVars, finishing, taskVars, client, answers,
                 requeued, crashes>>

---------------------------------------------------------------------------
(* The CLI. *)

\* cmd_exec_kind/3: write a .tmp file and rename it.
Submit(c) ==
  /\ client[c].pc = "idle"
  /\ client' = [client EXCEPT ![c] = Waiting]
  /\ disk' = [disk EXCEPT !["pending"][c] = IF c \in Malformed THEN "malformed" ELSE "command"]
  /\ Notify(c)
  /\ UNCHANGED <<old, watcher, handlerVars, finishing, taskVars, histVars, crashes>>

\* poll_for_result/4 looks in completed/ first, and once: a file that cannot be
\* read, for it is half written, counts as a time-out.
Poll(c) ==
  /\ client[c] = Waiting
  /\ \E dir \in {"completed", "failed"} :
       /\ Has(dir, c)
       /\ dir = "failed" => ~Has("completed", c)
       /\ client' = [client EXCEPT ![c] =
            IF disk[dir][c] = "malformed" THEN [pc |-> "timeout"]
            ELSE [pc |-> "read", dir |-> dir, content |-> disk[dir][c]]]
  /\ UNCHANGED <<fileVars, watcherVars, handlerVars, finishing, taskVars, histVars, crashes>>

PollTimeout(c) ==
  /\ client[c] = Waiting
  /\ client' = [client EXCEPT ![c] = [pc |-> "timeout"]]
  /\ UNCHANGED <<fileVars, watcherVars, handlerVars, finishing, taskVars, histVars, crashes>>

---------------------------------------------------------------------------
(* QueueResult.finish/3, in the process that replies. *)

DropsBeforeWrite(c, dir) ==
  IF Has("processing", c) THEN [disk EXCEPT !["processing"][c] = Absent] ELSE disk
\* The command file is moved over, if it is still in processing/ ...
MoveResult(c, dir) == IF Has("processing", c) THEN Rename("processing", dir, c) ELSE disk

Finish(proc, c, result) ==
  /\ disk' = MoveResult(c, DirFor(result))
  /\ finishing' = [finishing EXCEPT ![proc] = [cmd |-> c, result |-> result]]
  /\ answers' = [answers EXCEPT ![c] = @ \cup {DirFor(result)}]

\* ... and then overwritten with the result document.  A write that fails is
\* logged and no more: the file keeps what it has, or is left truncated.
FinishWrite(proc) ==
  LET f == finishing[proc]
      dir == DirFor(f.result)
  IN
  /\ f # NoFinish
  /\ \E written \in {f.result, disk[dir][f.cmd], "malformed"} :
       disk' = [disk EXCEPT ![dir][f.cmd] = written]
  /\ finishing' = [finishing EXCEPT ![proc] = NoFinish]
  /\ UNCHANGED <<old, watcherVars, handlerVars, taskVars, client, histVars, crashes>>

---------------------------------------------------------------------------
(* Esr.Slash.QueueWatcher. *)

\* init/1: scan_stale_processing/2, then subscribe.
StaleProcessing == {c \in old : Has("processing", c)}
WatcherInit ==
  /\ watcher.pc = "down"
  /\ disk' = [disk EXCEPT
       !["pending"] = [c \in Cmds |-> IF c \in StaleProcessing THEN disk["processing"][c]
                                                               ELSE disk["pending"][c]],
       !["processing"] = [c \in Cmds |-> IF c \in StaleProcessing THEN Absent
                                                                  ELSE disk["processing"][c]]]
  /\ requeued' = requeued \cup StaleProcessing
  /\ watcher' = [watcher EXCEPT !.pc = "continue"]
  /\ UNCHANGED <<old, events, handlerVars, finishing, taskVars, client, answers, swept, crashes>>

NoOrphans == {}
Orphans == {c \in Cmds : Has("pending", c)}

\* handle_continue(:scan_orphans): the files that are in pending/ now.
ScanOrphans ==
  /\ watcher.pc = "continue"
  /\ watcher' = [watcher EXCEPT !.pc = "scanning", !.todo = Orphans]
  /\ UNCHANGED <<fileVars, events, handlerVars, finishing, taskVars, client, histVars, crashes>>

ScanDone ==
  /\ watcher.pc = "scanning"
  /\ watcher.todo = {}
  /\ watcher.moved = NoCmd
  /\ watcher' = [watcher EXCEPT !.pc = "ready"]
  /\ UNCHANGED <<fileVars, events, handlerVars, finishing, taskVars, client, histVars, crashes>>

\* YamlElixir.read_from_file/1 on the path in pending/ gives a map.
Readable(c) == disk["pending"][c] = "command"

\* QueueResult.start_processing/1: a file that is no longer in pending/ is taken
\* for one already moved.  Moving one out of pending/ is another file event.
StartProcessing(c, queue) ==
  /\ disk' = IF Has("pending", c) THEN Rename("pending", "processing", c) ELSE disk
  /\ events' = IF Has("pending", c) THEN Append(queue, c) ELSE queue

Resting == watcher.moved = NoCmd /\ finishing["watcher"] = NoFinish

\* dispatch_pending_file/2 on a file of the boot-time scan, up to the rename.
ScanFile(c) ==
  /\ watcher.pc = "scanning"
  /\ Resting
  /\ c \in watcher.todo
  /\ \/ /\ Readable(c)
        /\ StartProcessing(c, events)
        /\ watcher' = [watcher EXCEPT !.todo = @ \ {c}, !.moved = c]
     \/ /\ ~Readable(c)
        /\ watcher' = [watcher EXCEPT !.todo = @ \ {c}]
        /\ UNCHANGED <<disk, events>>
  /\ UNCHANGED <<old, handlerVars, finishing, taskVars, client, histVars, crashes>>

\* handle_info({:file_event, ...}) and dispatch_pending_file/2, up to the rename.
FileEvent ==
  /\ watcher.pc = "ready"
  /\ Resting
  /\ events # << >>
  /\ LET c == Head(events) IN
       \/ /\ Readable(c)
          /\ StartProcessing(c, Tail(events))
          /\ watcher' = [watcher EXCEPT !.moved = c]
       \/ /\ ~Readable(c)
          /\ events' = Tail(events)
          /\ UNCHANGED <<disk, watcher>>
  /\ UNCHANGED <<old, handlerVars, finishing, taskVars, client, histVars, crashes>>

Unused == {r \in Refs : cmdOf[r] = NoCmd}

\* SlashHandler.dispatch_command/2 in the watcher: cast to whoever is
\* registered, alive or not, or reply on the spot when nobody is.
DispatchCommand(r) ==
  LET c == watcher.moved IN
  /\ c # NoCmd
  /\ r \in Unused
  /\ cmdOf' = [cmdOf EXCEPT ![r] = c]
  /\ watcher' = [watcher EXCEPT !.moved = NoCmd]
  /\ \/ /\ registered = "current"
        /\ mailbox' = Append(mailbox, [type |-> "dispatch_command", ref |-> r])
        /\ UNCHANGED <<disk, finishing, answers>>
     \/ /\ registered = "stale"
        /\ UNCHANGED <<disk, finishing, answers, mailbox>>
     \/ /\ registered = "none"
        /\ Finish("watcher", c, "error")
        /\ UNCHANGED mailbox
  /\ UNCHANGED <<old, events, handler, registered, pending, timers, task, runs, client,
                 requeued, swept, crashes>>

---------------------------------------------------------------------------
(* Esr.Entity.SlashHandler. *)

Take(type) ==
  /\ handler = "up"
  /\ finishing["handler"] = NoFinish
  /\ mailbox # << >>
  /\ Head(mailbox).type = type
  /\ mailbox' = Tail(mailbox)

\* handle_cast({:dispatch_command, ...}): unknown kind or not authorized.
HandleRefused ==
  /\ Take("dispatch_command")
  /\ Finish("handler", cmdOf[Head(mailbox).ref], "error")
  /\ UNCHANGED <<old, watcherVars, handler, registered, pending, timers, taskVars, client,
                 requeued, swept, crashes>>

NoTimer(r) == timers
\* Process.send_after(self(), {:slash_dispatch_timeout, ref}, ...)
ArmTimer(r) == timers \cup {r}

\* execute_command_async/4
HandleDispatch ==
  /\ Take("dispatch_command")
  /\ LET r == Head(mailbox).ref IN
       /\ pending' = pending \cup {r}
       /\ timers' = ArmTimer(r)
       /\ task' = [task EXCEPT ![r] = "running"]
       /\ runs' = [runs EXCEPT ![cmdOf[r]] = @ + 1]
  /\ UNCHANGED <<fileVars, watcherVars, handler, registered, finishing, cmdOf, client,
                 histVars, crashes>>

KeepRef(r) == pending
\* Map.pop(state.pending, ref)
PopRef(r) == pending \ {r}

\* handle_info({:command_result, ref, result})
HandleResult ==
  /\ Take("command_result")
  /\ LET m == Head(mailbox) IN
       \/ /\ m.ref \in pending
          /\ pending' = PopRef(m.ref)
          /\ timers' = timers \ {m.ref}
          /\ Finish("handler", cmdOf[m.ref], m.result)
       \/ /\ m.ref \notin pending
          /\ UNCHANGED <<pending, timers, disk, finishing, answers>>
  /\ UNCHANGED <<old, watcherVars, handler, registered, taskVars, client, requeued, swept, crashes>>

\* handle_info({:slash_dispatch_timeout, ref})
HandleTimeout ==
  /\ Take("timeout")
  /\ LET r == Head(mailbox).ref IN
       \/ /\ r \in pending
          /\ pending' = PopRef(r)
          /\ Finish("handler", cmdOf[r], "error")
       \/ /\ r \notin pending
          /\ UNCHANGED <<pending, disk, finishing, answers>>
  /\ UNCHANGED <<old, watcherVars, handler, registered, timers, taskVars, client,
                 requeued, swept, crashes>>

TimerFires(r) ==
  /\ r \in timers
  /\ timers' = timers \ {r}
  /\ mailbox' = Append(mailbox, [type |-> "timeout", ref |-> r])
  /\ UNCHANGED <<fileVars, watcherVars, handler, registered, pending, finishing, taskVars,
                 client, histVars, crashes>>

\* run_command/2 returns; the Task sends to the handler that started it.
TaskReturns(r) ==
  /\ task[r] \in {"running", "orphaned"}
  /\ task' = [task EXCEPT ![r] = "over"]
  /\ \/ /\ task[r] = "running"
        /\ \E result \in Results :
             mailbox' = Append(mailbox, [type |-> "command_result", ref |-> r, result |-> result])
     \/ /\ task[r] = "orphaned"
        /\ UNCHANGED mailbox
  /\ UNCHANGED <<fileVars, watcherVars, handler, registered, pending, timers, finishing,
                 cmdOf, runs, client, histVars, crashes>>

\* The command exits or throws, which run_command/2 does not rescue.
TaskDies(r) ==
  /\ task[r] \in {"running", "orphaned"}
  /\ task' = [task EXCEPT ![r] = "over"]
  /\ UNCHANGED <<fileVars, watcherVars, handlerVars, finishing, cmdOf, runs, client,
                 histVars, crashes>>

---------------------------------------------------------------------------
(* Crashes. *)

Orphan == [r \in Refs |-> IF task[r] = "running" THEN "orphaned" ELSE task[r]]
MayCrash == crashes < MaxCrashes /\ crashes' = crashes + 1

HandlerCrash ==
  /\ MayCrash
  /\ handler = "up"
  /\ handler' = "crashed"
  /\ registered' = "stale"
  /\ mailbox' = << >>
  /\ pending' = {}
  /\ timers' = {}
  /\ finishing' = [finishing EXCEPT !["handler"] = NoFinish]
  /\ task' = Orphan
  /\ UNCHANGED <<fileVars, watcherVars, cmdOf, runs, client, histVars>>

\* Admin.Process.handle_info({:DOWN, ...})
AdminDown ==
  /\ registered = "stale"
  /\ registered' = "none"
  /\ UNCHANGED <<fileVars, watcherVars, handler, mailbox, pending, timers, finishing,
                 taskVars, client, histVars, crashes>>

\* The children supervisor starts another handler, which registers in init/1.
HandlerRestart ==
  /\ handler = "crashed"
  /\ handler' = "up"
  /\ registered' = "current"
  /\ UNCHANGED <<fileVars, watcherVars, mailbox, pending, timers, finishing, taskVars,
                 client, histVars, crashes>>

\* A failed rename, or the file-system port it is linked to, takes the watcher
\* down; Esr.Slash.Supervisor starts it again.
WatcherCrash ==
  /\ MayCrash
  /\ watcher.pc # "down"
  /\ watcher' = WatcherDown
  /\ events' = << >>
  /\ finishing' = [finishing EXCEPT !["watcher"] = NoFinish]
  /\ UNCHANGED <<fileVars, handlerVars, taskVars, client, histVars>>

\* The runtime is killed and comes up again; only the files and the CLI last.
RuntimeRestart ==
  /\ MayCrash
  /\ watcher' = WatcherDown
  /\ events' = << >>
  /\ handler' = "up"
  /\ registered' = "current"
  /\ mailbox' = << >>
  /\ pending' = {}
  /\ timers' = {}
  /\ finishing' = [p \in {"handler", "watcher"} |-> NoFinish]
  /\ task' = [r \in Refs |-> IF task[r] = "none" THEN "none" ELSE "over"]
  /\ UNCHANGED <<fileVars, cmdOf, runs, client, histVars>>

---------------------------------------------------------------------------
WatcherStep ==
  \/ WatcherInit \/ ScanOrphans \/ ScanDone \/ FileEvent
  \/ \E c \in Cmds : ScanFile(c)
  \/ \E r \in Refs : DispatchCommand(r)
  \/ FinishWrite("watcher")

HandlerStep ==
  \/ HandleRefused \/ HandleDispatch \/ HandleResult \/ HandleTimeout
  \/ FinishWrite("handler")

Next ==
  \/ WatcherStep
  \/ HandlerStep
  \/ \E r \in Refs : TimerFires(r) \/ TaskReturns(r) \/ TaskDies(r)
  \/ \E c \in Cmds : Submit(c) \/ Poll(c) \/ PollTimeout(c) \/ TenMinutes(c)
  \/ \E c \in Cmds, dir \in Dirs : Sweep(dir, c)
  \/ HandlerCrash \/ AdminDown \/ HandlerRestart \/ WatcherCrash \/ RuntimeRestart

Spec == Init /\ [][Next]_vars

\* Processes are scheduled and timers fire.  Nothing is asked of a Task (a
\* command may hang), of the CLI or of the clock.
FairSpec ==
  /\ Spec
  /\ WF_vars(WatcherStep)
  /\ WF_vars(HandlerStep)
  /\ \A r \in Refs : WF_vars(TimerFires(r))
  /\ WF_vars(AdminDown)
  /\ WF_vars(HandlerRestart)

---------------------------------------------------------------------------
(* Properties. *)

\* A command is executed at most once and has one outcome: however often the
\* watcher is told of its file, whether the boot-time scan or an event comes
\* first, and whatever timer races a late result, it is not run again and its
\* result does not go to both completed/ and failed/.  Commands that recovery
\* has put back into the queue are left out: they are executed again.
OneOutcome == \A c \in Cmds \ requeued : runs[c] <= 1 /\ Cardinality(answers[c]) <= 1

\* Why OneOutcome holds.  A dispatch request is the only message of its reference,
\* and comes before its Task, its timer and its entry in the pending map ...
MailInv ==
  /\ \A r \in Refs : r \in pending \/ task[r] # "none" => cmdOf[r] # NoCmd
  /\ \A i \in DOMAIN mailbox :
       LET r == mailbox[i].ref IN
         /\ cmdOf[r] # NoCmd
         /\ mailbox[i].type = "timeout" => r \notin timers
         /\ mailbox[i].type = "dispatch_command" =>
              /\ r \notin pending /\ task[r] = "none"
              /\ \A j \in DOMAIN mailbox : mailbox[j].ref = r => j = i

\* ... and a command passes through each station of the queue once: its file in
\* pending/, the watcher's hands, one dispatch, and then one result.
Fresh(c) == runs[c] = 0 /\ answers[c] = {}

QueueInv(c) ==
  /\ client[c].pc = "idle" => ~Has("pending", c)
  /\ watcher.moved = c => client[c].pc # "idle" /\ ~Has("pending", c)
  /\ client[c].pc = "idle" \/ Has("pending", c) \/ watcher.moved = c =>
       Fresh(c) /\ \A r \in Refs : cmdOf[r] # c
  /\ \A r, q \in Refs : cmdOf[r] = c /\ cmdOf[q] = c => r = q
  /\ \A i \in DOMAIN mailbox :
       mailbox[i].type = "dispatch_command" /\ cmdOf[mailbox[i].ref] = c => Fresh(c)
  /\ \A r \in pending : cmdOf[r] = c => answers[c] = {}
  /\ runs[c] <= 1
  /\ answers[c] = {} \/ \E dir \in {"completed", "failed"} : answers[c] = {dir}

OutcomeInv == MailInv /\ \A c \in Cmds \ requeued : QueueInv(c)

\* Wherever a process or the runtime dies, a submitted command keeps a file in
\* one of the four directories until the janitor removes its result.
NoLostCommand ==
  \A c \in Cmds :
    client[c].pc # "idle" /\ c \notin swept => \E dir \in Dirs : Has(dir, c)

\* Every well-formed command in pending/ is picked up, even if its event was
\* lost in a crash or was sent before the watcher subscribed.
PendingPickedUp ==
  \A c \in Cmds \ Malformed : Has("pending", c) ~> ~Has("pending", c)

\* Without crashes every well-formed command gets a result, even if its Task
\* hangs or dies without a word.
CommandSettles ==
  [](crashes = 0) =>
    \A c \in Cmds \ Malformed : (client[c].pc # "idle") ~> (answers[c] # {})

\* Stated by the watcher: a file returned to pending/ was stranded by a crash,
\* so nobody is still working on its command.
RequeuedOnlyStranded ==
  [][\A c \in requeued' \ requeued : \A r \in pending : cmdOf[r] # c]_vars
=============================================================================
