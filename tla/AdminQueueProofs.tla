--------------------------- MODULE AdminQueueProofs ---------------------------
(***************************************************************************)
(* Proofs about AdminQueue, for any commands, references and crashes.      *)
(***************************************************************************)
EXTENDS AdminQueue, FiniteSetTheorems, TLAPS

USE DEF vars, fileVars, watcherVars, handlerVars, taskVars, histVars

---------------------------------------------------------------------------
(* Types *)

Disks == [Dirs -> [Cmds -> Contents]]

\* A rename between two directories, and the result file that is moved over.
LEMMA RenameTyped ==
  ASSUME disk \in Disks, NEW from \in Dirs, NEW to \in Dirs, NEW c \in Cmds
  PROVE  Rename(from, to, c) \in Disks
  BY DEF Rename, Disks, Contents, Absent

LEMMA FinishTyped ==
  ASSUME TypeOK, NEW proc \in {"handler", "watcher"}, NEW c \in Cmds, NEW result \in Results,
         Finish(proc, c, result)
  PROVE  /\ disk' \in Disks
         /\ finishing' \in [{"handler", "watcher"} -> Finishes]
         /\ answers' \in [Cmds -> SUBSET {"completed", "failed"}]
<1>1. DirFor(result) \in {"completed", "failed"} /\ DirFor(result) \in Dirs /\ "processing" \in Dirs
  BY DEF DirFor, Dirs
<1>2. disk \in Disks
  BY DEF TypeOK, Disks
<1>3. disk' \in Disks
  BY <1>1, <1>2, RenameTyped DEF Finish, MoveResult
<1>4. [cmd |-> c, result |-> result] \in Finishes
  BY DEF Finishes
<1>5. finishing' \in [{"handler", "watcher"} -> Finishes]
  BY <1>4 DEF Finish, TypeOK
<1>6. answers[c] \cup {DirFor(result)} \in SUBSET {"completed", "failed"}
  BY <1>1 DEF TypeOK
<1>7. answers' \in [Cmds -> SUBSET {"completed", "failed"}]
  BY <1>6 DEF Finish, TypeOK
<1>8. QED
  BY <1>3, <1>5, <1>7

\* What a message carries.
LEMMA MessageFields ==
  ASSUME NEW m \in Messages
  PROVE  /\ m.ref \in Refs
         /\ m.type = "command_result" => m.result \in Results
  BY DEF Messages

LEMMA TakeTyped ==
  ASSUME TypeOK, NEW type, Take(type)
  PROVE  /\ Head(mailbox) \in Messages /\ Head(mailbox).ref \in Refs
         /\ mailbox' \in Seq(Messages)
  BY MessageFields DEF TypeOK, Take

LEMMA AppendTyped ==
  ASSUME NEW S, NEW q \in Seq(S), NEW e \in S
  PROVE  Append(q, e) \in Seq(S)
  OBVIOUS

LEMMA TypeInit == Init => TypeOK
  BY ConstAssumption DEF Init, TypeOK, Dirs, Contents, Absent, WatcherDown, Finishes, Clients

\* The files and the CLI.
LEMMA ClientTyped ==
  ASSUME TypeOK,
         NEW c \in Cmds,
         \/ TenMinutes(c) \/ Submit(c) \/ Poll(c) \/ PollTimeout(c)
         \/ \E dir \in Dirs : Sweep(dir, c)
  PROVE  TypeOK'
<1>1. CASE TenMinutes(c)
  BY <1>1 DEF TypeOK, TenMinutes
<1>2. CASE Submit(c)
  <2>1. disk' \in Disks
    BY <1>2 DEF TypeOK, Submit, Disks, Dirs, Contents
  <2>2. Waiting \in Clients
    BY DEF Waiting, Clients
  <2>3. events' \in Seq(Cmds)
    BY <1>2, AppendTyped DEF TypeOK, Submit, Notify
  <2>4. QED
    BY <1>2, <2>1, <2>2, <2>3 DEF TypeOK, Submit, Disks
<1>3. CASE Poll(c)
  <2>1. PICK dir \in {"completed", "failed"} :
          /\ Has(dir, c)
          /\ client' = [client EXCEPT ![c] =
               IF disk[dir][c] = "malformed" THEN [pc |-> "timeout"]
               ELSE [pc |-> "read", dir |-> dir, content |-> disk[dir][c]]]
    BY <1>3 DEF Poll
  <2>2. disk[dir][c] \in Contents \ {Absent}
    BY <2>1 DEF TypeOK, Has, Dirs
  <2>3. /\ [pc |-> "read", dir |-> dir, content |-> disk[dir][c]] \in Clients
        /\ [pc |-> "timeout"] \in Clients
    BY <2>2 DEF Clients
  <2>4. QED
    BY <1>3, <2>1, <2>3 DEF TypeOK, Poll
<1>4. CASE PollTimeout(c)
  <2>1. [pc |-> "timeout"] \in Clients
    BY DEF Clients
  <2>2. QED
    BY <1>4, <2>1 DEF TypeOK, PollTimeout
<1>5. ASSUME NEW dir \in Dirs, Sweep(dir, c)  PROVE TypeOK'
  <2>1. disk' \in Disks
    BY <1>5 DEF TypeOK, Sweep, Disks, Contents, Absent
  <2>2. QED
    BY <1>5, <2>1 DEF TypeOK, Sweep, Disks
<1>6. QED
  BY <1>1, <1>2, <1>3, <1>4, <1>5

LEMMA WriteTyped ==
  ASSUME TypeOK, NEW proc \in {"handler", "watcher"}, FinishWrite(proc)
  PROVE  TypeOK' /\ finishing[proc].cmd \in Cmds /\ finishing[proc].result \in Results
<1>1. finishing[proc] \in Finishes /\ finishing[proc] # NoFinish
  BY DEF TypeOK, FinishWrite
<1>2. finishing[proc].cmd \in Cmds /\ finishing[proc].result \in Results
  BY <1>1 DEF Finishes
<1> DEFINE dir == DirFor(finishing[proc].result)
           c == finishing[proc].cmd
<1>3. /\ dir \in Dirs /\ disk \in Disks /\ disk[dir][c] \in Contents
      /\ finishing[proc].result \in Contents /\ "malformed" \in Contents
  BY <1>2 DEF TypeOK, Disks, DirFor, Dirs, Results, Contents
<1>4. disk' \in Disks
  <2>1. PICK written \in {finishing[proc].result, disk[dir][c], "malformed"} :
          disk' = [disk EXCEPT ![dir][c] = written]
    BY DEF FinishWrite
  <2> HIDE DEF dir, c
  <2>2. written \in Contents
    BY <1>3, <2>1
  <2>3. QED
    BY <1>3, <2>1, <2>2 DEF Disks
<1>5. NoFinish \in Finishes
  BY DEF Finishes
<1>6. QED
  BY <1>2, <1>4, <1>5 DEF TypeOK, FinishWrite, Disks

\* The watcher takes a file out of pending/.
LEMMA StartTyped ==
  ASSUME TypeOK, NEW c \in Cmds, NEW queue \in Seq(Cmds), StartProcessing(c, queue)
  PROVE  disk' \in Disks /\ events' \in Seq(Cmds)
  BY RenameTyped, AppendTyped DEF StartProcessing, TypeOK, Disks, Dirs

LEMMA WatcherTyped ==
  ASSUME TypeOK, WatcherStep
  PROVE  TypeOK'
<1>1. CASE WatcherInit
  <2>1. disk' \in Disks
    <3> DEFINE a == [c \in Cmds |-> IF c \in StaleProcessing THEN disk["processing"][c] ELSE disk["pending"][c]]
               b == [c \in Cmds |-> IF c \in StaleProcessing THEN Absent ELSE disk["processing"][c]]
    <3>1. disk \in Disks /\ "pending" \in Dirs /\ "processing" \in Dirs
      BY DEF TypeOK, Disks, Dirs
    <3>2. a \in [Cmds -> Contents] /\ b \in [Cmds -> Contents]
      BY <3>1 DEF Disks, Contents, Absent
    <3>3. disk' = [disk EXCEPT !["pending"] = a, !["processing"] = b]
      BY <1>1 DEF WatcherInit
    <3> HIDE DEF a, b
    <3>4. QED
      BY <3>1, <3>2, <3>3 DEF Disks
  <2>2. requeued' \in SUBSET Cmds
    BY <1>1 DEF TypeOK, WatcherInit, StaleProcessing
  <2>3. QED
    BY <1>1, <2>1, <2>2 DEF TypeOK, WatcherInit, Disks
<1>2. CASE ScanOrphans
  BY <1>2 DEF TypeOK, ScanOrphans, Orphans
<1>3. CASE ScanDone
  BY <1>3 DEF TypeOK, ScanDone
<1>4. CASE FileEvent
  <2>1. Head(events) \in Cmds /\ Tail(events) \in Seq(Cmds)
    BY <1>4 DEF TypeOK, FileEvent
  <2>2. disk' \in Disks /\ events' \in Seq(Cmds)
    BY <1>4, <2>1, StartTyped DEF FileEvent, TypeOK, Disks
  <2>3. QED
    BY <1>4, <2>1, <2>2 DEF TypeOK, FileEvent, Disks
<1>5. ASSUME NEW c \in Cmds, ScanFile(c)  PROVE TypeOK'
  <2>1. disk' \in Disks /\ events' \in Seq(Cmds)
    BY <1>5, StartTyped DEF ScanFile, TypeOK, Disks
  <2>2. QED
    BY <1>5, <2>1 DEF TypeOK, ScanFile, Disks
<1>6. ASSUME NEW r \in Refs, DispatchCommand(r)  PROVE TypeOK'
  <2>1. watcher.moved \in Cmds
    BY <1>6 DEF TypeOK, DispatchCommand
  <2>2. [type |-> "dispatch_command", ref |-> r] \in Messages
    BY DEF Messages
  <2>3. mailbox' \in Seq(Messages)
    <3>1. mailbox' = mailbox \/ mailbox' = Append(mailbox, [type |-> "dispatch_command", ref |-> r])
      BY <1>6 DEF DispatchCommand
    <3>2. QED
      <4>1. mailbox \in Seq(Messages)
        BY DEF TypeOK
      <4>2. Append(mailbox, [type |-> "dispatch_command", ref |-> r]) \in Seq(Messages)
        BY <2>2, <4>1, AppendTyped
      <4>3. QED
        BY <3>1, <4>1, <4>2
  <2>4. /\ disk' \in Disks /\ finishing' \in [{"handler", "watcher"} -> Finishes]
        /\ answers' \in [Cmds -> SUBSET {"completed", "failed"}]
    BY <1>6, <2>1, FinishTyped DEF DispatchCommand, TypeOK, Disks, Results
  <2>5. QED
    BY <1>6, <2>1, <2>3, <2>4 DEF TypeOK, DispatchCommand, Disks
<1>7. CASE FinishWrite("watcher")
  BY <1>7, WriteTyped
<1>8. QED
  BY <1>1, <1>2, <1>3, <1>4, <1>5, <1>6, <1>7 DEF WatcherStep

\* The handler answers, or not: what its clauses have in common.
LEMMA HandlerTyped ==
  ASSUME TypeOK, MailInv, HandlerStep
  PROVE  TypeOK'
<1> DEFINE m == Head(mailbox)
<1>1. ASSUME NEW type, Take(type)
      PROVE /\ m \in Messages /\ m.ref \in Refs /\ mailbox' \in Seq(Messages)
            /\ m.type = "dispatch_command" => cmdOf[m.ref] \in Cmds
            /\ m.type = "command_result" => cmdOf[m.ref] \in Cmds /\ m.result \in Results
            /\ m.type = "timeout" => cmdOf[m.ref] \in Cmds /\ m.ref \notin timers
  <2>1. m \in Messages /\ m.ref \in Refs /\ mailbox' \in Seq(Messages)
    BY <1>1, TakeTyped
  <2>2. 1 \in DOMAIN mailbox /\ m = mailbox[1]
    BY <1>1 DEF Take, TypeOK
  <2>3. cmdOf[m.ref] # NoCmd /\ (m.type = "timeout" => m.ref \notin timers)
    BY <2>2 DEF MailInv
  <2>4. cmdOf[m.ref] \in Cmds
    BY <2>1, <2>3 DEF TypeOK
  <2>5. QED
    BY <2>1, <2>3, <2>4, MessageFields
<1> HIDE DEF m
<1>2. CASE HandleRefused
  <2>1. Take("dispatch_command") /\ m.type = "dispatch_command"
    BY <1>2 DEF HandleRefused, Take, m
  <2>2. Finish("handler", cmdOf[m.ref], "error")
    BY <1>2 DEF HandleRefused, m
  <2>3. /\ disk' \in Disks /\ finishing' \in [{"handler", "watcher"} -> Finishes]
        /\ answers' \in [Cmds -> SUBSET {"completed", "failed"}]
    BY <1>1, <2>1, <2>2, FinishTyped DEF Results
  <2>4. mailbox' \in Seq(Messages)
    BY <1>1, <2>1
  <2>5. QED
    BY <1>2, <2>3, <2>4 DEF TypeOK, HandleRefused, Disks
<1>3. CASE HandleDispatch
  <2>1. Take("dispatch_command") /\ m.type = "dispatch_command"
    BY <1>3 DEF HandleDispatch, Take, m
  <2>2. m.ref \in Refs /\ cmdOf[m.ref] \in Cmds /\ mailbox' \in Seq(Messages)
    BY <1>1, <2>1
  <2>3. QED
    BY <1>3, <2>2 DEF TypeOK, HandleDispatch, ArmTimer, m
<1>4. CASE HandleResult
  <2>1. Take("command_result") /\ m.type = "command_result"
    BY <1>4 DEF HandleResult, Take, m
  <2>2. m.result \in Results /\ cmdOf[m.ref] \in Cmds /\ mailbox' \in Seq(Messages)
    BY <1>1, <2>1
  <2>3. CASE /\ pending' = PopRef(m.ref) /\ timers' = timers \ {m.ref}
             /\ Finish("handler", cmdOf[m.ref], m.result)
    <3>1. /\ disk' \in Disks /\ finishing' \in [{"handler", "watcher"} -> Finishes]
          /\ answers' \in [Cmds -> SUBSET {"completed", "failed"}]
      BY <2>2, <2>3, FinishTyped
    <3>2. QED
      BY <1>4, <2>2, <2>3, <3>1 DEF TypeOK, HandleResult, PopRef, Disks
  <2>4. CASE UNCHANGED <<pending, timers, disk, finishing, answers>>
    BY <1>4, <2>2, <2>4 DEF TypeOK, HandleResult
  <2>5. QED
    BY <1>4, <2>3, <2>4 DEF HandleResult, m
<1>5. CASE HandleTimeout
  <2>1. Take("timeout") /\ m.type = "timeout"
    BY <1>5 DEF HandleTimeout, Take, m
  <2>2. m.ref \notin timers /\ cmdOf[m.ref] \in Cmds /\ mailbox' \in Seq(Messages)
    BY <1>1, <2>1
  <2>3. CASE pending' = PopRef(m.ref) /\ Finish("handler", cmdOf[m.ref], "error")
    <3>1. /\ disk' \in Disks /\ finishing' \in [{"handler", "watcher"} -> Finishes]
          /\ answers' \in [Cmds -> SUBSET {"completed", "failed"}]
      BY <2>2, <2>3, FinishTyped DEF Results
    <3>2. QED
      BY <1>5, <2>2, <2>3, <3>1 DEF TypeOK, HandleTimeout, PopRef, Disks
  <2>4. CASE UNCHANGED <<pending, disk, finishing, answers>>
    BY <1>5, <2>2, <2>4 DEF TypeOK, HandleTimeout
  <2>5. QED
    BY <1>5, <2>3, <2>4 DEF HandleTimeout, m
<1>6. CASE FinishWrite("handler")
  BY <1>6, WriteTyped
<1>7. QED
  BY <1>2, <1>3, <1>4, <1>5, <1>6 DEF HandlerStep

LEMMA RestTyped ==
  ASSUME TypeOK,
         \/ \E r \in Refs : TimerFires(r) \/ TaskReturns(r) \/ TaskDies(r)
         \/ HandlerCrash \/ AdminDown \/ HandlerRestart \/ WatcherCrash \/ RuntimeRestart
  PROVE  TypeOK'
<1>1. ASSUME NEW r \in Refs, TimerFires(r)  PROVE TypeOK'
  <2>1. [type |-> "timeout", ref |-> r] \in Messages
    BY DEF Messages
  <2>2. mailbox' \in Seq(Messages)
    BY <1>1, <2>1, AppendTyped DEF TimerFires, TypeOK
  <2>3. QED
    BY <1>1, <2>2 DEF TypeOK, TimerFires
<1>2. ASSUME NEW r \in Refs, TaskReturns(r)  PROVE TypeOK'
  <2>1. \A result \in Results : [type |-> "command_result", ref |-> r, result |-> result] \in Messages
    BY DEF Messages
  <2>2. mailbox' \in Seq(Messages)
    <3>1. mailbox \in Seq(Messages)
      BY DEF TypeOK
    <3>2. \A result \in Results :
            Append(mailbox, [type |-> "command_result", ref |-> r, result |-> result]) \in Seq(Messages)
      BY <2>1, <3>1, AppendTyped
    <3>3. QED
      BY <1>2, <3>1, <3>2 DEF TaskReturns
  <2>3. QED
    BY <1>2, <2>2 DEF TypeOK, TaskReturns
<1>3. ASSUME NEW r \in Refs, TaskDies(r)  PROVE TypeOK'
  BY <1>3 DEF TypeOK, TaskDies
<1>4. CASE HandlerCrash
  <2>1. task' \in [Refs -> {"none", "running", "orphaned", "over"}]
    BY <1>4 DEF HandlerCrash, Orphan, TypeOK
  <2>2. NoFinish \in Finishes
    BY DEF Finishes
  <2>3. QED
    BY <1>4, <2>1, <2>2 DEF TypeOK, HandlerCrash, MayCrash
<1>5. CASE AdminDown \/ HandlerRestart
  BY <1>5 DEF TypeOK, AdminDown, HandlerRestart
<1>6. CASE WatcherCrash
  <2>1. NoFinish \in Finishes
    BY DEF Finishes
  <2>2. QED
    BY <1>6, <2>1, ConstAssumption DEF TypeOK, WatcherCrash, MayCrash, WatcherDown
<1>7. CASE RuntimeRestart
  <2>1. NoFinish \in Finishes
    BY DEF Finishes
  <2>2. task' \in [Refs -> {"none", "running", "orphaned", "over"}]
    BY <1>7 DEF RuntimeRestart, TypeOK
  <2>3. QED
    BY <1>7, <2>1, <2>2, ConstAssumption DEF TypeOK, RuntimeRestart, MayCrash, WatcherDown
<1>8. QED
  BY <1>1, <1>2, <1>3, <1>4, <1>5, <1>6, <1>7

LEMMA TypeStep ==
  ASSUME TypeOK, MailInv, [Next]_vars
  PROVE  TypeOK'
<1>1. CASE UNCHANGED vars
  BY <1>1 DEF TypeOK
<1>2. QED
  BY <1>1, ClientTyped, WatcherTyped, HandlerTyped, RestTyped DEF Next

---------------------------------------------------------------------------
(* The handler's mailbox *)

mailVars == <<cmdOf, task, pending, timers, mailbox>>

\* A message at the end of the mailbox, and one taken from its front.
LEMMA Appended ==
  ASSUME TypeOK, NEW m \in Messages, mailbox' = Append(mailbox, m)
  PROVE  /\ Len(mailbox) \in Nat /\ DOMAIN mailbox = 1..Len(mailbox)
         /\ DOMAIN mailbox' = 1..(Len(mailbox) + 1)
         /\ mailbox'[Len(mailbox) + 1] = m
         /\ \A i \in DOMAIN mailbox' : i = Len(mailbox) + 1 \/ i \in DOMAIN mailbox
         /\ \A i \in DOMAIN mailbox : mailbox'[i] = mailbox[i] /\ i # Len(mailbox) + 1
  BY DEF TypeOK

LEMMA Taken ==
  ASSUME TypeOK, NEW type, Take(type)
  PROVE  /\ 1 \in DOMAIN mailbox /\ Head(mailbox) = mailbox[1] /\ mailbox[1].type = type
         /\ DOMAIN mailbox' \subseteq Nat \ {0}
         /\ \A i \in DOMAIN mailbox' : /\ i + 1 \in DOMAIN mailbox /\ i + 1 # 1
                                       /\ mailbox'[i] = mailbox[i + 1]
<1>1. mailbox \in Seq(Messages) /\ mailbox # << >> /\ mailbox' = Tail(mailbox)
  BY DEF TypeOK, Take
<1>2. QED
  BY <1>1 DEF Take

LEMMA MailInit == Init => MailInv
  BY DEF Init, MailInv

\* A message was taken, and nothing new holds a reference back.
LEMMA TakenKeeps ==
  ASSUME TypeOK, MailInv, NEW type, Take(type),
         UNCHANGED <<cmdOf, task>>, pending' \subseteq pending, timers' \subseteq timers
  PROVE  MailInv'
<1>1. ASSUME NEW i \in DOMAIN mailbox'
      PROVE LET r == mailbox'[i].ref IN
              /\ cmdOf'[r] # NoCmd
              /\ mailbox'[i].type = "timeout" => r \notin timers'
              /\ mailbox'[i].type = "dispatch_command" =>
                   /\ r \notin pending' /\ task'[r] = "none"
                   /\ \A j \in DOMAIN mailbox' : mailbox'[j].ref = r => j = i
  <2>1. /\ i + 1 \in DOMAIN mailbox /\ mailbox'[i] = mailbox[i + 1] /\ i \in Nat
        /\ \A j \in DOMAIN mailbox' : /\ j + 1 \in DOMAIN mailbox /\ mailbox'[j] = mailbox[j + 1]
                                      /\ j \in Nat
    BY Taken
  <2>2. \A j \in Nat : j + 1 = i + 1 => j = i
    BY <2>1
  <2>3. QED
    BY <2>1, <2>2 DEF MailInv
<1>2. \A r \in Refs : r \in pending' \/ task'[r] # "none" => cmdOf'[r] # NoCmd
  BY DEF MailInv
<1>3. QED
  BY <1>1, <1>2 DEF MailInv

\* A message is sent for a dispatch that is under way.
LEMMA AppendedKeeps ==
  ASSUME TypeOK, MailInv, NEW m \in Messages, mailbox' = Append(mailbox, m),
         UNCHANGED <<cmdOf, pending>>, timers' \subseteq timers,
         m.type # "dispatch_command", m.type = "timeout" => m.ref \notin timers',
         m.ref \in pending \/ task[m.ref] # "none",
         \A r \in Refs : task'[r] = "none" <=> task[r] = "none"
  PROVE  MailInv'
<1>1. m.ref \in Refs /\ cmdOf[m.ref] # NoCmd
  BY MessageFields DEF MailInv
<1>2. ASSUME NEW i \in DOMAIN mailbox
      PROVE LET r == mailbox'[i].ref IN
              /\ cmdOf'[r] # NoCmd
              /\ mailbox'[i].type = "timeout" => r \notin timers'
              /\ mailbox'[i].type = "dispatch_command" =>
                   /\ r \notin pending' /\ task'[r] = "none"
                   /\ \A j \in DOMAIN mailbox' : mailbox'[j].ref = r => j = i
  <2>1. mailbox'[i] = mailbox[i] /\ mailbox[i].ref \in Refs
    BY Appended, MessageFields, mailbox[i] \in Messages DEF TypeOK
  <2>2. cmdOf[mailbox[i].ref] # NoCmd /\ (mailbox[i].type = "timeout" => mailbox[i].ref \notin timers)
    BY DEF MailInv
  <2>3. ASSUME mailbox[i].type = "dispatch_command"
        PROVE /\ mailbox[i].ref \notin pending /\ task[mailbox[i].ref] = "none"
              /\ \A j \in DOMAIN mailbox' : mailbox'[j].ref = mailbox[i].ref => j = i
    <3>1. /\ mailbox[i].ref \notin pending /\ task[mailbox[i].ref] = "none"
          /\ \A j \in DOMAIN mailbox : mailbox[j].ref = mailbox[i].ref => j = i
      BY <2>3 DEF MailInv
    <3>2. m.ref # mailbox[i].ref
      BY <3>1
    <3>3. QED
      BY <3>1, <3>2, Appended
  <2>4. QED
    BY <2>1, <2>2, <2>3
<1>3. \A r \in Refs : r \in pending' \/ task'[r] # "none" => cmdOf'[r] # NoCmd
  BY DEF MailInv
<1>4. QED
  BY <1>1, <1>2, <1>3, Appended DEF MailInv

\* A dispatch request goes out under an unused reference.
LEMMA DispatchMail ==
  ASSUME TypeOK, MailInv, NEW r \in Refs, DispatchCommand(r)
  PROVE  MailInv'
<1> DEFINE m == [type |-> "dispatch_command", ref |-> r]
<1>1. /\ cmdOf[r] = NoCmd /\ watcher.moved # NoCmd
      /\ cmdOf' = [cmdOf EXCEPT ![r] = watcher.moved]
      /\ UNCHANGED <<task, pending, timers>>
      /\ mailbox' = mailbox \/ mailbox' = Append(mailbox, m)
  BY DEF DispatchCommand, Unused
<1>2. r \notin pending /\ task[r] = "none"
  BY <1>1 DEF MailInv
<1>3. \A i \in DOMAIN mailbox : mailbox[i].ref \in Refs /\ mailbox[i].ref # r
  <2>1. \A i \in DOMAIN mailbox : mailbox[i] \in Messages
    BY DEF TypeOK
  <2>2. QED
    BY <1>1, <2>1, MessageFields DEF MailInv
<1>4. \A q \in Refs : cmdOf[q] # NoCmd => cmdOf'[q] # NoCmd
  BY <1>1 DEF TypeOK
<1>5. cmdOf'[r] # NoCmd
  BY <1>1 DEF TypeOK
<1>6. \A q \in Refs : q \in pending' \/ task'[q] # "none" => cmdOf'[q] # NoCmd
  BY <1>1, <1>4 DEF MailInv
<1>7. CASE mailbox' = mailbox
  BY <1>1, <1>3, <1>4, <1>6, <1>7 DEF MailInv
<1>8. CASE mailbox' = Append(mailbox, m)
  <2>1. m \in Messages /\ m.ref = r /\ m.type = "dispatch_command"
    BY DEF Messages
  <2> HIDE DEF m
  <2>2. ASSUME NEW i \in DOMAIN mailbox
        PROVE LET q == mailbox'[i].ref IN
                /\ cmdOf'[q] # NoCmd
                /\ mailbox'[i].type = "timeout" => q \notin timers'
                /\ mailbox'[i].type = "dispatch_command" =>
                     /\ q \notin pending' /\ task'[q] = "none"
                     /\ \A j \in DOMAIN mailbox' : mailbox'[j].ref = q => j = i
    BY <1>1, <1>3, <1>4, <1>8, <2>1, Appended DEF MailInv
  <2>3. \A j \in DOMAIN mailbox' : mailbox'[j].ref = r => j = Len(mailbox) + 1
    BY <1>3, <1>8, <2>1, Appended
  <2>4. QED
    BY <1>1, <1>2, <1>5, <1>6, <1>8, <2>1, <2>2, <2>3, Appended DEF MailInv
<1>9. QED
  BY <1>1, <1>7, <1>8

\* The request is taken: from here on there is a Task, a timer and an entry.
LEMMA StartedMail ==
  ASSUME TypeOK, MailInv, HandleDispatch
  PROVE  MailInv'
<1> DEFINE r == mailbox[1].ref
<1>1. /\ pending' = pending \cup {r} /\ timers' = timers \cup {r}
      /\ task' = [task EXCEPT ![r] = "running"] /\ UNCHANGED cmdOf
  BY Taken DEF HandleDispatch, ArmTimer
<1>2. Take("dispatch_command")
  BY DEF HandleDispatch
<1>3. 1 \in DOMAIN mailbox /\ mailbox[1].type = "dispatch_command"
  BY <1>2, Taken
<1>4. cmdOf[r] # NoCmd /\ \A j \in DOMAIN mailbox : mailbox[j].ref = r => j = 1
  BY <1>3 DEF MailInv
<1>5. ASSUME NEW i \in DOMAIN mailbox'
      PROVE LET q == mailbox'[i].ref IN
              /\ cmdOf'[q] # NoCmd
              /\ mailbox'[i].type = "timeout" => q \notin timers'
              /\ mailbox'[i].type = "dispatch_command" =>
                   /\ q \notin pending' /\ task'[q] = "none"
                   /\ \A j \in DOMAIN mailbox' : mailbox'[j].ref = q => j = i
  <2>1. /\ i + 1 \in DOMAIN mailbox /\ mailbox'[i] = mailbox[i + 1] /\ i \in Nat /\ i + 1 # 1
        /\ \A j \in DOMAIN mailbox' : /\ j + 1 \in DOMAIN mailbox /\ mailbox'[j] = mailbox[j + 1]
                                      /\ j \in Nat
    BY <1>2, Taken
  <2>2. \A j \in Nat : j + 1 = i + 1 => j = i
    BY <2>1
  <2>3. mailbox[i + 1].ref # r /\ mailbox[i + 1].ref \in Refs
    BY <1>4, <2>1, MessageFields, mailbox[i + 1] \in Messages DEF TypeOK
  <2>4. task'[mailbox[i + 1].ref] = task[mailbox[i + 1].ref]
    BY <1>1, <2>3 DEF TypeOK
  <2> HIDE DEF r
  <2>5. QED
    BY <1>1, <2>1, <2>2, <2>3, <2>4 DEF MailInv
<1>6. \A q \in Refs : q \in pending' \/ task'[q] # "none" => cmdOf'[q] # NoCmd
  BY <1>1, <1>4 DEF MailInv, TypeOK
<1>7. QED
  BY <1>5, <1>6 DEF MailInv

LEMMA MailStep ==
  ASSUME TypeOK, MailInv, [Next]_vars
  PROVE  MailInv'
<1>1. CASE UNCHANGED mailVars
  BY <1>1 DEF MailInv, mailVars
<1>2. CASE HandleRefused \/ HandleResult \/ HandleTimeout
  <2>1. PICK type : Take(type)
    BY <1>2 DEF HandleRefused, HandleResult, HandleTimeout
  <2>2. UNCHANGED <<cmdOf, task>> /\ pending' \subseteq pending /\ timers' \subseteq timers
    BY <1>2 DEF HandleRefused, HandleResult, HandleTimeout, PopRef
  <2>3. QED
    BY <2>1, <2>2, TakenKeeps
<1>3. CASE HandleDispatch
  BY <1>3, StartedMail
<1>4. ASSUME NEW r \in Refs, DispatchCommand(r)  PROVE MailInv'
  BY <1>4, DispatchMail
<1>5. ASSUME NEW r \in Refs, TimerFires(r)  PROVE MailInv'
  <2> DEFINE m == [type |-> "timeout", ref |-> r]
  <2>1. m \in Messages /\ m.type = "timeout" /\ m.ref = r
    BY DEF Messages
  <2>2. /\ mailbox' = Append(mailbox, m) /\ UNCHANGED <<cmdOf, pending, task>>
        /\ timers' \subseteq timers /\ r \notin timers' /\ r \in pending
    BY <1>5 DEF TimerFires, TypeOK
  <2> HIDE DEF m
  <2>3. QED
    BY <2>1, <2>2, AppendedKeeps
<1>6. ASSUME NEW r \in Refs, TaskReturns(r) \/ TaskDies(r)  PROVE MailInv'
  <2>1. /\ task[r] # "none" /\ task' = [task EXCEPT ![r] = "over"]
        /\ UNCHANGED <<cmdOf, pending, timers>>
    BY <1>6 DEF TaskReturns, TaskDies
  <2>2. \A q \in Refs : task'[q] = "none" <=> task[q] = "none"
    BY <2>1 DEF TypeOK
  <2>3. CASE UNCHANGED mailbox
    <3>1. \A i \in DOMAIN mailbox : mailbox[i].ref \in Refs
      <4>1. \A i \in DOMAIN mailbox : mailbox[i] \in Messages
        BY DEF TypeOK
      <4>2. QED
        BY <4>1, MessageFields
    <3>2. QED
      BY <2>1, <2>2, <2>3, <3>1 DEF MailInv
  <2>4. ASSUME NEW result \in Results,
               mailbox' = Append(mailbox, [type |-> "command_result", ref |-> r, result |-> result])
        PROVE MailInv'
    <3> DEFINE m == [type |-> "command_result", ref |-> r, result |-> result]
    <3>1. m \in Messages /\ m.type = "command_result" /\ m.ref = r
      BY DEF Messages
    <3>2. mailbox' = Append(mailbox, m)
      BY <2>4
    <3> HIDE DEF m
    <3>3. QED
      BY <2>1, <2>2, <3>1, <3>2, AppendedKeeps
  <2>5. QED
    BY <1>6, <2>3, <2>4 DEF TaskReturns, TaskDies
<1>7. CASE HandlerCrash \/ RuntimeRestart
  <2>1. /\ mailbox' = << >> /\ pending' = {} /\ UNCHANGED cmdOf
        /\ \A q \in Refs : task'[q] = "none" <=> task[q] = "none"
    BY <1>7 DEF HandlerCrash, RuntimeRestart, Orphan
  <2>2. QED
    BY <2>1 DEF MailInv
<1>8. QED
  <2>1. CASE \E c \in Cmds : \/ Submit(c) \/ Poll(c) \/ PollTimeout(c) \/ TenMinutes(c) \/ ScanFile(c)
                             \/ \E dir \in Dirs : Sweep(dir, c)
    BY <1>1, <2>1 DEF mailVars, Submit, Poll, PollTimeout, TenMinutes, ScanFile, Sweep
  <2>2. CASE \/ WatcherInit \/ ScanOrphans \/ ScanDone \/ FileEvent
             \/ FinishWrite("watcher") \/ FinishWrite("handler")
    BY <1>1, <2>2 DEF mailVars, WatcherInit, ScanOrphans, ScanDone, FileEvent, FinishWrite
  <2>3. CASE AdminDown \/ HandlerRestart \/ WatcherCrash \/ UNCHANGED vars
    BY <1>1, <2>3 DEF mailVars, AdminDown, HandlerRestart, WatcherCrash
  <2>4. QED
    BY <1>2, <1>3, <1>4, <1>5, <1>6, <1>7, <2>1, <2>2, <2>3 DEF Next, WatcherStep, HandlerStep

\* The state has its types, and timers only run for dispatches that wait.
THEOREM QueueTypeCorrect == Spec => [](TypeOK /\ MailInv)
<1>1. Init => TypeOK /\ MailInv
  BY TypeInit, MailInit
<1>2. TypeOK /\ MailInv /\ [Next]_vars => (TypeOK /\ MailInv)'
  BY TypeStep, MailStep
<1>3. QED
  BY <1>1, <1>2, PTL DEF Spec

---------------------------------------------------------------------------
(* Files *)

\* No step but the janitor's leaves a command without a file.
FilesKept ==
  \A c \in Cmds : (\E dir \in Dirs : Has(dir, c)) => \E dir \in Dirs : disk'[dir][c] # Absent

LEMMA RenameKeeps ==
  ASSUME TypeOK, NEW from \in Dirs, NEW to \in Dirs, from # to, NEW d \in Cmds, Has(from, d),
         disk' = Rename(from, to, d)
  PROVE  /\ FilesKept
         /\ \A dir \in Dirs \ {from, to} : disk'[dir] = disk[dir]
         /\ disk'[from][d] = Absent
         /\ \A dir \in Dirs, c \in Cmds \ {d} : disk'[dir][c] = disk[dir][c]
<1>1. disk \in Disks
  BY DEF TypeOK, Disks
<1>2. /\ disk'[to][d] = disk[from][d] /\ disk'[from][d] = Absent
      /\ \A dir \in Dirs, c \in Cmds \ {d} : disk'[dir][c] = disk[dir][c]
      /\ \A dir \in Dirs \ {from, to} : disk'[dir] = disk[dir]
  BY <1>1 DEF Rename, Disks
<1>3. ASSUME NEW c \in Cmds, NEW dir \in Dirs, Has(dir, c)
      PROVE \E e \in Dirs : disk'[e][c] # Absent
  <2>1. CASE c = d
    BY <1>2, <2>1 DEF Has
  <2>2. CASE c # d
    BY <1>2, <1>3, <2>2 DEF Has
  <2>3. QED
    BY <2>1, <2>2
<1>4. QED
  BY <1>2, <1>3 DEF FilesKept

\* A result that is moved over comes out of processing/.
LEMMA FinishKeeps ==
  ASSUME TypeOK, NEW proc, NEW c \in Cmds, NEW result \in Results, Finish(proc, c, result)
  PROVE  FilesKept /\ disk'["pending"] = disk["pending"]
<1>1. /\ DirFor(result) \in Dirs /\ DirFor(result) \notin {"processing", "pending"}
      /\ "processing" \in Dirs /\ "pending" \in Dirs
  BY DEF DirFor, Dirs
<1>2. CASE Has("processing", c)
  <2>1. disk' = Rename("processing", DirFor(result), c)
    BY <1>2 DEF Finish, MoveResult
  <2>2. QED
    BY <1>1, <1>2, <2>1, RenameKeeps
<1>3. CASE ~Has("processing", c)
  BY <1>3 DEF Finish, MoveResult, FilesKept, Has
<1>4. QED
  BY <1>2, <1>3

\* ... and one that is written over does not touch pending/.
LEMMA WriteKeeps ==
  ASSUME TypeOK, NEW proc \in {"handler", "watcher"}, FinishWrite(proc)
  PROVE  FilesKept /\ disk'["pending"] = disk["pending"]
<1> DEFINE f == finishing[proc]
           d == DirFor(f.result)
<1>1. f.cmd \in Cmds /\ f.result \in Results
  BY WriteTyped
<1>2. PICK written \in {f.result, disk[d][f.cmd], "malformed"} :
        disk' = [disk EXCEPT ![d][f.cmd] = written]
  BY DEF FinishWrite
<1>3. /\ disk \in Disks /\ d \in Dirs /\ d # "pending" /\ "pending" \in Dirs
      /\ written = Absent => disk[d][f.cmd] = Absent
  BY <1>1, <1>2 DEF TypeOK, Disks, DirFor, Dirs, Results, Absent
<1> HIDE DEF d, f
<1>4. /\ disk'["pending"] = disk["pending"]
      /\ \A e \in Dirs, c \in Cmds : disk[e][c] # Absent => disk'[e][c] # Absent
  BY <1>1, <1>2, <1>3 DEF Disks
<1>5. QED
  BY <1>3, <1>4 DEF FilesKept, Has

\* The watcher takes a file out of pending/, if it is there.
LEMMA StartKeeps ==
  ASSUME TypeOK, NEW c \in Cmds, NEW queue, Readable(c), StartProcessing(c, queue)
  PROVE  /\ FilesKept /\ Has("pending", c) /\ disk'["pending"][c] = Absent
         /\ \A d \in Cmds \ {c} : disk'["pending"][d] = disk["pending"][d]
<1>1. Has("pending", c)
  BY DEF Readable, Has, Absent
<1>2. disk' = Rename("pending", "processing", c)
  BY <1>1 DEF StartProcessing
<1>3. "pending" \in Dirs /\ "processing" \in Dirs
  BY DEF Dirs
<1>4. QED
  BY <1>1, <1>2, <1>3, RenameKeeps

\* Recovery moves files back from processing/.
LEMMA RecoverKeeps ==
  ASSUME TypeOK, WatcherInit
  PROVE  /\ FilesKept
         /\ \A c \in Cmds \ requeued' : disk'["pending"][c] = disk["pending"][c]
<1>1. /\ disk \in Disks /\ "pending" \in Dirs /\ "processing" \in Dirs
  BY DEF TypeOK, Disks, Dirs
<1>2. /\ \A c \in Cmds : disk'["pending"][c] = IF c \in StaleProcessing THEN disk["processing"][c]
                                                                   ELSE disk["pending"][c]
      /\ \A c \in Cmds : disk'["processing"][c] = IF c \in StaleProcessing THEN Absent
                                                                      ELSE disk["processing"][c]
      /\ \A dir \in Dirs \ {"pending", "processing"} : disk'[dir] = disk[dir]
  BY <1>1 DEF WatcherInit, Disks
<1>3. ASSUME NEW c \in Cmds, NEW dir \in Dirs, Has(dir, c)
      PROVE \E e \in Dirs : disk'[e][c] # Absent
  <2>1. CASE c \in StaleProcessing
    BY <1>1, <1>2, <2>1 DEF StaleProcessing, Has
  <2>2. CASE c \notin StaleProcessing
    <3>1. disk'[dir][c] = disk[dir][c]
      BY <1>2, <2>2
    <3>2. QED
      BY <1>3, <3>1 DEF Has
  <2>3. QED
    BY <2>1, <2>2
<1>4. \A c \in Cmds \ requeued' : c \notin StaleProcessing
  BY DEF WatcherInit
<1>5. QED
  BY <1>2, <1>3, <1>4 DEF FilesKept

\* Who changes files without a rename.
LEMMA DispatchKeeps ==
  ASSUME TypeOK, NEW r \in Refs, DispatchCommand(r)
  PROVE  FilesKept /\ disk'["pending"] = disk["pending"]
<1>1. watcher.moved \in Cmds
  BY DEF TypeOK, DispatchCommand
<1>2. CASE Finish("watcher", watcher.moved, "error")
  BY <1>1, <1>2, FinishKeeps DEF Results
<1>3. CASE UNCHANGED disk
  BY <1>3 DEF FilesKept, Has
<1>4. QED
  BY <1>2, <1>3 DEF DispatchCommand

LEMMA AnswerKeeps ==
  ASSUME TypeOK, MailInv, HandleRefused \/ HandleResult \/ HandleTimeout
  PROVE  FilesKept /\ disk'["pending"] = disk["pending"]
<1> DEFINE m == Head(mailbox)
<1>1. /\ m \in Messages /\ m.ref \in Refs /\ 1 \in DOMAIN mailbox /\ m = mailbox[1]
      /\ HandleResult => m.type = "command_result"
  BY TakeTyped, Taken DEF HandleRefused, HandleResult, HandleTimeout
<1>2. cmdOf[m.ref] \in Cmds
  BY <1>1 DEF MailInv, TypeOK
<1>3. HandleResult => m.result \in Results
  BY <1>1, MessageFields
<1>4. \/ UNCHANGED disk
      \/ Finish("handler", cmdOf[m.ref], "error")
      \/ HandleResult /\ Finish("handler", cmdOf[m.ref], m.result)
  BY DEF HandleRefused, HandleResult, HandleTimeout
<1>5. CASE UNCHANGED disk
  BY <1>5 DEF FilesKept, Has
<1> HIDE DEF m
<1>6. QED
  BY <1>2, <1>3, <1>4, <1>5, FinishKeeps DEF Results

\* A submitted command keeps a file until the janitor removes its result.
LEMMA LostStep ==
  ASSUME TypeOK, MailInv, NoLostCommand, [Next]_vars
  PROVE  NoLostCommand'
<1>1. ASSUME FilesKept, UNCHANGED swept, \A c \in Cmds : client'[c].pc # "idle" => client[c].pc # "idle"
      PROVE NoLostCommand'
  BY <1>1 DEF NoLostCommand, FilesKept, Has
<1>2. ASSUME NEW c \in Cmds, Submit(c)  PROVE NoLostCommand'
  <2>1. /\ disk'["pending"][c] # Absent /\ "pending" \in Dirs
        /\ \A dir \in Dirs, d \in Cmds \ {c} : disk'[dir][d] = disk[dir][d]
        /\ \A d \in Cmds \ {c} : client'[d] = client[d]
        /\ UNCHANGED swept
    BY <1>2 DEF Submit, TypeOK, Dirs, Absent
  <2>2. QED
    BY <2>1 DEF NoLostCommand, Has
<1>3. ASSUME NEW c \in Cmds, Poll(c) \/ PollTimeout(c) \/ TenMinutes(c)  PROVE NoLostCommand'
  <2>1. UNCHANGED <<disk, swept>>
    BY <1>3 DEF Poll, PollTimeout, TenMinutes
  <2>2. \A d \in Cmds : client'[d].pc # "idle" => client[d].pc # "idle"
    BY <1>3 DEF Poll, PollTimeout, TenMinutes, TypeOK, Waiting
  <2>3. QED
    BY <2>1, <2>2 DEF NoLostCommand, Has
<1>4. ASSUME NEW c \in Cmds, NEW dir \in Dirs, Sweep(dir, c)  PROVE NoLostCommand'
  <2>1. /\ \A e \in Dirs, d \in Cmds \ {c} : disk'[e][d] = disk[e][d]
        /\ swept' = swept \cup {c} /\ UNCHANGED client
    BY <1>4 DEF Sweep, TypeOK
  <2>2. QED
    BY <2>1 DEF NoLostCommand, Has
<1>5. ASSUME NEW c \in Cmds, ScanFile(c)  PROVE NoLostCommand'
  <2>1. FilesKept
    <3>1. CASE UNCHANGED disk
      BY <3>1 DEF FilesKept, Has
    <3>2. QED
      BY <1>5, <3>1, StartKeeps DEF ScanFile
  <2>2. QED
    BY <1>1, <1>5, <2>1 DEF ScanFile
<1>6. CASE FileEvent
  <2>1. Head(events) \in Cmds
    BY <1>6 DEF FileEvent, TypeOK
  <2>2. FilesKept
    <3>1. CASE UNCHANGED disk
      BY <3>1 DEF FilesKept, Has
    <3>2. QED
      BY <1>6, <2>1, <3>1, StartKeeps DEF FileEvent
  <2>3. QED
    BY <1>1, <1>6, <2>2 DEF FileEvent
<1>7. CASE WatcherInit
  BY <1>1, <1>7, RecoverKeeps DEF WatcherInit
<1>8. ASSUME NEW r \in Refs, DispatchCommand(r)  PROVE NoLostCommand'
  BY <1>1, <1>8, DispatchKeeps DEF DispatchCommand
<1>9. CASE HandleRefused \/ HandleResult \/ HandleTimeout
  BY <1>1, <1>9, AnswerKeeps DEF HandleRefused, HandleResult, HandleTimeout
<1>10. ASSUME NEW proc \in {"handler", "watcher"}, FinishWrite(proc)  PROVE NoLostCommand'
  BY <1>1, <1>10, WriteKeeps DEF FinishWrite
<1>11. CASE UNCHANGED <<disk, swept, client>>
  BY <1>11 DEF NoLostCommand, Has
<1>12. QED
  <2>1. CASE \/ ScanOrphans \/ ScanDone \/ HandleDispatch
             \/ \E r \in Refs : TimerFires(r) \/ TaskReturns(r) \/ TaskDies(r)
    BY <1>11, <2>1 DEF ScanOrphans, ScanDone, HandleDispatch, TimerFires, TaskReturns, TaskDies
  <2>2. CASE \/ HandlerCrash \/ AdminDown \/ HandlerRestart \/ WatcherCrash \/ RuntimeRestart
             \/ UNCHANGED vars
    BY <1>11, <2>2 DEF HandlerCrash, AdminDown, HandlerRestart, WatcherCrash, RuntimeRestart
  <2>3. QED
    BY <1>2, <1>3, <1>4, <1>5, <1>6, <1>7, <1>8, <1>9, <1>10, <2>1, <2>2
       DEF Next, WatcherStep, HandlerStep

\* Wherever a process or the runtime dies between two steps, a submitted command
\* keeps a file in one of the four directories (NoLostCommand).
THEOREM NoLostCommandHolds == Spec => []NoLostCommand
<1>1. Init => NoLostCommand
  BY DEF Init, NoLostCommand
<1>2. QED
  BY <1>1, LostStep, QueueTypeCorrect, PTL DEF Spec

---------------------------------------------------------------------------
(* One outcome *)

\* A step that does nothing for command c.
Quiet(c) ==
  /\ runs'[c] = runs[c] /\ answers'[c] = answers[c]
  /\ client'[c].pc = "idle" <=> client[c].pc = "idle"
  /\ disk'["pending"][c] = disk["pending"][c]
  /\ watcher'.moved = c => watcher.moved = c
  /\ \A r \in Refs : cmdOf'[r] = c <=> cmdOf[r] = c
  /\ \A r \in pending' : cmdOf'[r] = c => r \in pending
  /\ \A i \in DOMAIN mailbox' :
       mailbox'[i].type = "dispatch_command" /\ cmdOf'[mailbox'[i].ref] = c =>
         \E j \in DOMAIN mailbox : /\ mailbox[j].type = "dispatch_command"
                                  /\ mailbox[j].ref = mailbox'[i].ref

LEMMA MailRefs ==
  ASSUME TypeOK
  PROVE  \A i \in DOMAIN mailbox : mailbox[i].ref \in Refs
<1>1. \A i \in DOMAIN mailbox : mailbox[i] \in Messages
  BY DEF TypeOK
<1>2. QED
  BY <1>1, MessageFields

LEMMA QuietStep ==
  ASSUME TypeOK, TypeOK', NEW c \in Cmds, QueueInv(c), Quiet(c)
  PROVE  QueueInv(c)'
<1>1. pending \subseteq Refs /\ pending' \subseteq Refs
  BY DEF TypeOK
<1>2. \A i \in DOMAIN mailbox : mailbox[i].ref \in Refs
  BY MailRefs
<1>3. QED
  BY <1>1, <1>2 DEF QueueInv, Quiet, Fresh, Has

\* The one result of a command whose only reference is r.
LEMMA AnsweredStep ==
  ASSUME TypeOK, TypeOK', NEW c \in Cmds, QueueInv(c), NEW r \in Refs, cmdOf[r] = c,
         answers[c] = {}, NEW dir \in {"completed", "failed"},
         answers' = [answers EXCEPT ![c] = @ \cup {dir}],
         UNCHANGED <<runs, cmdOf, client, watcher>>, disk'["pending"] = disk["pending"],
         pending' \subseteq pending, r \notin pending',
         \A i \in DOMAIN mailbox' : mailbox'[i].type = "dispatch_command" => mailbox'[i].ref # r
  PROVE  QueueInv(c)'
<1>1. answers'[c] = {dir}
  BY DEF TypeOK
<1>2. \A i \in DOMAIN mailbox' : mailbox'[i].ref \in Refs
  <2>1. \A i \in DOMAIN mailbox' : mailbox'[i] \in Messages
    BY DEF TypeOK
  <2>2. QED
    BY <2>1, MessageFields
<1>3. \A q \in Refs : cmdOf'[q] = c => q = r
  BY DEF QueueInv
<1>4. ~(client[c].pc = "idle" \/ Has("pending", c) \/ watcher.moved = c)
  BY DEF QueueInv
<1>5. \A q \in pending' : cmdOf'[q] # c
  BY <1>3 DEF TypeOK
<1>6. \A i \in DOMAIN mailbox' :
        ~(mailbox'[i].type = "dispatch_command" /\ cmdOf'[mailbox'[i].ref] = c)
  BY <1>2, <1>3
<1>7. QED
  BY <1>1, <1>3, <1>4, <1>5, <1>6 DEF QueueInv, Fresh, Has

LEMMA QueueInit == Init => \A c \in Cmds : QueueInv(c)
  BY ConstAssumption DEF Init, QueueInv, Fresh, Has, WatcherDown, Dirs

\* Steps of the CLI and of the clock.
LEMMA ClientQueue ==
  ASSUME TypeOK, TypeOK', NEW c \in Cmds, QueueInv(c), NEW d \in Cmds,
         \/ Submit(d) \/ Poll(d) \/ PollTimeout(d) \/ TenMinutes(d)
         \/ \E dir \in Dirs : Sweep(dir, d)
  PROVE  QueueInv(c)'
<1>1. CASE Submit(d) /\ d = c
  <2>1. /\ client[c].pc = "idle" /\ client'[c].pc = "waiting"
        /\ UNCHANGED <<runs, answers, cmdOf, watcher, mailbox, pending>>
    BY <1>1 DEF Submit, TypeOK, Waiting
  <2>2. Fresh(c) /\ (\A r \in Refs : cmdOf[r] # c) /\ watcher.moved # c
    BY <2>1 DEF QueueInv
  <2>3. QED
    BY <2>1, <2>2 DEF QueueInv, Fresh
<1>2. CASE Submit(d) /\ d # c
  <2>1. /\ client'[c] = client[c] /\ disk'["pending"][c] = disk["pending"][c]
        /\ UNCHANGED <<runs, answers, cmdOf, watcher, mailbox, pending>>
    BY <1>2 DEF Submit, TypeOK, Dirs
  <2>2. Quiet(c)
    BY <2>1 DEF Quiet
  <2>3. QED
    BY <2>2, QuietStep
<1>3. CASE Poll(d) \/ PollTimeout(d) \/ TenMinutes(d)
  <2>1. UNCHANGED <<disk, runs, answers, cmdOf, watcher, mailbox, pending>>
    BY <1>3 DEF Poll, PollTimeout, TenMinutes
  <2>2. client'[c].pc = "idle" <=> client[c].pc = "idle"
    <3>1. CASE Poll(d) \/ PollTimeout(d)
      <4>1. client[d].pc = "waiting"
        BY <3>1 DEF Poll, PollTimeout, Waiting
      <4>2. client'[d].pc \in {"read", "timeout"} /\ \A e \in Cmds \ {d} : client'[e] = client[e]
        BY <3>1 DEF Poll, PollTimeout, TypeOK
      <4>3. QED
        BY <4>1, <4>2
    <3>2. CASE TenMinutes(d)
      BY <3>2 DEF TenMinutes
    <3>3. QED
      BY <1>3, <3>1, <3>2
  <2>3. Quiet(c)
    BY <2>1, <2>2 DEF Quiet
  <2>4. QED
    BY <2>3, QuietStep
<1>4. ASSUME NEW dir \in Dirs, Sweep(dir, d)  PROVE QueueInv(c)'
  <2>1. /\ disk'["pending"][c] = disk["pending"][c]
        /\ UNCHANGED <<client, runs, answers, cmdOf, watcher, mailbox, pending>>
    BY <1>4 DEF Sweep, TypeOK, Dirs
  <2>2. Quiet(c)
    BY <2>1 DEF Quiet
  <2>3. QED
    BY <2>2, QuietStep
<1>5. QED
  BY <1>1, <1>2, <1>3, <1>4

\* A file is taken out of pending/ into the watcher's hands.
LEMMA PickedQueue ==
  ASSUME TypeOK, TypeOK', NEW c \in Cmds, QueueInv(c), NEW d \in Cmds, NEW queue,
         Readable(d), StartProcessing(d, queue), watcher'.moved = d,
         UNCHANGED <<client, runs, answers, cmdOf, mailbox, pending>>
  PROVE  QueueInv(c)'
<1>1. CASE c = d
  <2>1. Has("pending", c) /\ ~Has("pending", c)'
    BY <1>1, StartKeeps DEF Has
  <2>2. Fresh(c) /\ (\A r \in Refs : cmdOf[r] # c) /\ client[c].pc # "idle"
    BY <2>1 DEF QueueInv
  <2>3. QED
    BY <1>1, <2>1, <2>2 DEF QueueInv, Fresh
<1>2. CASE c # d
  <2>1. Quiet(c)
    BY <1>2, StartKeeps DEF Quiet
  <2>2. QED
    BY <2>1, QuietStep
<1>3. QED
  BY <1>1, <1>2

LEMMA ScanQueue ==
  ASSUME TypeOK, TypeOK', NEW c \in Cmds, QueueInv(c),
         FileEvent \/ \E d \in Cmds : ScanFile(d)
  PROVE  QueueInv(c)'
<1>1. UNCHANGED <<client, runs, answers, cmdOf, mailbox, pending>>
  BY DEF FileEvent, ScanFile
<1>2. ASSUME NEW d \in Cmds, ScanFile(d)  PROVE QueueInv(c)'
  <2>1. CASE Readable(d) /\ StartProcessing(d, events)
    <3>1. watcher'.moved = d
      BY <1>2, <2>1 DEF ScanFile, TypeOK
    <3>2. QED
      BY <1>1, <2>1, <3>1, PickedQueue
  <2>2. CASE ~Readable(d)
    <3>1. UNCHANGED disk /\ watcher'.moved = watcher.moved
      BY <1>2, <2>2 DEF ScanFile, TypeOK
    <3>2. Quiet(c)
      BY <1>1, <3>1 DEF Quiet
    <3>3. QED
      BY <3>2, QuietStep
  <2>3. QED
    BY <1>2, <2>1, <2>2 DEF ScanFile
<1>3. CASE FileEvent
  <2> DEFINE d == Head(events)
  <2>1. d \in Cmds
    BY <1>3 DEF FileEvent, TypeOK
  <2>2. CASE Readable(d) /\ StartProcessing(d, Tail(events))
    <3>1. watcher'.moved = d
      BY <1>3, <2>2 DEF FileEvent, TypeOK
    <3> HIDE DEF d
    <3>2. PICK e : e = d
      OBVIOUS
    <3>3. QED
      BY <1>1, <2>1, <2>2, <3>1, <3>2, PickedQueue
  <2>3. CASE UNCHANGED <<disk, watcher>>
    <3>1. Quiet(c)
      BY <1>1, <2>3 DEF Quiet
    <3>2. QED
      BY <3>1, QuietStep
  <2>4. QED
    BY <1>3, <2>2, <2>3 DEF FileEvent
<1>4. QED
  BY <1>2, <1>3

\* The watcher hands its command over, or answers for want of a handler.
LEMMA DispatchQueue ==
  ASSUME TypeOK, TypeOK', MailInv, NEW c \in Cmds, QueueInv(c), NEW r \in Refs, DispatchCommand(r)
  PROVE  QueueInv(c)'
<1> DEFINE d == watcher.moved
           m == [type |-> "dispatch_command", ref |-> r]
<1>1. /\ cmdOf[r] = NoCmd /\ d \in Cmds /\ watcher'.moved = NoCmd
      /\ cmdOf' = [cmdOf EXCEPT ![r] = d] /\ UNCHANGED <<runs, client, pending>>
      /\ disk'["pending"] = disk["pending"] /\ NoCmd \notin Cmds
  BY DispatchKeeps, ConstAssumption DEF DispatchCommand, Unused, TypeOK
<1>2. \/ /\ UNCHANGED answers
         /\ (mailbox' = mailbox \/ mailbox' = Append(mailbox, m))
      \/ /\ answers' = [answers EXCEPT ![d] = @ \cup {"failed"}]
         /\ mailbox' = mailbox
  BY DEF DispatchCommand, Finish, DirFor
<1>3. m \in Messages /\ m.ref = r
  BY DEF Messages
<1>4. /\ cmdOf'[r] = d /\ \A q \in Refs \ {r} : cmdOf'[q] = cmdOf[q]
  BY <1>1 DEF TypeOK
<1>5. /\ \A q \in pending : q \in Refs /\ q # r
      /\ \A i \in DOMAIN mailbox : mailbox[i].ref \in Refs /\ mailbox[i].ref # r
  BY <1>1, MailRefs DEF MailInv, TypeOK
<1>6. \A i \in DOMAIN mailbox' :
        \/ /\ i \in DOMAIN mailbox
           /\ mailbox'[i] = mailbox[i]
        \/ /\ mailbox'[i].ref = r
           /\ UNCHANGED answers
  BY <1>2, <1>3, Appended
<1> HIDE DEF d, m
<1>7. CASE c = d
  <2>1. /\ Fresh(c) /\ (\A q \in Refs : cmdOf[q] # c) /\ client[c].pc # "idle" /\ ~Has("pending", c)
    BY <1>7 DEF QueueInv, d
  <2>2. answers'[c] = {} \/ answers'[c] = {"failed"}
    <3>1. CASE UNCHANGED answers
      BY <2>1, <3>1 DEF Fresh
    <3>2. CASE answers' = [answers EXCEPT ![d] = @ \cup {"failed"}]
      <4>1. answers'[c] = answers[c] \cup {"failed"}
        BY <1>7, <3>2 DEF TypeOK
      <4>2. QED
        BY <2>1, <4>1 DEF Fresh
    <3>3. QED
      BY <1>2, <3>1, <3>2
  <2>3. \A q \in Refs : cmdOf'[q] = c => q = r
    BY <1>4, <2>1
  <2>4. \A q \in pending' : cmdOf'[q] # c
    BY <1>1, <1>4, <1>5, <2>1
  <2>5. \A i \in DOMAIN mailbox' : cmdOf'[mailbox'[i].ref] = c => UNCHANGED answers
    BY <1>4, <1>5, <1>6, <2>1
  <2>6. client'[c].pc # "idle" /\ ~Has("pending", c)' /\ watcher'.moved # c /\ runs'[c] = 0
    BY <1>1, <2>1 DEF Has, Fresh
  <2>7. QED
    BY <2>1, <2>2, <2>3, <2>4, <2>5, <2>6 DEF QueueInv, Fresh
<1>8. CASE c # d
  <2>1. answers'[c] = answers[c]
    BY <1>1, <1>2, <1>8 DEF TypeOK
  <2>2. \A q \in Refs : cmdOf'[q] = c <=> cmdOf[q] = c
    BY <1>1, <1>4, <1>8
  <2>3. \A i \in DOMAIN mailbox' : cmdOf'[mailbox'[i].ref] = c => i \in DOMAIN mailbox /\ mailbox'[i] = mailbox[i]
    BY <1>4, <1>6, <1>8
  <2>4. Quiet(c)
    BY <1>1, <2>1, <2>2, <2>3 DEF Quiet
  <2>5. QED
    BY <2>4, QuietStep
<1>9. QED
  BY <1>7, <1>8

\* A message was taken: what is left was there before.
LEMMA TakenRest ==
  ASSUME TypeOK, NEW type, Take(type)
  PROVE  /\ \A i \in DOMAIN mailbox' : \E j \in DOMAIN mailbox : j # 1 /\ mailbox'[i] = mailbox[j]
         /\ 1 \in DOMAIN mailbox /\ mailbox[1].type = type /\ Head(mailbox) = mailbox[1]
         /\ mailbox[1].ref \in Refs
  BY Taken, MailRefs

\* A request is refused, or begins to run.
LEMMA RequestQueue ==
  ASSUME TypeOK, TypeOK', MailInv, NEW c \in Cmds, QueueInv(c), HandleRefused \/ HandleDispatch
  PROVE  QueueInv(c)'
<1>1. PICK r : r = mailbox[1].ref
  OBVIOUS
<1>2. Take("dispatch_command")
  BY DEF HandleRefused, HandleDispatch
<1>3. /\ r \in Refs /\ 1 \in DOMAIN mailbox /\ mailbox[1].type = "dispatch_command"
      /\ Head(mailbox).ref = r
      /\ \A i \in DOMAIN mailbox' : \E j \in DOMAIN mailbox : j # 1 /\ mailbox'[i] = mailbox[j]
  BY <1>1, <1>2, TakenRest
<1>4. /\ cmdOf[r] # NoCmd /\ r \notin pending
      /\ \A j \in DOMAIN mailbox : mailbox[j].ref = r => j = 1
  BY <1>1, <1>3 DEF MailInv
<1>5. \A i \in DOMAIN mailbox' : mailbox'[i].ref # r
  BY <1>3, <1>4
<1>6. CASE cmdOf[r] = c
  <2>1. Fresh(c)
    BY <1>1, <1>3, <1>6 DEF QueueInv
  <2>2. CASE HandleRefused
    <3>1. /\ answers' = [answers EXCEPT ![c] = @ \cup {"failed"}]
          /\ UNCHANGED <<runs, cmdOf, client, watcher, pending>>
      BY <1>3, <1>6, <2>2 DEF HandleRefused, Finish, DirFor
    <3>2. disk'["pending"] = disk["pending"]
      BY <2>2, AnswerKeeps
    <3>3. QED
      BY <1>3, <1>4, <1>5, <1>6, <2>1, <3>1, <3>2, AnsweredStep DEF Fresh
  <2>3. CASE HandleDispatch
    <3>1. /\ pending' = pending \cup {r} /\ runs' = [runs EXCEPT ![c] = @ + 1]
          /\ UNCHANGED <<disk, answers, cmdOf, client, watcher>>
      BY <1>3, <1>6, <2>3 DEF HandleDispatch
    <3>2. runs'[c] = 1 /\ answers'[c] = {}
      BY <2>1, <3>1 DEF Fresh, TypeOK
    <3>3. \A q \in Refs : cmdOf'[q] = c => q = r
      BY <1>3, <1>6, <3>1 DEF QueueInv
    <3>4. \A i \in DOMAIN mailbox' : cmdOf'[mailbox'[i].ref] # c
      <4>1. \A i \in DOMAIN mailbox' : mailbox'[i].ref \in Refs
        BY <1>3, MailRefs
      <4>2. QED
        BY <1>5, <3>3, <4>1
    <3>5. ~(client[c].pc = "idle" \/ Has("pending", c) \/ watcher.moved = c)
      BY <1>3, <1>6 DEF QueueInv
    <3>6. QED
      BY <3>1, <3>2, <3>3, <3>4, <3>5 DEF QueueInv, Has
  <2>4. QED
    BY <2>2, <2>3
<1>7. CASE cmdOf[r] # c
  <2>1. cmdOf[r] \in Cmds
    BY <1>3, <1>4 DEF TypeOK
  <2>2. /\ UNCHANGED <<cmdOf, client, watcher>> /\ pending' \subseteq pending \cup {r}
        /\ disk'["pending"] = disk["pending"]
    BY <1>3, AnswerKeeps DEF HandleRefused, HandleDispatch
  <2>3. runs'[c] = runs[c] /\ answers'[c] = answers[c]
    BY <1>3, <1>7, <2>1 DEF HandleRefused, HandleDispatch, Finish, TypeOK
  <2>4. Quiet(c)
    BY <1>3, <1>7, <2>2, <2>3 DEF Quiet
  <2>5. QED
    BY <2>4, QuietStep
<1>8. QED
  BY <1>6, <1>7

\* A result or a time-out: the first of them answers.
LEMMA ResultQueue ==
  ASSUME TypeOK, TypeOK', MailInv, NEW c \in Cmds, QueueInv(c), HandleResult \/ HandleTimeout
  PROVE  QueueInv(c)'
<1>1. PICK r : r = mailbox[1].ref
  OBVIOUS
<1>2. PICK type : Take(type)
  BY DEF HandleResult, HandleTimeout
<1>3. /\ r \in Refs /\ Head(mailbox).ref = r
      /\ \A i \in DOMAIN mailbox' : \E j \in DOMAIN mailbox : j # 1 /\ mailbox'[i] = mailbox[j]
      /\ 1 \in DOMAIN mailbox
  BY <1>1, <1>2, TakenRest
<1>4. UNCHANGED <<runs, cmdOf, client, watcher>> /\ disk'["pending"] = disk["pending"] /\ pending' \subseteq pending
  BY AnswerKeeps DEF HandleResult, HandleTimeout, PopRef
<1>5. \/ UNCHANGED <<answers, pending>>
      \/ /\ r \in pending /\ pending' = pending \ {r}
         /\ \E dir \in {"completed", "failed"} : answers' = [answers EXCEPT ![cmdOf[r]] = @ \cup {dir}]
  BY <1>3 DEF HandleResult, HandleTimeout, PopRef, Finish, DirFor
<1>6. cmdOf[r] \in Cmds
  BY <1>1, <1>3 DEF MailInv, TypeOK
<1>7. CASE cmdOf[r] # c \/ UNCHANGED <<answers, pending>>
  <2>1. answers'[c] = answers[c]
    BY <1>5, <1>6, <1>7 DEF TypeOK
  <2>2. Quiet(c)
    BY <1>3, <1>4, <2>1 DEF Quiet
  <2>3. QED
    BY <2>2, QuietStep
<1>8. CASE cmdOf[r] = c /\ ~UNCHANGED <<answers, pending>>
  <2>1. PICK dir \in {"completed", "failed"} : answers' = [answers EXCEPT ![c] = @ \cup {dir}]
    BY <1>5, <1>8
  <2>2. r \in pending /\ r \notin pending' /\ answers[c] = {}
    BY <1>5, <1>8 DEF QueueInv
  <2>3. \A i \in DOMAIN mailbox' : mailbox'[i].type = "dispatch_command" => mailbox'[i].ref # r
    BY <1>3, <2>2 DEF MailInv
  <2>4. QED
    BY <1>3, <1>4, <1>8, <2>1, <2>2, <2>3, AnsweredStep
<1>9. QED
  BY <1>7, <1>8

\* Everything else.
LEMMA RestQueue ==
  ASSUME TypeOK, TypeOK', NEW c \in Cmds, QueueInv(c),
         \/ ScanOrphans \/ ScanDone \/ FinishWrite("watcher") \/ FinishWrite("handler")
         \/ \E r \in Refs : TimerFires(r) \/ TaskReturns(r) \/ TaskDies(r)
         \/ HandlerCrash \/ AdminDown \/ HandlerRestart \/ WatcherCrash \/ RuntimeRestart
         \/ UNCHANGED vars
         \/ WatcherInit /\ c \notin requeued'
  PROVE  QueueInv(c)'
<1>1. UNCHANGED <<runs, answers, cmdOf, client>> /\ pending' \subseteq pending
  BY DEF ScanOrphans, ScanDone, FinishWrite, TimerFires, TaskReturns, TaskDies, HandlerCrash,
         AdminDown, HandlerRestart, WatcherCrash, RuntimeRestart, WatcherInit
<1>2. watcher'.moved = c => watcher.moved = c
  <2>1. CASE UNCHANGED watcher
    BY <2>1
  <2>2. CASE watcher'.moved = NoCmd
    BY <2>2, ConstAssumption
  <2>3. CASE ScanOrphans \/ ScanDone \/ WatcherInit
    <3>1. watcher'.moved = watcher.moved
      <4>1. CASE ScanOrphans
        BY <4>1 DEF ScanOrphans, TypeOK
      <4>2. CASE ScanDone
        BY <4>2 DEF ScanDone, TypeOK
      <4>3. CASE WatcherInit
        <5>1. watcher' = [watcher EXCEPT !.pc = "continue"]
          BY <4>3 DEF WatcherInit
        <5>2. QED
          BY <5>1 DEF TypeOK
      <4>4. QED
        BY <2>3, <4>1, <4>2, <4>3
    <3>2. QED
      BY <3>1
  <2>4. CASE RuntimeRestart \/ WatcherCrash
    BY <2>2, <2>4 DEF RuntimeRestart, WatcherCrash, WatcherDown
  <2>5. QED
    BY <2>1, <2>2, <2>3, <2>4
       DEF FinishWrite, TimerFires, TaskReturns, TaskDies, HandlerCrash,
           AdminDown, HandlerRestart
<1>3. disk'["pending"][c] = disk["pending"][c]
  <2>1. CASE FinishWrite("watcher") \/ FinishWrite("handler")
    BY <2>1, WriteKeeps
  <2>2. CASE WatcherInit /\ c \notin requeued'
    BY <2>2, RecoverKeeps
  <2>3. QED
    BY <2>1, <2>2
       DEF ScanOrphans, ScanDone, TimerFires, TaskReturns, TaskDies, HandlerCrash,
           AdminDown, HandlerRestart, WatcherCrash, RuntimeRestart
<1>4. \A i \in DOMAIN mailbox' :
        mailbox'[i].type = "dispatch_command" => i \in DOMAIN mailbox /\ mailbox'[i] = mailbox[i]
  <2>1. ASSUME NEW r \in Refs, TimerFires(r)
        PROVE \A i \in DOMAIN mailbox' :
                mailbox'[i].type = "dispatch_command" => i \in DOMAIN mailbox /\ mailbox'[i] = mailbox[i]
    <3> DEFINE m == [type |-> "timeout", ref |-> r]
    <3>1. m \in Messages /\ m.type # "dispatch_command" /\ mailbox' = Append(mailbox, m)
      BY <2>1 DEF Messages, TimerFires
    <3> HIDE DEF m
    <3>2. QED
      BY <3>1, Appended
  <2>2. ASSUME NEW r \in Refs, NEW result \in Results,
               mailbox' = Append(mailbox, [type |-> "command_result", ref |-> r, result |-> result])
        PROVE \A i \in DOMAIN mailbox' :
                mailbox'[i].type = "dispatch_command" => i \in DOMAIN mailbox /\ mailbox'[i] = mailbox[i]
    <3> DEFINE m == [type |-> "command_result", ref |-> r, result |-> result]
    <3>1. m \in Messages /\ m.type # "dispatch_command" /\ mailbox' = Append(mailbox, m)
      BY <2>2 DEF Messages
    <3> HIDE DEF m
    <3>2. QED
      BY <3>1, Appended
  <2>3. CASE UNCHANGED mailbox \/ mailbox' = << >>
    BY <2>3
  <2>4. QED
    BY <2>1, <2>2, <2>3
       DEF ScanOrphans, ScanDone, FinishWrite, TaskReturns, TaskDies, HandlerCrash,
           AdminDown, HandlerRestart, WatcherCrash, RuntimeRestart, WatcherInit
<1>5. Quiet(c)
  BY <1>1, <1>2, <1>3, <1>4 DEF Quiet
<1>6. QED
  BY <1>5, QuietStep

LEMMA QueueStep ==
  ASSUME TypeOK, TypeOK', MailInv, \A c \in Cmds \ requeued : QueueInv(c), [Next]_vars
  PROVE  \A c \in Cmds \ requeued' : QueueInv(c)'
<1> SUFFICES ASSUME NEW c \in Cmds, c \notin requeued'
             PROVE QueueInv(c)'
  OBVIOUS
<1>1. c \notin requeued
  BY DEF Next, WatcherStep, HandlerStep, WatcherInit, ScanOrphans, ScanDone, FileEvent, ScanFile,
         DispatchCommand, FinishWrite, HandleRefused, HandleDispatch, HandleResult, HandleTimeout,
         TimerFires, TaskReturns, TaskDies, Submit, Poll, PollTimeout, TenMinutes, Sweep,
         HandlerCrash, AdminDown, HandlerRestart, WatcherCrash, RuntimeRestart
<1>2. QueueInv(c)
  BY <1>1
<1>3. QED
  BY <1>2, ClientQueue, ScanQueue, DispatchQueue, RequestQueue, ResultQueue, RestQueue
     DEF Next, WatcherStep, HandlerStep

\* A command that recovery has not put back is executed at most once and has one
\* outcome, whatever events, scans, timers and late results race (OneOutcome).
THEOREM OneOutcomeHolds == Spec => []OneOutcome
<1> DEFINE Inv == TypeOK /\ OutcomeInv
<1>1. Init => Inv
  BY TypeInit, MailInit, QueueInit DEF OutcomeInv
<1>2. Inv /\ [Next]_vars => Inv'
  <2> SUFFICES ASSUME Inv, [Next]_vars  PROVE Inv'
    OBVIOUS
  <2>1. TypeOK' /\ MailInv'
    BY TypeStep, MailStep DEF OutcomeInv
  <2>2. \A c \in Cmds \ requeued' : QueueInv(c)'
    BY <2>1, QueueStep DEF OutcomeInv
  <2>3. QED
    BY <2>1, <2>2 DEF OutcomeInv
<1>3. Inv => OneOutcome
  <2> SUFFICES ASSUME Inv, NEW c \in Cmds \ requeued
               PROVE runs[c] <= 1 /\ Cardinality(answers[c]) <= 1
    BY DEF OneOutcome
  <2>1. runs[c] <= 1 /\ (answers[c] = {} \/ \E dir : answers[c] = {dir})
    BY DEF OutcomeInv, QueueInv
  <2>2. CASE answers[c] = {}
    BY <2>1, <2>2, FS_EmptySet
  <2>3. ASSUME NEW dir, answers[c] = {dir}  PROVE Cardinality(answers[c]) = 1
    BY <2>3, FS_Singleton
  <2>4. QED
    BY <2>1, <2>2, <2>3
<1>4. QED
  BY <1>1, <1>2, <1>3, PTL DEF Spec

=============================================================================
