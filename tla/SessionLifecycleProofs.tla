------------------------ MODULE SessionLifecycleProofs ------------------------
(***************************************************************************)
(* Proofs about SessionLifecycle, for any number of sessions, chats,       *)
(* messages and commands, and without the bounds on faults and operators.  *)
(***************************************************************************)
EXTENDS SessionLifecycle, TLAPS

USE DEF vars, subtreeVars, storeVars, routerVars, adapterVars, histVars, boundVars

---------------------------------------------------------------------------
(* Chat slots *)

\* A slot is a pair whose current session is one of the attached ones, or
\* none when nothing is attached.
Coherent(slot) ==
  /\ slot = [current |-> slot.current, attached |-> slot.attached]
  /\ IF slot.attached = {} THEN slot.current = NoSid
                           ELSE slot.current \in slot.attached

\* The inductive form of SlotCoherent: routing is a table of such slots.
RoutingInv ==
  /\ routing = [c \in Chats |-> routing[c]]
  /\ \A c \in Chats : Coherent(routing[c])

\* Attaching a session keeps a slot coherent.
LEMMA AttachCoherent ==
  ASSUME NEW slot, Coherent(slot), NEW s
  PROVE  Coherent(AttachTo(slot, s))
  BY DEF Coherent, AttachTo

\* So does detaching one, whichever session is promoted.
LEMMA DetachCoherent ==
  ASSUME NEW slot, Coherent(slot), NEW s, NEW new \in DetachFrom(slot, s)
  PROVE  Coherent(new)
<1> DEFINE left == slot.attached \ {s}
<1>1. PICK cur \in (IF slot.current # s THEN {slot.current}
                    ELSE IF left = {} THEN {NoSid} ELSE left) :
        new = [current |-> cur, attached |-> left]
  BY DEF DetachFrom
<1>2. CASE slot.current # s
  <2>1. cur = slot.current
    BY <1>1, <1>2
  <2>2. IF left = {} THEN cur = NoSid ELSE cur \in left
    BY <1>2, <2>1 DEF Coherent
  <2>3. QED
    BY <1>1, <2>2 DEF Coherent
<1>3. CASE slot.current = s
  BY <1>1, <1>3 DEF Coherent
<1>4. QED
  BY <1>2, <1>3

\* One chat's slot replaced by a coherent one.
LEMMA SlotReplaced ==
  ASSUME RoutingInv, NEW c, NEW slot, Coherent(slot),
         routing' = [routing EXCEPT ![c] = slot]
  PROVE  RoutingInv'
  BY DEF RoutingInv

\* A change to the slot of something that is no chat changes nothing.
LEMMA NoSuchSlot ==
  ASSUME RoutingInv, NEW c, c \notin Chats, NEW slot,
         routing' = [routing EXCEPT ![c] = slot]
  PROVE  RoutingInv'
  BY DEF RoutingInv

\* The three ways the registry changes its table: attaching a session to a
\* chat,
LEMMA AttachStep ==
  ASSUME RoutingInv, NEW c, NEW s, attach_session(c, s)
  PROVE  RoutingInv'
<1>1. routing' = [routing EXCEPT ![c] = AttachTo(routing[c], s)]
  BY DEF attach_session
<1>2. CASE c \in Chats
  <2>1. Coherent(AttachTo(routing[c], s))
    BY <1>2, AttachCoherent DEF RoutingInv
  <2>2. QED
    BY <1>1, <2>1, SlotReplaced
<1>3. CASE c \notin Chats
  BY <1>1, <1>3, NoSuchSlot
<1>4. QED
  BY <1>2, <1>3

\* detaching it from one,
LEMMA DetachStep ==
  ASSUME RoutingInv, NEW c, NEW s, detach_session(c, s)
  PROVE  RoutingInv'
<1>1. PICK slot \in DetachFrom(routing[c], s) : routing' = [routing EXCEPT ![c] = slot]
  BY DEF detach_session
<1>2. CASE c \in Chats
  <2>1. Coherent(slot)
    BY <1>1, <1>2, DetachCoherent DEF RoutingInv
  <2>2. QED
    BY <1>1, <2>1, SlotReplaced
<1>3. CASE c \notin Chats
  BY <1>1, <1>3, NoSuchSlot
<1>4. QED
  BY <1>2, <1>3

\* and detaching it from every chat.
LEMMA DetachByIdStep ==
  ASSUME RoutingInv, NEW s, detach_session_by_id(s)
  PROVE  RoutingInv'
<1>1. PICK new \in [Chats -> UNION {AfterDetach(c, s) : c \in Chats}] :
        /\ \A c \in Chats : new[c] \in AfterDetach(c, s)
        /\ routing' = new
  BY DEF detach_session_by_id
<1>2. ASSUME NEW c \in Chats PROVE Coherent(new[c])
  <2>1. CASE new[c] \in DetachFrom(routing[c], s)
    BY <2>1, DetachCoherent DEF RoutingInv
  <2>2. CASE new[c] = routing[c]
    BY <2>2 DEF RoutingInv
  <2>3. QED
    BY <1>1, <2>1, <2>2 DEF AfterDetach
<1>3. new = [c \in Chats |-> new[c]]
  BY <1>1
<1>4. QED
  BY <1>1, <1>2, <1>3 DEF RoutingInv

---------------------------------------------------------------------------
(* The actions *)

\* A step that leaves the table alone keeps the invariant.
LEMMA RoutingUnchanged ==
  ASSUME RoutingInv, UNCHANGED routing
  PROVE  RoutingInv'
  BY DEF RoutingInv

\* /session:switch picks its session among the attached ones.
LEMMA SwitchStep ==
  ASSUME RoutingInv, NEW c \in Chats, NEW s, CmdSwitch(c, s)
  PROVE  RoutingInv'
<1> DEFINE slot == [routing[c] EXCEPT !.current = s]
<1>1. routing' = [routing EXCEPT ![c] = slot]
  BY DEF CmdSwitch
<1>2. Coherent(slot)
  BY DEF CmdSwitch, RoutingInv, Coherent
<1>3. QED
  BY <1>1, <1>2, SlotReplaced

\* The router writes the table when it registers a session and when it ends
\* one.
LEMMA RouterStepRouting ==
  ASSUME RoutingInv, RouterStep
  PROVE  RoutingInv'
<1>1. CASE Register
  BY <1>1, AttachStep DEF Register
<1>2. CASE EndDetach
  BY <1>2, DetachByIdStep DEF EndDetach
<1>3. CASE \/ CreateRefused \/ CreateStart \/ SpawnPipeline \/ SpawnFails
           \/ VerifyComplete \/ VerifyIncomplete \/ SpawnOnDeadSupervisor
           \/ StartObserver \/ CreateReplies \/ Redeliver \/ EndUnknown \/ EndFind
           \/ EndStop \/ EndStopMissing
  <2>1. UNCHANGED routing
    BY <1>3 DEF CreateRefused, CreateStart, SpawnPipeline, SpawnFails, VerifyComplete,
         VerifyIncomplete, SpawnOnDeadSupervisor, StartObserver, CreateReplies,
         Redeliver, EndUnknown, EndFind, EndStop, EndStopMissing
  <2>2. QED
    BY <2>1, RoutingUnchanged
<1>4. QED
  BY <1>1, <1>2, <1>3 DEF RouterStep

\* Of the session commands, the last step of /session:new, bind-chat,
\* unbind-chat and switch write the table.
LEMMA CommandRouting ==
  ASSUME RoutingInv, CommandStep \/ \E n \in News : NewStep(n)
  PROVE  RoutingInv'
<1>1. ASSUME NEW n \in News, NewStep(n)
      PROVE  RoutingInv'
  <2>1. CASE NewAttach(n)
    <3>1. CASE UNCHANGED routing
      BY <3>1, RoutingUnchanged
    <3>2. CASE attach_session(NewChat[n], cmd[n].sid)
      BY <3>2, AttachStep
    <3>3. QED
      BY <2>1, <3>1, <3>2 DEF NewAttach
  <2>2. CASE \/ NewCheck(n) \/ NewCreate(n) \/ NewCreateDirect(n) \/ NewTimeout(n)
             \/ NewClaim(n) \/ NewFails(n) \/ NewPersist(n)
    <3>1. UNCHANGED routing
      BY <2>2 DEF NewCheck, NewCreate, NewCreateDirect, NewTimeout, NewClaim, NewFails, NewPersist
    <3>2. QED
      BY <3>1, RoutingUnchanged
  <2>3. QED
    BY <1>1, <2>1, <2>2 DEF NewStep
<1>2. ASSUME NEW s \in Sids, CmdEnd(s)
      PROVE  RoutingInv'
  BY <1>2, RoutingUnchanged DEF CmdEnd
<1>3. ASSUME NEW s \in Sids, NEW c \in Chats,
             CmdBindChat(c, s) \/ CmdUnbindChat(c, s) \/ CmdSwitch(c, s)
      PROVE  RoutingInv'
  BY <1>3, AttachStep, DetachStep, SwitchStep DEF CmdBindChat, CmdUnbindChat
<1>4. QED
  BY <1>1, <1>2, <1>3 DEF CommandStep

\* The chat adapter writes the table when it cleans up after a dead session.
LEMMA AdapterRouting ==
  ASSUME RoutingInv, AdapterStep
  PROVE  RoutingInv'
<1>1. CASE FaaCleanup
  BY <1>1, DetachStep DEF FaaCleanup
<1>2. CASE ~FaaCleanup
  <2>1. UNCHANGED routing
    BY <1>2 DEF AdapterStep, FaaRoute, FaaUnrouted, FaaForward, GuideExpires, FaaCrash,
         FaaRestart
  <2>2. QED
    BY <2>1, RoutingUnchanged
<1>3. QED
  BY <1>1, <1>2

\* A session's observer writes it when the session dies; its other processes
\* never do.
LEMMA SessionRouting ==
  ASSUME RoutingInv, NEW s \in Sids, SessionStep(s) \/ ObserverDown(s)
  PROVE  RoutingInv'
<1>1. CASE ObserverDown(s)
  BY <1>1, DetachStep DEF ObserverDown
<1>2. CASE SessionStep(s)
  <2>1. UNCHANGED routing
    BY <1>2 DEF SessionStep, FcpCrash, FcpRestart, IndexDown, SubtreeRestart,
         SupervisorCrash, SupervisorRestart
  <2>2. QED
    BY <2>1, RoutingUnchanged
<1>3. QED
  BY <1>1, <1>2

\* SlotCoherent for every number of sessions, chats and commands: after any mix
\* of attach, detach, switch, end, crash and restart, a chat's current session
\* is one of those attached to it, and it has one whenever any is attached.
THEOREM SlotCoherentHolds == Spec => []SlotCoherent
<1>1. Init => RoutingInv
  <2> DEFINE Empty == [current |-> NoSid, attached |-> {}]
  <2>1. Coherent(Empty)
    BY DEF Coherent
  <2>2. Init => routing = [c \in Chats |-> Empty]
    BY DEF Init
  <2> HIDE DEF Empty
  <2>3. QED
    BY <2>1, <2>2 DEF RoutingInv
<1>2. RoutingInv /\ [Next]_vars => RoutingInv'
  <2> SUFFICES ASSUME RoutingInv, [Next]_vars PROVE RoutingInv'
    OBVIOUS
  <2>1. CASE RouterStep
    BY <2>1, RouterStepRouting
  <2>2. CASE \E s \in Sids : SessionStep(s) \/ ObserverDown(s)
    BY <2>2, SessionRouting
  <2>3. CASE CommandStep \/ \E n \in News : NewStep(n)
    BY <2>3, CommandRouting
  <2>4. CASE AdapterStep
    BY <2>4, AdapterRouting
  <2>5. CASE Restart
    BY <2>5, RoutingUnchanged DEF Restart
  <2>6. CASE UNCHANGED vars
    BY <2>6, RoutingUnchanged
  <2>7. QED
    BY <2>1, <2>2, <2>3, <2>4, <2>5, <2>6 DEF Next
<1>3. RoutingInv => SlotCoherent
  BY DEF RoutingInv, Coherent, SlotCoherent
<1>4. QED
  BY <1>1, <1>2, <1>3, PTL DEF Spec

---------------------------------------------------------------------------
(* Types *)

\* The part of TypeOK that the arguments below need.
LifeTypes ==
  /\ sup \in [Sids -> {"unused", "up", "restarting", "down"}]
  /\ gen \in [Sids -> Nat]
  /\ obs \in [Sids -> Chats \cup {NoChat}]
  /\ mailbox \in Seq(Requests)
  /\ job \in Jobs
  /\ cmd \in [News -> [pc: CmdSteps, sid: Sids \cup {NoSid}]]
  /\ restarts \in Nat

\* A router at work has a request and a session.
LEMMA JobIs ==
  ASSUME job \in Jobs, job # Idle
  PROVE  /\ job.pc \in JobSteps \ {"idle"} /\ job.req \in Requests /\ job.sid \in Sids
         /\ \A pc \in JobSteps \ {"idle"}, b \in BOOLEAN :
              [job EXCEPT !.pc = pc] \in Jobs /\ [job EXCEPT !.pc = pc, !.missing = b] \in Jobs
  BY DEF Jobs, Idle

LEMMA JobAt ==
  ASSUME job \in Jobs, job.pc # "idle"
  PROVE  job # Idle
  BY DEF Idle

\* The chat a session is created for.
LEMMA ChatForTyped ==
  ASSUME NEW req \in Requests, req.type # "end"
  PROVE  ChatFor(req) \in Chats
  BY ConstAssumption DEF Requests, ChatFor

\* The reply to a call keeps the command table.
LEMMA ReplyTyped ==
  ASSUME LifeTypes, NEW n, NEW from, NEW to \in CmdSteps, NEW s \in Sids \cup {NoSid},
         Reply(n, from, to, s)
  PROVE  cmd' \in [News -> [pc: CmdSteps, sid: Sids \cup {NoSid}]]
  BY DEF Reply, LifeTypes

\* So does a command's own step.
LEMMA StepTyped ==
  ASSUME LifeTypes, NEW n \in News, NEW from, NEW to \in CmdSteps, Step(n, from, to)
  PROVE  /\ cmd' \in [News -> [pc: CmdSteps, sid: Sids \cup {NoSid}]]
         /\ cmd'[n].pc = to /\ cmd'[n].sid = cmd[n].sid
         /\ \A k \in News : k # n => cmd'[k] = cmd[k]
  BY DEF Step, LifeTypes

\* And a crash of the router.
LEMMA RouterCrashTyped ==
  ASSUME LifeTypes, RouterCrash
  PROVE  /\ cmd' \in [News -> [pc: CmdSteps, sid: Sids \cup {NoSid}]]
         /\ \A n \in News : cmd'[n].sid = cmd[n].sid /\ cmd'[n].pc \in {cmd[n].pc, "crashed"}
         /\ mailbox' = << >> /\ job' = Idle
<1>1. cmd' = [n \in News |-> IF cmd[n].pc \in {"creating", "rolling"}
                               THEN [cmd[n] EXCEPT !.pc = "crashed"] ELSE cmd[n]]
  BY DEF RouterCrash
<1>2. \A n \in News : cmd[n] \in [pc: CmdSteps, sid: Sids \cup {NoSid}]
  BY DEF LifeTypes
<1>3. ASSUME NEW n \in News
      PROVE /\ cmd'[n] \in [pc: CmdSteps, sid: Sids \cup {NoSid}]
            /\ cmd'[n].sid = cmd[n].sid /\ cmd'[n].pc \in {cmd[n].pc, "crashed"}
  BY <1>1, <1>2 DEF CmdSteps
<1>4. QED
  BY <1>1, <1>3 DEF RouterCrash

\* What the router takes from its mailbox.
LEMMA Served ==
  ASSUME LifeTypes, Serving
  PROVE  Head(mailbox) \in Requests /\ Tail(mailbox) \in Seq(Requests) /\ mailbox # << >>
<1>1. mailbox \in Seq(Requests) /\ mailbox # << >>
  BY DEF LifeTypes, Serving
<1>2. QED
  BY <1>1

\* Every step of the router keeps the types, given the request it works on.
LEMMA RouterTypes ==
  ASSUME LifeTypes, RouterStep, Creating => job.req.type # "end"
  PROVE  LifeTypes'
<1>0. /\ job \in Jobs /\ mailbox \in Seq(Requests) /\ Idle \in Jobs
      /\ sup \in [Sids -> {"unused", "up", "restarting", "down"}] /\ gen \in [Sids -> Nat] /\ obs \in [Sids -> Chats \cup {NoChat}]
  BY DEF LifeTypes, Jobs
<1>1. ASSUME NEW req \in Requests, CreateFails(req)
      PROVE cmd' \in [News -> [pc: CmdSteps, sid: Sids \cup {NoSid}]] /\ job' = Idle
  <2>1. CASE Reply(req.from, "creating", "failed", NoSid)
    BY <1>1, <2>1, ReplyTyped DEF CreateFails, CmdSteps
  <2>2. CASE UNCHANGED cmd
    BY <1>1, <2>2 DEF CreateFails, LifeTypes
  <2>3. QED
    BY <1>1, <2>1, <2>2 DEF CreateFails
<1>2. CASE CreateRefused
  <2>1. CreateFails(Head(mailbox)) /\ mailbox' = Tail(mailbox) /\ UNCHANGED <<sup, gen, obs, restarts>>
    BY <1>2 DEF CreateRefused
  <2>2. Head(mailbox) \in Requests /\ Tail(mailbox) \in Seq(Requests)
    BY <1>2, Served DEF CreateRefused
  <2>3. QED
    BY <1>0, <1>1, <2>1, <2>2 DEF LifeTypes
<1>3. CASE CreateStart
  <2>1. PICK s \in Sids : /\ sup' = [sup EXCEPT ![s] = "up"]
                          /\ job' = [pc |-> "started", req |-> Head(mailbox), sid |-> s, pid |-> gen[s],
                                     missing |-> FALSE]
    BY <1>3 DEF CreateStart, Fresh, StartSession
  <2>2. Head(mailbox) \in Requests /\ Tail(mailbox) \in Seq(Requests)
    BY <1>3, Served DEF CreateStart
  <2>3. job' \in Jobs
    BY <1>0, <2>1, <2>2 DEF Jobs, JobSteps
  <2>4. mailbox' = Tail(mailbox) /\ UNCHANGED <<gen, obs, cmd, restarts>>
    BY <1>3 DEF CreateStart
  <2>5. QED
    BY <1>0, <2>1, <2>2, <2>3, <2>4 DEF LifeTypes
<1>4. CASE SpawnPipeline
  <2>1. job # Idle
    BY <1>0, <1>4, JobAt DEF SpawnPipeline, AtStep
  <2>2. PICK skipped \in BOOLEAN : job' = [job EXCEPT !.pc = "spawned", !.missing = skipped]
    BY <1>4 DEF SpawnPipeline
  <2>3. job' \in Jobs
    BY <1>0, <2>1, <2>2, JobIs DEF JobSteps
  <2>4. UNCHANGED <<sup, gen, obs, mailbox, cmd, restarts>>
    BY <1>4 DEF SpawnPipeline
  <2>5. QED
    BY <2>3, <2>4 DEF LifeTypes
<1>5. CASE SpawnFails
  <2>1. job.req \in Requests
    BY <1>0, <1>5, JobAt, JobIs DEF SpawnFails, AtStep
  <2>2. CreateFails(job.req) /\ UNCHANGED <<sup, gen, obs, mailbox, restarts>>
    BY <1>5 DEF SpawnFails
  <2>3. QED
    BY <1>0, <1>1, <2>1, <2>2 DEF LifeTypes
<1>6. CASE VerifyComplete
  <2>1. job # Idle
    BY <1>0, <1>6, JobAt DEF VerifyComplete, AtStep
  <2>2. job' \in Jobs /\ UNCHANGED <<sup, gen, obs, mailbox, cmd, restarts>>
    BY <1>0, <1>6, <2>1, JobIs DEF VerifyComplete, JobSteps
  <2>3. QED
    BY <2>2 DEF LifeTypes
<1>7. CASE VerifyIncomplete \/ SpawnOnDeadSupervisor \/ EndStopMissing
  <2>1. RouterCrash /\ UNCHANGED <<sup, gen, obs, restarts>>
    BY <1>7 DEF VerifyIncomplete, SpawnOnDeadSupervisor, EndStopMissing
  <2>2. /\ cmd' \in [News -> [pc: CmdSteps, sid: Sids \cup {NoSid}]]
        /\ mailbox' = << >> /\ job' = Idle
    BY <2>1, RouterCrashTyped
  <2>3. mailbox' \in Seq(Requests)
    BY <2>2
  <2>4. QED
    BY <1>0, <2>1, <2>2, <2>3 DEF LifeTypes
<1>8. CASE Register
  <2>1. job # Idle
    BY <1>0, <1>8, JobAt DEF Register, AtStep
  <2>2. job' \in Jobs /\ UNCHANGED <<sup, gen, obs, mailbox, cmd, restarts>>
    BY <1>0, <1>8, <2>1, JobIs DEF Register, JobSteps
  <2>3. QED
    BY <2>2 DEF LifeTypes
<1>9. CASE StartObserver
  <2>1. job # Idle /\ Creating
    BY <1>0, <1>9, JobAt DEF StartObserver, AtStep, Creating, JobSteps
  <2>2. job.req \in Requests /\ job.sid \in Sids
    BY <1>0, <2>1, JobIs
  <2>3. ChatFor(job.req) \in Chats
    BY <2>1, <2>2, ChatForTyped
  <2>4. obs' = [obs EXCEPT ![job.sid] = ChatFor(job.req)]
    BY <1>9, <2>2 DEF StartObserver, Observe
  <2>5. obs' \in [Sids -> Chats \cup {NoChat}]
    BY <1>0, <2>2, <2>3, <2>4
  <2>6. job' \in Jobs /\ UNCHANGED <<sup, gen, mailbox, cmd, restarts>>
    BY <1>0, <1>9, <2>1, JobIs DEF StartObserver, JobSteps
  <2>7. QED
    BY <2>5, <2>6 DEF LifeTypes
<1>10. CASE CreateReplies
  <2>1. job.sid \in Sids
    BY <1>0, <1>10, JobAt, JobIs DEF CreateReplies, AtStep
  <2>2. cmd' \in [News -> [pc: CmdSteps, sid: Sids \cup {NoSid}]]
    BY <1>10, <2>1, ReplyTyped DEF CreateReplies, CmdSteps
  <2>3. job' = Idle /\ UNCHANGED <<sup, gen, obs, mailbox, restarts>>
    BY <1>10 DEF CreateReplies
  <2>4. QED
    BY <1>0, <2>2, <2>3 DEF LifeTypes
<1>11. CASE Redeliver
  BY <1>0, <1>11 DEF Redeliver, LifeTypes
<1>12. CASE EndUnknown
  <2>1. Head(mailbox) \in Requests /\ Tail(mailbox) \in Seq(Requests) /\ Head(mailbox).type = "end"
    BY <1>12, Served DEF EndUnknown
  <2>2. Head(mailbox).sid \in Sids
    BY <2>1 DEF Requests
  <2>3. cmd' \in [News -> [pc: CmdSteps, sid: Sids \cup {NoSid}]]
    BY <1>12, <2>2, ReplyTyped DEF EndUnknown, CmdSteps
  <2>4. mailbox' = Tail(mailbox) /\ UNCHANGED <<sup, gen, obs, job, restarts>>
    BY <1>12 DEF EndUnknown
  <2>5. QED
    BY <1>0, <2>1, <2>3, <2>4 DEF LifeTypes
<1>13. CASE EndFind
  <2>1. Head(mailbox) \in Requests /\ Tail(mailbox) \in Seq(Requests) /\ Head(mailbox).type = "end"
    BY <1>13, Served DEF EndFind
  <2>2. Head(mailbox).sid \in Sids
    BY <2>1 DEF Requests
  <2>3. /\ mailbox' = Tail(mailbox)
        /\ job' = [pc |-> "stopping", req |-> Head(mailbox), sid |-> Head(mailbox).sid,
                   pid |-> gen[Head(mailbox).sid], missing |-> FALSE]
        /\ UNCHANGED <<sup, gen, obs, cmd, restarts>>
    BY <1>13 DEF EndFind
  <2>4. job' \in Jobs
    BY <1>0, <2>1, <2>2, <2>3 DEF Jobs, JobSteps
  <2>5. QED
    BY <1>0, <2>1, <2>3, <2>4 DEF LifeTypes
<1>13a. CASE EndStop
  <2>1. job # Idle
    BY <1>0, <1>13a, JobAt DEF EndStop, AtStep
  <2>2. job' \in Jobs /\ sup' = [sup EXCEPT ![job.sid] = "down"]
        /\ UNCHANGED <<gen, obs, mailbox, cmd, restarts>>
    BY <1>0, <1>13a, <2>1, JobIs DEF EndStop, JobSteps
  <2>3. QED
    BY <1>0, <2>2 DEF LifeTypes
<1>14. CASE EndDetach
  <2>1. job.sid \in Sids
    BY <1>0, <1>14, JobAt, JobIs DEF EndDetach, AtStep
  <2>2. cmd' \in [News -> [pc: CmdSteps, sid: Sids \cup {NoSid}]]
    BY <1>14, <2>1, ReplyTyped DEF EndDetach, CmdSteps
  <2>3. job' = Idle /\ UNCHANGED <<sup, gen, obs, mailbox, restarts>>
    BY <1>14 DEF EndDetach
  <2>4. QED
    BY <1>0, <2>2, <2>3 DEF LifeTypes
<1>15. QED
  BY <1>2, <1>3, <1>4, <1>5, <1>6, <1>7, <1>8, <1>9, <1>10, <1>11, <1>12, <1>13, <1>13a, <1>14
     DEF RouterStep

\* So does every step of the commands.
LEMMA CommandTypes ==
  ASSUME LifeTypes, CommandStep \/ \E n \in News : NewStep(n),
         \A n \in News : cmd[n].pc \in Owning => cmd[n].sid # NoSid
  PROVE  LifeTypes'
<1>0. mailbox \in Seq(Requests) /\ cmd \in [News -> [pc: CmdSteps, sid: Sids \cup {NoSid}]]
  BY DEF LifeTypes
<1>1. ASSUME NEW n \in News, NewStep(n) PROVE LifeTypes'
  <2>1. CASE NewFails(n)
    <3>1. PICK pc \in {"created", "claimed"} : RollBack(n, pc)
      BY <1>1, <2>1 DEF NewFails
    <3>2. Step(n, pc, "rolling") /\ mailbox' = Append(mailbox, EndSession(cmd[n].sid, n))
      BY <3>1 DEF RollBack
    <3>3. cmd[n].sid \in Sids
      BY <1>0, <3>2 DEF Step, Owning
    <3>4. EndSession(cmd[n].sid, n) \in Requests
      BY <3>3 DEF EndSession, Requests
    <3>5. mailbox' \in Seq(Requests)
      BY <1>0, <3>2, <3>4
    <3>6. cmd' \in [News -> [pc: CmdSteps, sid: Sids \cup {NoSid}]]
      BY <3>2, StepTyped DEF CmdSteps
    <3>7. UNCHANGED <<sup, gen, obs, job, restarts>>
      BY <2>1 DEF NewFails
    <3>8. QED
      BY <3>5, <3>6, <3>7 DEF LifeTypes
  <2>2. CASE NewCreate(n)
    <3>1. Step(n, "checked", "creating") /\ mailbox' = Append(mailbox, Create(n))
      BY <2>2 DEF NewCreate
    <3>2. Create(n) \in Requests
      BY <2>2 DEF NewCreate, Create, Requests
    <3>3. mailbox' \in Seq(Requests)
      BY <1>0, <3>1, <3>2
    <3>4. cmd' \in [News -> [pc: CmdSteps, sid: Sids \cup {NoSid}]]
      BY <3>1, StepTyped DEF CmdSteps
    <3>5. UNCHANGED <<sup, gen, obs, job, restarts>>
      BY <2>2 DEF NewCreate
    <3>6. QED
      BY <3>3, <3>4, <3>5 DEF LifeTypes
  <2>3. CASE NewCheck(n) \/ NewTimeout(n) \/ NewClaim(n) \/ NewPersist(n) \/ NewAttach(n)
    <3>1. \E from, to \in CmdSteps : Step(n, from, to)
      BY <2>3 DEF NewCheck, NewTimeout, NewClaim, NewPersist, NewAttach, CmdSteps
    <3>2. cmd' \in [News -> [pc: CmdSteps, sid: Sids \cup {NoSid}]]
      BY <3>1, StepTyped
    <3>3. UNCHANGED <<sup, gen, obs, job, mailbox, restarts>>
      BY <2>3 DEF NewCheck, NewTimeout, NewClaim, NewPersist, NewAttach
    <3>4. QED
      BY <3>2, <3>3 DEF LifeTypes
  <2>4. CASE NewCreateDirect(n)
    <3>1. UNCHANGED <<gen, obs, job, mailbox, restarts>>
      BY <2>4 DEF NewCreateDirect
    <3>2. CASE Step(n, "checked", "failed") /\ UNCHANGED sup
      <4>1. cmd' \in [News -> [pc: CmdSteps, sid: Sids \cup {NoSid}]]
        BY <3>2, StepTyped DEF CmdSteps
      <4>2. QED
        BY <3>1, <3>2, <4>1 DEF LifeTypes
    <3>3. ASSUME NEW s \in Fresh, StartSession(s),
                 cmd' = [cmd EXCEPT ![n] = [pc |-> "created", sid |-> s]]
          PROVE  LifeTypes'
      <4>1. cmd' \in [News -> [pc: CmdSteps, sid: Sids \cup {NoSid}]]
        BY <1>0, <3>3 DEF CmdSteps, Fresh
      <4>2. sup' \in [Sids -> {"unused", "up", "restarting", "down"}]
        BY <3>3 DEF StartSession, LifeTypes
      <4>3. QED
        BY <3>1, <4>1, <4>2 DEF LifeTypes
    <3>4. QED
      BY <2>4, <3>2, <3>3 DEF NewCreateDirect
  <2>5. QED
    BY <1>1, <2>1, <2>2, <2>3, <2>4 DEF NewStep
<1>2. ASSUME NEW s \in Sids, CmdEnd(s) PROVE LifeTypes'
  <2>1. EndSession(s, NoCmd) \in Requests
    BY DEF EndSession, Requests
  <2>2. mailbox' \in Seq(Requests) /\ UNCHANGED <<sup, gen, obs, job, cmd, restarts>>
    BY <1>0, <1>2, <2>1 DEF CmdEnd
  <2>3. QED
    BY <2>2 DEF LifeTypes
<1>3. ASSUME NEW s \in Sids, NEW c \in Chats,
             CmdBindChat(c, s) \/ CmdUnbindChat(c, s) \/ CmdSwitch(c, s)
      PROVE  LifeTypes'
  BY <1>3 DEF CmdBindChat, CmdUnbindChat, CmdSwitch, LifeTypes
<1>4. QED
  BY <1>1, <1>2, <1>3 DEF CommandStep

\* And every step of the sessions' processes and the adapter.
LEMMA OtherTypes ==
  ASSUME LifeTypes,
         \/ \E s \in Sids : SessionStep(s) \/ ObserverDown(s)
         \/ AdapterStep \/ UNCHANGED vars
  PROVE  LifeTypes'
<1>0. mailbox \in Seq(Requests) /\ cmd \in [News -> [pc: CmdSteps, sid: Sids \cup {NoSid}]]
  BY DEF LifeTypes
<1>1. ASSUME NEW s \in Sids, SessionStep(s) \/ ObserverDown(s) PROVE LifeTypes'
  <2>1. CASE SupervisorRestart(s)
    <3>1. /\ sup' = [sup EXCEPT ![s] = "up"] /\ gen' = [gen EXCEPT ![s] = gen[s] + 1]
          /\ UNCHANGED <<obs, mailbox, job, cmd, restarts>>
      BY <2>1 DEF SupervisorRestart
    <3>2. gen[s] + 1 \in Nat
      BY DEF LifeTypes
    <3>3. QED
      BY <3>1, <3>2 DEF LifeTypes
  <2>2. CASE ~SupervisorRestart(s)
    BY <1>1, <2>2 DEF SessionStep, ObserverDown, FcpCrash, FcpRestart, IndexDown, SubtreeRestart,
                      SupervisorCrash, LifeTypes
  <2>3. QED
    BY <2>1, <2>2
<1>2. CASE AdapterStep
  <2>1. ASSUME NEW m \in Msgs, FaaUnrouted(m) PROVE LifeTypes'
    <3>1. NewChatThread(m) \in Requests
      BY DEF NewChatThread, Requests
    <3>2. mailbox' \in Seq(Requests) /\ UNCHANGED <<sup, gen, obs, job, cmd, restarts>>
      BY <1>0, <2>1, <3>1 DEF FaaUnrouted
    <3>3. QED
      BY <3>2 DEF LifeTypes
  <2>2. CASE \/ \E m \in Msgs : FaaRoute(m)
             \/ FaaForward \/ FaaCleanup \/ \E c \in Chats : GuideExpires(c)
             \/ FaaCrash \/ FaaRestart
    BY <2>2 DEF FaaRoute, FaaForward, FaaCleanup, GuideExpires, FaaCrash, FaaRestart, LifeTypes
  <2>3. QED
    BY <1>2, <2>1, <2>2 DEF AdapterStep
<1>3. CASE UNCHANGED vars
  BY <1>3 DEF LifeTypes
<1>4. QED
  BY <1>1, <1>2, <1>3

---------------------------------------------------------------------------
(* Who is attached where *)

\* Attaching adds one session to one chat.
LEMMA AttachedAfterAttach ==
  ASSUME RoutingInv, NEW c, NEW s, attach_session(c, s)
  PROVE  \A d \in Chats : routing'[d].attached = IF d = c THEN routing[d].attached \cup {s}
                                                         ELSE routing[d].attached
<1>1. routing' = [routing EXCEPT ![c] = AttachTo(routing[c], s)] /\ routing = [d \in Chats |-> routing[d]]
  BY DEF attach_session, RoutingInv
<1>2. QED
  BY <1>1 DEF AttachTo

\* Detaching takes it from that chat and adds nothing.
LEMMA AttachedAfterDetach ==
  ASSUME RoutingInv, NEW c, NEW s, detach_session(c, s)
  PROVE  \A d \in Chats : /\ routing'[d].attached \subseteq routing[d].attached
                          /\ d = c => s \notin routing'[d].attached
<1>1. PICK slot \in DetachFrom(routing[c], s) : routing' = [routing EXCEPT ![c] = slot]
  BY DEF detach_session
<1>2. routing = [d \in Chats |-> routing[d]]
  BY DEF RoutingInv
<1>3. slot.attached = routing[c].attached \ {s}
  BY <1>1 DEF DetachFrom
<1>4. QED
  BY <1>1, <1>2, <1>3

\* Detaching by id takes it from every chat.
LEMMA AttachedAfterDetachById ==
  ASSUME RoutingInv, NEW s, detach_session_by_id(s)
  PROVE  \A d \in Chats : /\ routing'[d].attached \subseteq routing[d].attached
                          /\ s \notin routing'[d].attached
<1>1. \A c \in Chats : routing'[c] \in AfterDetach(c, s)
  BY DEF detach_session_by_id
<1>2. ASSUME NEW c \in Chats, NEW slot \in DetachFrom(routing[c], s)
      PROVE slot.attached = routing[c].attached \ {s}
  BY DEF DetachFrom
<1>3. QED
  BY <1>1, <1>2 DEF AfterDetach

\* Switching changes no attachment.
LEMMA AttachedAfterSwitch ==
  ASSUME RoutingInv, NEW c, NEW s, CmdSwitch(c, s)
  PROVE  \A d \in Chats : routing'[d].attached = routing[d].attached
<1>1. /\ routing' = [routing EXCEPT ![c].current = s] /\ routing = [d \in Chats |-> routing[d]]
      /\ \A d \in Chats : routing[d] = [current |-> routing[d].current, attached |-> routing[d].attached]
  BY DEF CmdSwitch, RoutingInv, Coherent
<1>2. QED
  BY <1>1

---------------------------------------------------------------------------
(* Every attached session is watched *)

\* A step that starts no observer, attaches nothing new and does not take the router
\* away from a session it is attaching or ending.
LEMMA WatchFrame ==
  ASSUME LifeTypes, WatchInv, UNCHANGED obs,
         \A c \in Chats, s \in Sids :
           s \in routing'[c].attached /\ <<c, s>> \notin bound'
             => s \in routing[c].attached /\ <<c, s>> \notin bound,
         job' = job \/ job.pc # "attached",
         \A s \in Sids : sup'[s] = "unused" => sup[s] = "unused",
         Creating' => /\ sup'[job'.sid] # "unused" /\ job'.req.type # "end"
                      /\ job'.pc # "observed" => obs[job'.sid] = NoChat
  PROVE  WatchInv'
<1>1. ASSUME NEW c \in Chats, NEW s \in Sids,
             s \in routing'[c].attached, <<c, s>> \notin bound'
      PROVE \/ obs'[s] = c
            \/ job'.pc = "attached" /\ job'.sid = s /\ ChatFor(job'.req) = c
  BY <1>1 DEF WatchInv
<1>2. QED
  BY <1>1 DEF WatchInv, ChatFor

\* The steps of the router.
LEMMA RouterWatch ==
  ASSUME LifeTypes, RoutingInv, WatchInv, RouterStep
  PROVE  WatchInv'
<1>0. /\ job \in Jobs /\ sup \in [Sids -> {"unused", "up", "restarting", "down"}] /\ gen \in [Sids -> Nat]
      /\ obs \in [Sids -> Chats \cup {NoChat}] /\ NoChat \notin Chats
      /\ Idle.pc = "idle"
  BY ConstAssumption DEF LifeTypes, Idle
<1>1. CASE CreateRefused \/ EndUnknown
  <2>1. /\ UNCHANGED <<obs, routing, bound, sup>> /\ job = Idle /\ job' = Idle
    BY <1>1 DEF CreateRefused, EndUnknown, Serving, CreateFails
  <2>2. ~Creating'
    BY <1>0, <2>1 DEF Creating
  <2>3. QED
    BY <2>1, <2>2, WatchFrame
<1>2. CASE CreateStart
  <2>1. PICK s \in Fresh : /\ sup' = [sup EXCEPT ![s] = "up"]
                           /\ job' = [pc |-> "started", req |-> Head(mailbox), sid |-> s, pid |-> gen[s],
                                      missing |-> FALSE]
    BY <1>2 DEF CreateStart, StartSession
  <2>2. UNCHANGED <<obs, routing, bound>> /\ job = Idle /\ Head(mailbox).type # "end"
    BY <1>2 DEF CreateStart, Serving
  <2>3. s \in Sids /\ sup[s] = "unused"
    BY DEF Fresh
  <2>4. obs[s] = NoChat
    BY <2>3 DEF WatchInv
  <2>5. job'.sid = s /\ job'.req.type # "end" /\ sup'[s] = "up"
    BY <1>0, <2>1, <2>2, <2>3
  <2>6. QED
    BY <1>0, <2>1, <2>2, <2>3, <2>4, <2>5, WatchFrame
<1>3. CASE SpawnPipeline \/ VerifyComplete
  <2>1. job # Idle /\ job.pc \in {"started", "spawned"} /\ Creating
    BY <1>0, <1>3, JobAt DEF SpawnPipeline, VerifyComplete, AtStep, Creating, JobSteps
  <2>2. UNCHANGED <<obs, routing, bound, sup>> /\ job'.sid = job.sid /\ job'.req = job.req
    BY <1>0, <1>3, <2>1 DEF SpawnPipeline, VerifyComplete, Jobs
  <2>3. /\ sup[job.sid] # "unused" /\ job.req.type # "end" /\ obs[job.sid] = NoChat
    BY <2>1 DEF WatchInv
  <2>4. QED
    BY <2>1, <2>2, <2>3, WatchFrame
<1>4. CASE \/ SpawnFails \/ VerifyIncomplete \/ SpawnOnDeadSupervisor \/ CreateReplies
           \/ Redeliver \/ EndStopMissing
  <2>1. UNCHANGED <<obs, routing, bound, sup>> /\ job' = Idle /\ job.pc # "attached"
    BY <1>4 DEF SpawnFails, VerifyIncomplete, SpawnOnDeadSupervisor, CreateReplies, Redeliver,
                EndStopMissing, CreateFails, RouterCrash, AtStep
  <2>2. ~Creating'
    BY <1>0, <2>1 DEF Creating
  <2>3. QED
    BY <2>1, <2>2, WatchFrame
<1>5. CASE Register
  <2>1. /\ job # Idle /\ job.pc = "verified" /\ Creating
    BY <1>0, <1>5, JobAt DEF Register, AtStep, Creating, JobSteps
  <2>2. /\ job'.pc = "attached" /\ job'.sid = job.sid /\ job'.req = job.req
        /\ attach_session(ChatFor(job.req), job.sid) /\ UNCHANGED <<obs, bound, sup>>
    BY <1>0, <1>5, <2>1 DEF Register, Jobs
  <2>3. \A d \in Chats : routing'[d].attached = IF d = ChatFor(job.req)
                           THEN routing[d].attached \cup {job.sid} ELSE routing[d].attached
    BY <2>2, AttachedAfterAttach
  <2>4. /\ sup[job.sid] # "unused" /\ job.req.type # "end" /\ obs[job.sid] = NoChat
    BY <2>1 DEF WatchInv
  <2>5. ASSUME NEW c \in Chats, NEW s \in Sids, s \in routing'[c].attached, <<c, s>> \notin bound'
        PROVE obs'[s] = c \/ (job'.pc = "attached" /\ job'.sid = s /\ ChatFor(job'.req) = c)
    <3>1. CASE s \in routing[c].attached
      BY <2>1, <2>2, <2>5, <3>1 DEF WatchInv
    <3>2. CASE s \notin routing[c].attached
      BY <2>2, <2>3, <2>5, <3>2
    <3>3. QED
      BY <3>1, <3>2
  <2>6. QED
    BY <2>2, <2>4, <2>5 DEF WatchInv, ChatFor
<1>6. CASE StartObserver
  <2>1. /\ job # Idle /\ job.pc = "attached" /\ Creating
    BY <1>0, <1>6, JobAt DEF StartObserver, AtStep, Creating, JobSteps
  <2>2. job.sid \in Sids
    BY <1>0, <2>1, JobIs
  <2>3. /\ obs' = [obs EXCEPT ![job.sid] = ChatFor(job.req)] /\ UNCHANGED <<routing, bound, sup>>
        /\ job'.pc = "observed" /\ job'.sid = job.sid /\ job'.req = job.req
    BY <1>0, <1>6, <2>1, <2>2 DEF StartObserver, Jobs, Observe
  <2>4. /\ sup[job.sid] # "unused" /\ job.req.type # "end" /\ obs[job.sid] = NoChat
    BY <2>1 DEF WatchInv
  <2>5. ASSUME NEW c \in Chats, NEW s \in Sids, s \in routing'[c].attached, <<c, s>> \notin bound'
        PROVE obs'[s] = c
    <3>1. obs[s] = c \/ (job.sid = s /\ ChatFor(job.req) = c)
      BY <2>1, <2>3, <2>5 DEF WatchInv
    <3>2. QED
      BY <1>0, <2>2, <2>3, <2>4, <3>1
  <2>6. \A s \in Sids : sup'[s] = "unused" => obs'[s] = NoChat
    BY <1>0, <2>2, <2>3, <2>4 DEF WatchInv
  <2>7. QED
    BY <2>3, <2>4, <2>5, <2>6 DEF WatchInv
<1>7. CASE EndFind
  <2>1. /\ job = Idle /\ UNCHANGED <<obs, routing, bound, sup>> /\ job'.pc = "stopping"
    BY <1>7 DEF EndFind, Serving
  <2>2. ~Creating'
    BY <2>1 DEF Creating
  <2>3. QED
    BY <1>0, <2>1, <2>2, WatchFrame
<1>7a. CASE EndStop
  <2>1. job # Idle /\ job.pc = "stopping"
    BY <1>0, <1>7a, JobAt DEF EndStop, AtStep
  <2>2. /\ UNCHANGED <<obs, routing, bound>> /\ job'.pc = "stopped"
        /\ sup' = [sup EXCEPT ![job.sid] = "down"]
    BY <1>0, <1>7a, <2>1 DEF EndStop, Jobs
  <2>3. ~Creating' /\ \A s \in Sids : sup'[s] = "unused" => sup[s] = "unused"
    BY <1>0, <2>2 DEF Creating
  <2>4. QED
    BY <2>1, <2>2, <2>3, WatchFrame
<1>8. CASE EndDetach
  <2>1. /\ job.pc = "stopped" /\ detach_session_by_id(job.sid) /\ UNCHANGED <<obs, bound, sup>>
        /\ job' = Idle
    BY <1>8 DEF EndDetach, AtStep
  <2>2. \A d \in Chats : /\ routing'[d].attached \subseteq routing[d].attached
                         /\ job.sid \notin routing'[d].attached
    BY <2>1, AttachedAfterDetachById
  <2>3. ASSUME NEW c \in Chats, NEW s \in Sids, s \in routing'[c].attached, <<c, s>> \notin bound'
        PROVE obs'[s] = c
    BY <2>1, <2>2, <2>3 DEF WatchInv
  <2>4. ~Creating'
    BY <1>0, <2>1 DEF Creating
  <2>5. QED
    BY <2>1, <2>3, <2>4 DEF WatchInv
<1>9. QED
  BY <1>1, <1>2, <1>3, <1>4, <1>5, <1>6, <1>7, <1>7a, <1>8 DEF RouterStep

\* The steps of everybody else.
LEMMA OtherWatch ==
  ASSUME LifeTypes, RoutingInv, WatchInv,
         \/ \E s \in Sids : SessionStep(s) \/ ObserverDown(s)
         \/ \E n \in News : NewStep(n)
         \/ CommandStep \/ AdapterStep \/ UNCHANGED vars
  PROVE  WatchInv'
<1>0. /\ sup \in [Sids -> {"unused", "up", "restarting", "down"}] /\ gen \in [Sids -> Nat] /\ obs \in [Sids -> Chats \cup {NoChat}]
      /\ NoChat \notin Chats
  BY ConstAssumption DEF LifeTypes
\* The router and the observers at rest, and nothing attached that is not bound.
<1>1. ASSUME UNCHANGED <<obs, job>>, \A s \in Sids : sup'[s] = "unused" => sup[s] = "unused",
             \A s \in Sids : sup[s] # "unused" => sup'[s] # "unused",
             \A c \in Chats, s \in Sids :
               s \in routing'[c].attached /\ <<c, s>> \notin bound'
                 => s \in routing[c].attached /\ <<c, s>> \notin bound
      PROVE WatchInv'
  <2>1. Creating' => Creating
    BY <1>1 DEF Creating
  <2>2. Creating => job.sid \in Sids
    BY JobAt, JobIs DEF Creating, LifeTypes
  <2>3. Creating' => /\ sup'[job'.sid] # "unused" /\ job'.req.type # "end"
                     /\ job'.pc # "observed" => obs[job'.sid] = NoChat
    BY <1>1, <2>1, <2>2 DEF WatchInv
  <2>4. QED
    BY <1>1, <2>3, WatchFrame
<1>2. ASSUME NEW s \in Sids, SessionStep(s) PROVE WatchInv'
  <2>1. UNCHANGED <<obs, job, routing, bound>>
    BY <1>2 DEF SessionStep, FcpCrash, FcpRestart, IndexDown, SubtreeRestart, SupervisorCrash,
                SupervisorRestart
  <2>2. \/ sup' = sup
        \/ sup[s] = "up" /\ sup' = [sup EXCEPT ![s] = "restarting"]
        \/ sup[s] = "restarting" /\ sup' = [sup EXCEPT ![s] = "up"]
    BY <1>2 DEF SessionStep, FcpCrash, FcpRestart, IndexDown, SubtreeRestart, SupervisorCrash,
                SupervisorRestart
  <2>3. QED
    BY <1>0, <1>1, <2>1, <2>2
<1>3. ASSUME NEW s \in Sids, ObserverDown(s) PROVE WatchInv'
  <2>1. /\ obs' = [obs EXCEPT ![s] = NoChat] /\ UNCHANGED <<job, sup, bound>>
        /\ detach_session(obs[s], s)
    BY <1>3 DEF ObserverDown
  <2>2. \A d \in Chats : /\ routing'[d].attached \subseteq routing[d].attached
                         /\ d = obs[s] => s \notin routing'[d].attached
    BY <2>1, AttachedAfterDetach
  <2>3. ASSUME NEW c \in Chats, NEW x \in Sids, x \in routing'[c].attached, <<c, x>> \notin bound'
        PROVE \/ obs'[x] = c
              \/ job'.pc = "attached" /\ job'.sid = x /\ ChatFor(job'.req) = c
    <3>1. \/ obs[x] = c
          \/ job.pc = "attached" /\ job.sid = x /\ ChatFor(job.req) = c
      BY <2>1, <2>2, <2>3 DEF WatchInv
    <3>2. obs[x] = c => x # s
      BY <2>2, <2>3
    <3>3. QED
      BY <1>0, <2>1, <3>1, <3>2
  <2>4. \A x \in Sids : obs[x] = NoChat => obs'[x] = NoChat
    BY <1>0, <2>1
  <2>5. Creating' => Creating /\ job.sid \in Sids
    BY <2>1, JobAt, JobIs DEF Creating, LifeTypes
  <2>6. QED
    BY <2>1, <2>3, <2>4, <2>5 DEF WatchInv, ChatFor
<1>4. ASSUME NEW n \in News, NewStep(n) PROVE WatchInv'
  <2>1. CASE NewAttach(n)
    <3>1. UNCHANGED <<obs, job, sup>>
      BY <2>1 DEF NewAttach
    <3>2. bound' = IF NewChat[n] = NoChat \/ cmd[n].sid \in routing[NewChat[n]].attached
                     THEN bound ELSE bound \cup {<<NewChat[n], cmd[n].sid>>}
      BY <2>1 DEF NewAttach
    <3>3. CASE UNCHANGED routing
      BY <1>1, <3>1, <3>2, <3>3
    <3>4. CASE NewChat[n] # NoChat /\ attach_session(NewChat[n], cmd[n].sid)
      <4>1. \A d \in Chats : routing'[d].attached = IF d = NewChat[n]
                               THEN routing[d].attached \cup {cmd[n].sid} ELSE routing[d].attached
        BY <3>4, AttachedAfterAttach
      <4>2. QED
        BY <1>1, <3>1, <3>2, <3>4, <4>1
    <3>5. QED
      BY <2>1, <3>3, <3>4 DEF NewAttach
  <2>2. CASE NewCreateDirect(n)
    <3>1. UNCHANGED <<obs, job, routing, bound>>
      BY <2>2 DEF NewCreateDirect
    <3>2. UNCHANGED sup \/ \E s \in Sids : sup' = [sup EXCEPT ![s] = "up"]
      BY <2>2 DEF NewCreateDirect, StartSession, Fresh
    <3>3. QED
      BY <1>0, <1>1, <3>1, <3>2
  <2>3. CASE ~NewAttach(n) /\ ~NewCreateDirect(n)
    <3>1. UNCHANGED <<obs, job, sup, routing, bound>>
      BY <1>4, <2>3 DEF NewStep, NewCheck, NewCreate, NewTimeout, NewClaim, NewFails, NewPersist
    <3>2. QED
      BY <1>1, <3>1
  <2>4. QED
    BY <2>1, <2>2, <2>3
<1>5. ASSUME NEW s \in Sids, CmdEnd(s) PROVE WatchInv'
  BY <1>1, <1>5 DEF CmdEnd
<1>6. ASSUME NEW s \in Sids, NEW c \in Chats, CmdBindChat(c, s) PROVE WatchInv'
  <2>1. \A d \in Chats : routing'[d].attached = IF d = c THEN routing[d].attached \cup {s}
                                                        ELSE routing[d].attached
    BY <1>6, AttachedAfterAttach DEF CmdBindChat
  <2>2. bound' = bound \cup {<<c, s>>} /\ UNCHANGED <<obs, job, sup>>
    BY <1>6 DEF CmdBindChat
  <2>3. QED
    BY <1>1, <2>1, <2>2
<1>7. ASSUME NEW s \in Sids, NEW c \in Chats, CmdUnbindChat(c, s) PROVE WatchInv'
  <2>1. \A d \in Chats : /\ routing'[d].attached \subseteq routing[d].attached
                         /\ d = c => s \notin routing'[d].attached
    BY <1>7, AttachedAfterDetach DEF CmdUnbindChat
  <2>2. bound' = bound \ {<<c, s>>} /\ UNCHANGED <<obs, job, sup>>
    BY <1>7 DEF CmdUnbindChat
  <2>3. \A d \in Chats, x \in Sids : x \in routing'[d].attached /\ <<d, x>> \notin bound'
          => x \in routing[d].attached /\ <<d, x>> \notin bound
    BY <2>1, <2>2
  <2>4. QED
    BY <1>1, <2>2, <2>3
<1>8. ASSUME NEW s \in Sids, NEW c \in Chats, CmdSwitch(c, s) PROVE WatchInv'
  <2>1. \A d \in Chats : routing'[d].attached = routing[d].attached
    BY <1>8, AttachedAfterSwitch
  <2>2. UNCHANGED <<obs, job, sup, bound>>
    BY <1>8 DEF CmdSwitch
  <2>3. QED
    BY <1>1, <2>1, <2>2
<1>9. CASE AdapterStep
  <2>1. UNCHANGED <<obs, job, sup, bound>>
    BY <1>9 DEF AdapterStep, FaaRoute, FaaUnrouted, FaaForward, FaaCleanup, GuideExpires, FaaCrash,
                FaaRestart
  <2>2. \A d \in Chats : routing'[d].attached \subseteq routing[d].attached
    <3>1. CASE FaaCleanup
      BY <3>1, AttachedAfterDetach DEF FaaCleanup
    <3>2. CASE ~FaaCleanup
      BY <1>9, <3>2 DEF AdapterStep, FaaRoute, FaaUnrouted, FaaForward, GuideExpires, FaaCrash,
                          FaaRestart
    <3>3. QED
      BY <3>1, <3>2
  <2>3. QED
    BY <1>1, <2>1, <2>2
<1>10. CASE UNCHANGED vars
  BY <1>1, <1>10
<1>11. QED
  BY <1>2, <1>3, <1>4, <1>5, <1>6, <1>7, <1>8, <1>9, <1>10 DEF CommandStep

---------------------------------------------------------------------------
(* Whose session it is *)

\* The first supervisor of s is gone after the step.
GoneAfter(s) == sup'[s] \in {"restarting", "down"} \/ (sup'[s] = "up" /\ gen'[s] > 0)

\* Commands move on with the session they have.
CmdKept ==
  \A n \in News :
    /\ cmd'[n].sid = cmd[n].sid
    /\ cmd'[n].pc \in Early => cmd[n].pc \in Early
    /\ cmd'[n].pc \in Owning => cmd[n].pc \in Owning
    /\ cmd[n].pc \in Ended => cmd'[n].pc \in Ended
    /\ cmd'[n].pc = "rolled_back" =>
         cmd[n].pc = "rolled_back" \/ GoneAfter(cmd[n].sid)

\* End requests in the mailbox were there, or come from a command that rolls back.
EndsKept ==
  \A r \in EndRequests(mailbox') :
    r.from \in News =>
      \/ r \in EndRequests(mailbox)
      \/ cmd'[r.from].pc = "rolling" /\ cmd'[r.from].sid = r.sid

\* A session's first supervisor does not come back to life.
SupKept ==
  \A s \in Sids : /\ sup[s] # "unused" => sup'[s] # "unused"
                  /\ FirstGone(s) => GoneAfter(s)

\* The router goes on with its session, takes a fresh one, or takes up an end request.
Ending == {"stopping", "stopped"}
JobKept ==
  /\ Creating' => (Creating /\ job'.sid = job.sid) \/ sup[job'.sid] = "unused"
  /\ job'.pc \in Ending =>
       \/ job' = job
       \/ /\ job'.req \in EndRequests(mailbox) /\ job'.req.sid = job'.sid
          /\ job'.pc = "stopping"
       \/ /\ job.pc = "stopping" /\ job'.req = job.req /\ job'.sid = job.sid
          /\ GoneAfter(job.sid)

\* Such a step keeps every session with its command.
LEMMA CommandFrame ==
  ASSUME LifeTypes, LifeTypes', CommandInv, CmdKept, EndsKept, SupKept, JobKept
  PROVE  CommandInv'
<1>0. /\ \A n \in News : cmd[n].sid \in Sids \cup {NoSid}
      /\ NoSid \notin Sids
      /\ job'.pc # "idle" => job'.sid \in Sids
  <2>1. job'.pc # "idle" => job'.sid \in Sids
    BY DEF LifeTypes, Jobs, Idle
  <2>2. QED
    BY <2>1, ConstAssumption DEF LifeTypes
<1>1. ASSUME NEW n \in News
      PROVE /\ cmd'[n].sid # NoSid => sup'[cmd'[n].sid] # "unused"
            /\ cmd'[n].sid # NoSid /\ Creating' => cmd'[n].sid # job'.sid
            /\ cmd'[n].pc \in Early => cmd'[n].sid = NoSid
            /\ cmd'[n].pc \in Owning => cmd'[n].sid # NoSid
  BY <1>0 DEF CommandInv, CmdKept, SupKept, JobKept
<1>2. ASSUME NEW n \in News, cmd'[n].pc = "rolled_back"
      PROVE GoneAfter(cmd[n].sid) /\ cmd'[n].sid = cmd[n].sid
  <2>1. cmd'[n].sid = cmd[n].sid
    BY DEF CmdKept
  <2>2. CASE cmd[n].pc # "rolled_back"
    BY <1>2, <2>1, <2>2 DEF CmdKept
  <2>3. CASE cmd[n].pc = "rolled_back"
    <3>1. cmd[n].sid \in Sids /\ FirstGone(cmd[n].sid)
      BY <1>0, <2>3 DEF CommandInv, Owning
    <3>2. QED
      BY <2>1, <3>1 DEF SupKept
  <2>4. QED
    BY <2>2, <2>3
<1>3. \A n, k \in News : cmd'[n].sid = cmd'[k].sid /\ cmd'[n].sid # NoSid => n = k
  BY DEF CommandInv, CmdKept
<1>4. ASSUME NEW r, FromOwner(r), r.from \in News
      PROVE cmd'[r.from].pc \in Ended /\ cmd'[r.from].sid = r.sid
  BY <1>4 DEF FromOwner, CmdKept
<1>5. ASSUME NEW r \in EndRequests(mailbox'), r.from \in News
      PROVE cmd'[r.from].pc \in Ended /\ cmd'[r.from].sid = r.sid
  <2>1. CASE r \in EndRequests(mailbox)
    BY <1>4, <1>5, <2>1 DEF CommandInv
  <2>2. CASE cmd'[r.from].pc = "rolling" /\ cmd'[r.from].sid = r.sid
    BY <2>2 DEF Ended
  <2>3. QED
    BY <1>5, <2>1, <2>2 DEF EndsKept
<1>6. ASSUME job'.pc \in Ending
      PROVE /\ job'.req.type = "end" /\ job'.req.sid = job'.sid
            /\ job'.req.from \in News =>
                 cmd'[job'.req.from].pc \in Ended /\ cmd'[job'.req.from].sid = job'.req.sid
            /\ job'.pc = "stopped" => GoneAfter(job'.sid)
  <2>0. job'.sid \in Sids
    BY <1>0, <1>6 DEF Ending
  <2>1. CASE job' = job
    <3>1. /\ job.req.type = "end" /\ job.req.sid = job.sid /\ FromOwner(job.req)
          /\ job.pc = "stopped" => FirstGone(job.sid)
      BY <1>6, <2>1 DEF CommandInv, Ending
    <3>2. job.pc = "stopped" => GoneAfter(job.sid)
      BY <2>0, <2>1, <3>1 DEF SupKept
    <3>3. QED
      BY <1>4, <2>1, <3>1, <3>2
  <2>2. CASE /\ job'.req \in EndRequests(mailbox) /\ job'.req.sid = job'.sid
             /\ job'.pc = "stopping"
    <3>1. job'.req.type = "end"
      BY <2>2 DEF EndRequests
    <3>2. QED
      BY <1>4, <2>2, <3>1 DEF CommandInv
  <2>3. CASE /\ job.pc = "stopping" /\ job'.req = job.req /\ job'.sid = job.sid
             /\ GoneAfter(job.sid)
    <3>1. job.req.type = "end" /\ job.req.sid = job.sid /\ FromOwner(job.req)
      BY <2>3 DEF CommandInv
    <3>2. QED
      BY <1>4, <2>3, <3>1
  <2>4. QED
    BY <1>6, <2>1, <2>2, <2>3 DEF JobKept
<1>7. EndRequests(mailbox)' = EndRequests(mailbox')
  BY DEF EndRequests
<1>8. QED
  BY <1>1, <1>2, <1>3, <1>5, <1>6, <1>7 DEF CommandInv, FromOwner, Ending, FirstGone, GoneAfter

\* End requests and the two ends of the mailbox.
LEMMA EndsTail ==
  ASSUME mailbox \in Seq(Requests), mailbox # << >>, mailbox' = Tail(mailbox)
  PROVE  /\ EndRequests(mailbox') \subseteq EndRequests(mailbox)
         /\ Head(mailbox).type = "end" => Head(mailbox) \in EndRequests(mailbox)
<1>1. \A i \in DOMAIN Tail(mailbox) : i + 1 \in DOMAIN mailbox /\ Tail(mailbox)[i] = mailbox[i + 1]
  OBVIOUS
<1>2. 1 \in DOMAIN mailbox /\ Head(mailbox) = mailbox[1]
  OBVIOUS
<1>3. QED
  BY <1>1, <1>2 DEF EndRequests

LEMMA EndsAppend ==
  ASSUME mailbox \in Seq(Requests), NEW e \in Requests, mailbox' = Append(mailbox, e)
  PROVE  \A r \in EndRequests(mailbox') : r \in EndRequests(mailbox) \/ (r = e /\ e.type = "end")
<1>1. \A i \in DOMAIN Append(mailbox, e) :
        (i \in DOMAIN mailbox /\ Append(mailbox, e)[i] = mailbox[i]) \/ Append(mailbox, e)[i] = e
  OBVIOUS
<1>2. ASSUME NEW r \in EndRequests(mailbox')
      PROVE r \in EndRequests(mailbox) \/ (r = e /\ e.type = "end")
  <2>1. PICK i \in DOMAIN Append(mailbox, e) : r = Append(mailbox, e)[i]
    BY DEF EndRequests
  <2>2. r.type = "end"
    BY DEF EndRequests
  <2>3. QED
    BY <1>1, <2>1, <2>2 DEF EndRequests
<1>3. QED
  BY <1>2

\* A command's own step, if it goes where a command may go by itself.
LEMMA StepKept ==
  ASSUME LifeTypes, NEW n \in News, NEW from, NEW to \in CmdSteps, Step(n, from, to),
         to \in Early => from \in Early, to \in Owning => from \in Owning,
         from \in Ended => to \in Ended, to # "rolled_back"
  PROVE  CmdKept
<1>1. /\ cmd'[n].pc = to /\ cmd'[n].sid = cmd[n].sid /\ cmd[n].pc = from
      /\ \A k \in News : k # n => cmd'[k] = cmd[k]
  BY StepTyped DEF Step
<1>2. QED
  BY <1>1 DEF CmdKept

\* The router's answer to an end request.
LEMMA EndReplied ==
  ASSUME LifeTypes, NEW r, FromOwner(r), Reply(r.from, "rolling", "rolled_back", r.sid),
         GoneAfter(r.sid)
  PROVE  CmdKept
<1>1. CASE r.from \in News /\ cmd[r.from].pc = "rolling"
  <2>1. PICK n \in News : n = r.from
    BY <1>1
  <2>2. cmd' = [cmd EXCEPT ![n] = [pc |-> "rolled_back", sid |-> r.sid]] /\ cmd[n].sid = r.sid
    BY <1>1, <2>1 DEF Reply, FromOwner
  <2>3. /\ cmd'[n].pc = "rolled_back" /\ cmd'[n].sid = cmd[n].sid
        /\ \A k \in News : k # n => cmd'[k] = cmd[k]
    BY <2>2 DEF LifeTypes
  <2>4. QED
    BY <1>1, <2>1, <2>2, <2>3 DEF CmdKept, Early, Owning, Ended
<1>2. CASE ~(r.from \in News /\ cmd[r.from].pc = "rolling")
  <2>1. cmd' = cmd
    BY <1>2 DEF Reply
  <2>2. QED
    BY <2>1 DEF CmdKept
<1>3. QED
  BY <1>1, <1>2

\* A create request that fails.
LEMMA FailKept ==
  ASSUME LifeTypes, CommandInv, NEW req, CreateFails(req)
  PROVE  CmdKept
<1>1. CASE cmd' = cmd
  BY <1>1 DEF CmdKept
<1>2. CASE cmd' # cmd
  <2>1. PICK n \in News : /\ cmd[n].pc = "creating"
                          /\ cmd' = [cmd EXCEPT ![n] = [pc |-> "failed", sid |-> NoSid]]
    BY <1>2 DEF CreateFails, Reply
  <2>2. cmd[n].sid = NoSid
    BY <2>1 DEF CommandInv, Early
  <2>3. /\ cmd'[n].pc = "failed" /\ cmd'[n].sid = cmd[n].sid
        /\ \A k \in News : k # n => cmd'[k] = cmd[k]
    BY <2>1, <2>2 DEF LifeTypes
  <2>4. QED
    BY <2>1, <2>3 DEF CmdKept, Early, Owning, Ended
<1>3. QED
  BY <1>1, <1>2

\* A fresh session gets its first supervisor.
LEMMA FreshStarted ==
  ASSUME LifeTypes, NEW s \in Fresh, StartSession(s), UNCHANGED gen
  PROVE  SupKept
<1>1. s \in Sids /\ sup[s] = "unused" /\ sup' = [sup EXCEPT ![s] = "up"]
  BY DEF Fresh, StartSession
<1>2. sup'[s] = "up" /\ \A x \in Sids : x # s => sup'[x] = sup[x]
  BY <1>1 DEF LifeTypes
<1>3. QED
  BY <1>1, <1>2 DEF SupKept, FirstGone, GoneAfter

\* A session's supervisor exits by itself, or is started again.
LEMMA Restarted ==
  ASSUME LifeTypes, NEW s \in Sids,
         \/ UNCHANGED <<sup, gen>>
         \/ sup[s] = "up" /\ sup' = [sup EXCEPT ![s] = "restarting"] /\ UNCHANGED gen
         \/ /\ sup[s] = "restarting" /\ sup' = [sup EXCEPT ![s] = "up"]
            /\ gen' = [gen EXCEPT ![s] = @ + 1]
  PROVE  SupKept
<1>1. \A x \in Sids : x # s => sup'[x] = sup[x] /\ gen'[x] = gen[x]
  BY DEF LifeTypes
<1>2. \/ sup'[s] = sup[s] /\ gen'[s] = gen[s]
      \/ sup'[s] = "restarting"
      \/ sup'[s] = "up" /\ gen'[s] > 0
  BY DEF LifeTypes
<1>3. QED
  BY <1>1, <1>2 DEF SupKept, FirstGone, GoneAfter

\* A command is told of the session that was made for it.
LEMMA GetsSession ==
  ASSUME LifeTypes, CommandInv, NEW n \in News, NEW s \in Sids, cmd[n].pc \in Early,
         cmd' = [cmd EXCEPT ![n] = [pc |-> "created", sid |-> s]], UNCHANGED mailbox,
         \A k \in News : cmd[k].sid # s, sup'[s] # "unused", SupKept,
         Creating' => Creating /\ job'.sid = job.sid /\ job.sid # s,
         job'.pc \in Ending => job' = job
  PROVE  CommandInv'
<1>0. NoSid \notin Sids /\ \A k \in News : cmd[k].sid \in Sids \cup {NoSid}
  BY ConstAssumption DEF LifeTypes
<1>1. /\ cmd'[n].pc = "created" /\ cmd'[n].sid = s
      /\ \A k \in News : k # n => cmd'[k] = cmd[k]
  BY DEF LifeTypes
<1>2. ASSUME NEW k \in News
      PROVE /\ cmd'[k].sid # NoSid => sup'[cmd'[k].sid] # "unused"
            /\ cmd'[k].sid # NoSid /\ Creating' => cmd'[k].sid # job'.sid
            /\ cmd'[k].pc \in Early => cmd'[k].sid = NoSid
            /\ cmd'[k].pc \in Owning => cmd'[k].sid # NoSid
            /\ cmd'[k].pc = "rolled_back" => GoneAfter(cmd'[k].sid)
  <2>1. CASE k = n
    BY <1>0, <1>1, <2>1 DEF Early
  <2>2. CASE k # n
    <3>1. cmd[k].sid \in Sids \/ cmd[k].sid = NoSid
      BY <1>0
    <3>2. cmd[k].pc = "rolled_back" => cmd[k].sid \in Sids
      BY <3>1 DEF CommandInv, Owning
    <3>3. QED
      BY <1>0, <1>1, <2>2, <3>1, <3>2 DEF CommandInv, SupKept
  <2>3. QED
    BY <2>1, <2>2
<1>3. \A k, l \in News : cmd'[k].sid = cmd'[l].sid /\ cmd'[k].sid # NoSid => k = l
  BY <1>1 DEF CommandInv
<1>4. ASSUME NEW r, FromOwner(r), r.from \in News
      PROVE cmd'[r.from].pc \in Ended /\ cmd'[r.from].sid = r.sid
  <2>1. cmd[r.from].pc \in Ended /\ cmd[r.from].sid = r.sid
    BY <1>4 DEF FromOwner
  <2>2. r.from # n
    BY <2>1 DEF Ended, Early
  <2>3. QED
    BY <1>1, <1>4, <2>1, <2>2
<1>5. ASSUME job'.pc \in Ending
      PROVE /\ job'.req.type = "end" /\ job'.req.sid = job'.sid
            /\ job'.req.from \in News =>
                 cmd'[job'.req.from].pc \in Ended /\ cmd'[job'.req.from].sid = job'.req.sid
            /\ job'.pc = "stopped" => GoneAfter(job'.sid)
  <2>1. /\ job' = job /\ job.req.type = "end" /\ job.req.sid = job.sid /\ FromOwner(job.req)
        /\ job.pc = "stopped" => FirstGone(job.sid)
    BY <1>5 DEF CommandInv, Ending
  <2>2. job.sid \in Sids
    BY <1>5, <2>1, JobAt, JobIs DEF Ending, LifeTypes
  <2>3. QED
    BY <1>4, <2>1, <2>2 DEF SupKept
<1>6. EndRequests(mailbox)' = EndRequests(mailbox)
  BY DEF EndRequests
<1>7. QED
  BY <1>2, <1>3, <1>4, <1>5, <1>6 DEF CommandInv, FromOwner, Ending, FirstGone, GoneAfter

\* The router's steps keep every session with its command.
LEMMA RouterCommand ==
  ASSUME LifeTypes, LifeTypes', WatchInv, CommandInv, RouterStep
  PROVE  CommandInv'
<1>0. /\ job \in Jobs /\ sup \in [Sids -> {"unused", "up", "restarting", "down"}] /\ gen \in [Sids -> Nat] /\ mailbox \in Seq(Requests)
      /\ cmd \in [News -> [pc: CmdSteps, sid: Sids \cup {NoSid}]]
      /\ Idle.pc = "idle" /\ NoSid \notin Sids
  BY ConstAssumption DEF LifeTypes, Idle
<1>1. ASSUME job' = Idle PROVE JobKept
  BY <1>0, <1>1 DEF JobKept, Creating, Ending
<1>2. ASSUME UNCHANGED <<sup, gen>> PROVE SupKept
  BY <1>2 DEF SupKept, FirstGone, GoneAfter
<1>3. ASSUME UNCHANGED mailbox PROVE EndsKept
  BY <1>3 DEF EndsKept
<1>4. ASSUME Serving, mailbox' = Tail(mailbox)
      PROVE EndsKept /\ (Head(mailbox).type = "end" => Head(mailbox) \in EndRequests(mailbox))
  <2>1. /\ EndRequests(mailbox') \subseteq EndRequests(mailbox)
        /\ Head(mailbox).type = "end" => Head(mailbox) \in EndRequests(mailbox)
    BY <1>0, <1>4, EndsTail DEF Serving
  <2>2. QED
    BY <2>1 DEF EndsKept
<1>5. ASSUME UNCHANGED cmd PROVE CmdKept
  BY <1>5 DEF CmdKept
<1>6. CASE CreateRefused
  <2>1. CreateFails(Head(mailbox)) /\ UNCHANGED <<sup, gen>> /\ Serving /\ mailbox' = Tail(mailbox) /\ job' = Idle
    BY <1>6 DEF CreateRefused, CreateFails
  <2>2. CmdKept
    BY <2>1, FailKept
  <2>3. QED
    BY <1>1, <1>2, <1>4, <2>1, <2>2, CommandFrame
<1>7. CASE CreateStart
  <2>1. PICK s \in Fresh : /\ sup' = [sup EXCEPT ![s] = "up"]
                           /\ job' = [pc |-> "started", req |-> Head(mailbox), sid |-> s, pid |-> gen[s],
                                      missing |-> FALSE]
    BY <1>7 DEF CreateStart, StartSession
  <2>2. Serving /\ mailbox' = Tail(mailbox) /\ UNCHANGED <<gen, cmd>>
    BY <1>7 DEF CreateStart
  <2>3. s \in Sids /\ sup[s] = "unused"
    BY DEF Fresh
  <2>4. SupKept /\ JobKept
    BY <2>1, <2>2, <2>3, FreshStarted DEF StartSession, JobKept, Ending
  <2>5. QED
    BY <1>4, <1>5, <2>2, <2>4, CommandFrame
<1>8. CASE SpawnPipeline \/ VerifyComplete \/ Register \/ StartObserver
  <2>1. job # Idle /\ Creating
    BY <1>0, <1>8, JobAt DEF SpawnPipeline, VerifyComplete, Register, StartObserver, AtStep,
                             Creating, JobSteps
  <2>2. /\ UNCHANGED <<sup, gen, mailbox, cmd>> /\ job'.sid = job.sid
        /\ job'.pc \notin Ending
    BY <1>0, <1>8, <2>1 DEF SpawnPipeline, VerifyComplete, Register, StartObserver, Jobs, Ending
  <2>3. JobKept
    BY <2>1, <2>2 DEF JobKept
  <2>4. QED
    BY <1>2, <1>3, <1>5, <2>2, <2>3, CommandFrame
<1>9. CASE SpawnFails
  <2>1. CreateFails(job.req) /\ UNCHANGED <<sup, gen, mailbox>> /\ job' = Idle
    BY <1>9 DEF SpawnFails, CreateFails
  <2>2. CmdKept
    BY <2>1, FailKept
  <2>3. QED
    BY <1>1, <1>2, <1>3, <2>1, <2>2, CommandFrame
<1>10. CASE VerifyIncomplete \/ SpawnOnDeadSupervisor \/ EndStopMissing
  <2>1. RouterCrash /\ UNCHANGED <<sup, gen>>
    BY <1>10 DEF VerifyIncomplete, SpawnOnDeadSupervisor, EndStopMissing
  <2>2. /\ \A n \in News : cmd'[n].sid = cmd[n].sid /\ cmd'[n].pc \in {cmd[n].pc, "crashed"}
        /\ mailbox' = << >> /\ job' = Idle
    BY <2>1, RouterCrashTyped
  <2>3. CmdKept
    BY <2>2 DEF CmdKept, Early, Owning, Ended
  <2>4. EndsKept
    BY <2>2 DEF EndsKept, EndRequests
  <2>5. QED
    BY <1>1, <1>2, <2>1, <2>2, <2>3, <2>4, CommandFrame
<1>11. CASE Redeliver
  <2>1. UNCHANGED <<sup, gen, mailbox, cmd>> /\ job' = Idle
    BY <1>11 DEF Redeliver
  <2>2. QED
    BY <1>1, <1>2, <1>3, <1>5, <2>1, CommandFrame
<1>12. CASE CreateReplies
  <2>1. /\ job.pc = "observed" /\ job # Idle /\ Creating /\ UNCHANGED <<sup, gen, mailbox>> /\ job' = Idle
        /\ Reply(job.req.from, "creating", "created", job.sid)
    BY <1>0, <1>12, JobAt DEF CreateReplies, AtStep, Creating, JobSteps
  <2>2. CASE cmd' = cmd
    BY <1>1, <1>2, <1>3, <1>5, <2>1, <2>2, CommandFrame
  <2>3. CASE cmd' # cmd
    <3>1. PICK n \in News : /\ cmd[n].pc = "creating"
                            /\ cmd' = [cmd EXCEPT ![n] = [pc |-> "created", sid |-> job.sid]]
      BY <2>1, <2>3 DEF Reply
    <3>2. PICK s \in Sids : s = job.sid
      BY <1>0, <2>1, JobIs
    <3>3. s # NoSid /\ sup[s] # "unused" /\ \A k \in News : cmd[k].sid # s
      BY <1>0, <2>1, <3>2 DEF WatchInv, CommandInv
    <3>4. SupKept /\ ~Creating' /\ job'.pc \notin Ending
      BY <1>0, <1>2, <2>1 DEF Creating, Ending
    <3>5. QED
      BY <2>1, <3>1, <3>2, <3>3, <3>4, GetsSession DEF Early
  <2>4. QED
    BY <2>2, <2>3
<1>13. CASE EndUnknown
  <2>1. PICK r \in Requests : r = Head(mailbox)
    BY <1>13, Served DEF EndUnknown
  <2>2. /\ Serving /\ mailbox' = Tail(mailbox) /\ UNCHANGED <<sup, gen, job>> /\ r.type = "end"
        /\ sup[r.sid] # "up" /\ Reply(r.from, "rolling", "rolled_back", r.sid) /\ job = Idle
    BY <1>13, <2>1 DEF EndUnknown, Serving
  <2>3. FromOwner(r)
    BY <1>4, <2>1, <2>2 DEF CommandInv
  <2>4. CmdKept
    <3>1. CASE cmd' = cmd
      BY <1>5, <3>1
    <3>2. CASE cmd' # cmd
      <4>1. r.from \in News /\ cmd[r.from].pc = "rolling"
        BY <2>2, <3>2 DEF Reply
      <4>2. cmd[r.from].sid = r.sid /\ r.sid # NoSid
        BY <2>3, <4>1 DEF FromOwner, CommandInv, Owning
      <4>3. r.sid \in Sids /\ sup[r.sid] # "unused"
        BY <1>0, <4>1, <4>2 DEF CommandInv
      <4>4. GoneAfter(r.sid)
        BY <1>0, <2>2, <4>3 DEF GoneAfter
      <4>5. QED
        BY <2>2, <2>3, <4>4, EndReplied
    <3>3. QED
      BY <3>1, <3>2
  <2>5. QED
    BY <1>1, <1>2, <1>4, <2>2, <2>4, CommandFrame
<1>14. CASE EndFind
  <2>1. PICK r \in Requests : r = Head(mailbox)
    BY <1>14, Served DEF EndFind
  <2>2. /\ Serving /\ mailbox' = Tail(mailbox) /\ UNCHANGED <<sup, gen, cmd>> /\ r.type = "end"
        /\ job'.pc = "stopping" /\ job'.req = r /\ job'.sid = r.sid
    BY <1>14, <2>1 DEF EndFind
  <2>3. r \in EndRequests(mailbox) /\ ~Creating'
    BY <1>4, <2>1, <2>2 DEF Creating
  <2>4. JobKept
    BY <2>2, <2>3 DEF JobKept
  <2>5. QED
    BY <1>2, <1>4, <1>5, <2>2, <2>4, CommandFrame
<1>14a. CASE EndStop
  <2>1. job # Idle /\ job.pc = "stopping" /\ job.sid \in Sids
    BY <1>0, <1>14a, JobAt, JobIs DEF EndStop, AtStep
  <2>2. /\ UNCHANGED <<gen, mailbox, cmd>> /\ sup' = [sup EXCEPT ![job.sid] = "down"]
        /\ job'.pc = "stopped" /\ job'.req = job.req /\ job'.sid = job.sid
    BY <1>0, <1>14a, <2>1 DEF EndStop, Jobs
  <2>3. SupKept /\ GoneAfter(job.sid)
    BY <1>0, <2>1, <2>2 DEF SupKept, FirstGone, GoneAfter
  <2>4. JobKept
    BY <2>1, <2>2, <2>3 DEF JobKept, Creating
  <2>5. QED
    BY <1>3, <1>5, <2>2, <2>3, <2>4, CommandFrame
<1>15. CASE EndDetach
  <2>1. /\ job.pc = "stopped" /\ UNCHANGED <<sup, gen, mailbox>> /\ job' = Idle
        /\ Reply(job.req.from, "rolling", "rolled_back", job.sid)
    BY <1>15 DEF EndDetach, AtStep
  <2>2. PICK r : r = job.req
    OBVIOUS
  <2>3. FromOwner(r) /\ r.sid = job.sid /\ GoneAfter(r.sid)
    BY <2>1, <2>2 DEF CommandInv, FirstGone, GoneAfter
  <2>4. CmdKept
    BY <1>0, <2>1, <2>2, <2>3, EndReplied
  <2>5. QED
    BY <1>1, <1>2, <1>3, <2>1, <2>4, CommandFrame
<1>16. QED
  BY <1>6, <1>7, <1>8, <1>9, <1>10, <1>11, <1>12, <1>13, <1>14, <1>14a, <1>15 DEF RouterStep

\* So do the steps of the commands themselves and of everybody else.
LEMMA OtherCommand ==
  ASSUME LifeTypes, LifeTypes', WatchInv, CommandInv,
         \/ \E s \in Sids : SessionStep(s) \/ ObserverDown(s)
         \/ \E n \in News : NewStep(n)
         \/ CommandStep \/ AdapterStep \/ UNCHANGED vars
  PROVE  CommandInv'
<1>0. /\ sup \in [Sids -> {"unused", "up", "restarting", "down"}] /\ gen \in [Sids -> Nat] /\ mailbox \in Seq(Requests)
      /\ cmd \in [News -> [pc: CmdSteps, sid: Sids \cup {NoSid}]] /\ NoCmd \notin News
  BY ConstAssumption DEF LifeTypes
<1>1. ASSUME UNCHANGED job PROVE JobKept
  BY <1>1 DEF JobKept, Creating
<1>2. ASSUME UNCHANGED <<sup, gen>> PROVE SupKept
  BY <1>2 DEF SupKept, FirstGone, GoneAfter
<1>3. ASSUME UNCHANGED mailbox PROVE EndsKept
  BY <1>3 DEF EndsKept
<1>4. ASSUME NEW e \in Requests, mailbox' = Append(mailbox, e), e.type = "end" => e.from \notin News
      PROVE EndsKept
  <2>1. \A r \in EndRequests(mailbox') : r \in EndRequests(mailbox) \/ (r = e /\ e.type = "end")
    BY <1>0, <1>4, EndsAppend
  <2>2. QED
    BY <1>4, <2>1 DEF EndsKept
<1>5. ASSUME UNCHANGED cmd PROVE CmdKept
  BY <1>5 DEF CmdKept
<1>6. ASSUME NEW s \in Sids, SessionStep(s) \/ ObserverDown(s) PROVE CommandInv'
  <2>1. UNCHANGED <<job, mailbox, cmd>>
    BY <1>6 DEF SessionStep, ObserverDown, FcpCrash, FcpRestart, IndexDown, SubtreeRestart,
                SupervisorCrash, SupervisorRestart
  <2>2. \/ UNCHANGED <<sup, gen>>
        \/ sup[s] = "up" /\ sup' = [sup EXCEPT ![s] = "restarting"] /\ UNCHANGED gen
        \/ /\ sup[s] = "restarting" /\ sup' = [sup EXCEPT ![s] = "up"]
           /\ gen' = [gen EXCEPT ![s] = @ + 1]
    BY <1>6 DEF SessionStep, ObserverDown, FcpCrash, FcpRestart, IndexDown, SubtreeRestart,
                SupervisorCrash, SupervisorRestart
  <2>3. SupKept
    BY <1>0, <1>6, <2>2, Restarted
  <2>4. QED
    BY <1>1, <1>3, <1>5, <2>1, <2>3, CommandFrame
<1>7. ASSUME NEW n \in News, NewStep(n) PROVE CommandInv'
  <2>0. ASSUME \/ NewCheck(n) \/ NewCreate(n) \/ NewTimeout(n) \/ NewClaim(n) \/ NewFails(n)
               \/ NewPersist(n) \/ NewAttach(n)
        PROVE  UNCHANGED <<sup, gen, job>>
    BY <2>0 DEF NewCheck, NewCreate, NewTimeout, NewClaim, NewFails, NewPersist, NewAttach
  <2>1. CASE NewCheck(n)
    <3>1. PICK to \in {"rejected", "checked"} : Step(n, "idle", to)
      BY <2>1 DEF NewCheck
    <3>2. CmdKept
      BY <3>1, StepKept DEF CmdSteps, Early, Owning, Ended
    <3>3. UNCHANGED mailbox
      BY <2>1 DEF NewCheck
    <3>4. QED
      BY <1>1, <1>2, <1>3, <2>0, <2>1, <3>2, <3>3, CommandFrame
  <2>2. CASE NewTimeout(n) \/ NewClaim(n) \/ NewPersist(n) \/ NewAttach(n)
    <3>1. \/ Step(n, "creating", "crashed") \/ Step(n, "rolling", "crashed")
          \/ Step(n, "created", "claimed") \/ Step(n, "claimed", "persisted")
          \/ Step(n, "persisted", "done")
      BY <2>2 DEF NewTimeout, NewClaim, NewPersist, NewAttach
    <3>2. CmdKept
      BY <3>1, StepKept DEF CmdSteps, Early, Owning, Ended
    <3>3. UNCHANGED mailbox
      BY <2>2 DEF NewTimeout, NewClaim, NewPersist, NewAttach
    <3>4. QED
      BY <1>1, <1>2, <1>3, <2>0, <2>2, <3>2, <3>3, CommandFrame
  <2>3. CASE NewCreate(n)
    <3>1. Step(n, "checked", "creating") /\ mailbox' = Append(mailbox, Create(n))
      BY <2>3 DEF NewCreate
    <3>2. CmdKept
      BY <3>1, StepKept DEF CmdSteps, Early, Owning, Ended
    <3>3. PICK e \in Requests : e = Create(n)
      BY <2>3 DEF NewCreate, Create, Requests
    <3>4. EndsKept
      BY <1>4, <3>1, <3>3 DEF Create
    <3>5. QED
      BY <1>1, <1>2, <2>0, <2>3, <3>2, <3>4, CommandFrame
  <2>4. CASE NewFails(n)
    <3>1. PICK pc \in {"created", "claimed"} : RollBack(n, pc)
      BY <2>4 DEF NewFails
    <3>2. Step(n, pc, "rolling") /\ mailbox' = Append(mailbox, EndSession(cmd[n].sid, n))
      BY <3>1 DEF RollBack
    <3>3. CmdKept
      BY <3>2, StepKept DEF CmdSteps, Early, Owning, Ended
    <3>4. cmd[n].sid # NoSid
      BY <3>2 DEF Step, CommandInv, Owning
    <3>5. cmd[n].sid \in Sids
      BY <1>0, <3>4
    <3>6. PICK e \in Requests : e = EndSession(cmd[n].sid, n)
      BY <3>5 DEF EndSession, Requests
    <3>7. e.from = n /\ e.sid = cmd[n].sid
      BY <3>6 DEF EndSession
    <3>8. cmd'[n].pc = "rolling" /\ cmd'[n].sid = cmd[n].sid
      BY <3>2, StepTyped DEF CmdSteps
    <3>9. \A r \in EndRequests(mailbox') : r \in EndRequests(mailbox) \/ (r = e /\ e.type = "end")
      BY <1>0, <3>2, <3>6, EndsAppend
    <3>10. EndsKept
      BY <3>7, <3>8, <3>9 DEF EndsKept
    <3>11. QED
      BY <1>1, <1>2, <2>0, <2>4, <3>3, <3>10, CommandFrame
  <2>5. CASE NewCreateDirect(n)
    <3>1. cmd[n].pc = "checked" /\ UNCHANGED <<gen, job, mailbox>>
      BY <2>5 DEF NewCreateDirect
    <3>2. CASE Step(n, "checked", "failed") /\ UNCHANGED sup
      <4>1. CmdKept
        BY <3>2, StepKept DEF CmdSteps, Early, Owning, Ended
      <4>2. QED
        BY <1>1, <1>2, <1>3, <3>1, <3>2, <4>1, CommandFrame
    <3>3. ASSUME NEW s \in Fresh, StartSession(s),
                 cmd' = [cmd EXCEPT ![n] = [pc |-> "created", sid |-> s]]
          PROVE  CommandInv'
      <4>0. SupKept
        BY <3>1, <3>3, FreshStarted
      <4>1. s \in Sids /\ sup[s] = "unused" /\ sup'[s] # "unused"
        BY <1>0, <3>3 DEF Fresh, StartSession
      <4>2. \A k \in News : cmd[k].sid # s
        BY <4>1, ConstAssumption DEF CommandInv
      <4>3. Creating' => Creating /\ job'.sid = job.sid /\ job.sid # s
        BY <3>1, <4>1 DEF Creating, WatchInv
      <4>4. QED
        BY <3>1, <3>3, <4>0, <4>1, <4>2, <4>3, GetsSession DEF Early
    <3>4. QED
      BY <2>5, <3>2, <3>3 DEF NewCreateDirect
  <2>6. QED
    BY <1>7, <2>1, <2>2, <2>3, <2>4, <2>5 DEF NewStep
<1>8. ASSUME NEW s \in Sids, CmdEnd(s) PROVE CommandInv'
  <2>1. PICK e \in Requests : e = EndSession(s, NoCmd)
    BY DEF EndSession, Requests
  <2>2. mailbox' = Append(mailbox, e) /\ e.from \notin News /\ UNCHANGED <<sup, gen, job, cmd>>
    BY <1>0, <1>8, <2>1 DEF CmdEnd, EndSession
  <2>3. QED
    BY <1>1, <1>2, <1>4, <1>5, <2>2, CommandFrame
<1>9. ASSUME NEW s \in Sids, NEW c \in Chats,
             CmdBindChat(c, s) \/ CmdUnbindChat(c, s) \/ CmdSwitch(c, s)
      PROVE  CommandInv'
  <2>1. UNCHANGED <<sup, gen, job, mailbox, cmd>>
    BY <1>9 DEF CmdBindChat, CmdUnbindChat, CmdSwitch
  <2>2. QED
    BY <1>1, <1>2, <1>3, <1>5, <2>1, CommandFrame
<1>10. CASE AdapterStep
  <2>1. UNCHANGED <<sup, gen, job, cmd>>
    BY <1>10 DEF AdapterStep, FaaRoute, FaaUnrouted, FaaForward, FaaCleanup, GuideExpires, FaaCrash,
                 FaaRestart
  <2>2. UNCHANGED mailbox \/ \E m \in Msgs : mailbox' = Append(mailbox, NewChatThread(m))
    BY <1>10 DEF AdapterStep, FaaRoute, FaaUnrouted, FaaForward, FaaCleanup, GuideExpires, FaaCrash,
                 FaaRestart
  <2>3. EndsKept
    <3>1. CASE UNCHANGED mailbox
      BY <1>3, <3>1
    <3>2. ASSUME NEW m \in Msgs, mailbox' = Append(mailbox, NewChatThread(m)) PROVE EndsKept
      <4>1. PICK e \in Requests : e = NewChatThread(m)
        BY DEF NewChatThread, Requests
      <4>2. QED
        BY <1>4, <3>2, <4>1 DEF NewChatThread
    <3>3. QED
      BY <2>2, <3>1, <3>2
  <2>4. QED
    BY <1>1, <1>2, <1>5, <2>1, <2>3, CommandFrame
<1>11. CASE UNCHANGED vars
  BY <1>1, <1>2, <1>3, <1>5, <1>11, CommandFrame
<1>12. QED
  BY <1>6, <1>7, <1>8, <1>9, <1>10, <1>11 DEF CommandStep

---------------------------------------------------------------------------
(* The two theorems *)

\* Until the runtime is restarted, all of it holds.
LifeInv ==
  /\ restarts \in Nat
  /\ restarts = 0 => LifeTypes /\ RoutingInv /\ WatchInv /\ CommandInv

\* Initially there is no session.
LEMMA LifeInit == Init => LifeInv
<1> SUFFICES ASSUME Init PROVE LifeInv
  OBVIOUS
<1>1. mailbox \in Seq(Requests) /\ DOMAIN mailbox = {}
  BY DEF Init
<1>2. LifeTypes
  BY <1>1 DEF Init, LifeTypes, Jobs, CmdSteps
<1>3. RoutingInv
  BY DEF Init, RoutingInv, Coherent
<1>4. job.pc = "idle" /\ ~Creating
  BY DEF Init, Idle, Creating
<1>5. WatchInv
  BY <1>4 DEF Init, WatchInv
<1>6. EndRequests(mailbox) = {}
  BY <1>1 DEF EndRequests
<1>7. CommandInv
  BY <1>4, <1>6 DEF Init, CommandInv, Early, Owning
<1>8. restarts \in Nat
  BY DEF Init
<1>9. QED
  BY <1>2, <1>3, <1>5, <1>7, <1>8 DEF LifeInv

\* Every step keeps it.
LEMMA LifeStep ==
  ASSUME LifeInv, [Next]_vars
  PROVE  LifeInv'
<1>1. CASE Restart
  BY <1>1 DEF Restart, LifeInv
<1>2. CASE ~Restart
  <2>1. UNCHANGED restarts
    BY <1>2 DEF Next, RouterStep, CreateRefused, CreateStart, SpawnPipeline, SpawnFails,
         VerifyComplete, VerifyIncomplete, SpawnOnDeadSupervisor, Register, StartObserver,
         CreateReplies, Redeliver, EndUnknown, EndFind, EndStop, EndStopMissing, EndDetach,
         SessionStep, FcpCrash, FcpRestart,
         IndexDown, SubtreeRestart, SupervisorCrash, SupervisorRestart, ObserverDown, NewStep, NewCheck, NewCreate,
         NewCreateDirect,
         NewTimeout, NewClaim, NewFails, NewPersist, NewAttach, CommandStep, CmdEnd, CmdBindChat,
         CmdUnbindChat, CmdSwitch, AdapterStep, FaaRoute, FaaUnrouted, FaaForward, FaaCleanup,
         GuideExpires, FaaCrash, FaaRestart
  <2>2. ASSUME restarts = 0
        PROVE LifeTypes' /\ RoutingInv' /\ WatchInv' /\ CommandInv'
    <3>0. LifeTypes /\ RoutingInv /\ WatchInv /\ CommandInv
      BY <2>2 DEF LifeInv
    <3>1. CASE RouterStep
      <4>1. LifeTypes'
        BY <3>0, <3>1, RouterTypes DEF WatchInv
      <4>2. QED
        BY <3>0, <3>1, <4>1, RouterStepRouting, RouterWatch, RouterCommand
    <3>2. CASE \E s \in Sids : SessionStep(s) \/ ObserverDown(s)
      <4>1. LifeTypes' /\ RoutingInv'
        BY <3>0, <3>2, OtherTypes, SessionRouting
      <4>2. QED
        BY <3>0, <3>2, <4>1, OtherWatch, OtherCommand
    <3>3. CASE CommandStep \/ \E n \in News : NewStep(n)
      <4>1. LifeTypes' /\ RoutingInv'
        BY <3>0, <3>3, CommandTypes, CommandRouting DEF CommandInv
      <4>2. QED
        BY <3>0, <3>3, <4>1, OtherWatch, OtherCommand
    <3>4. CASE AdapterStep
      <4>1. LifeTypes' /\ RoutingInv'
        BY <3>0, <3>4, OtherTypes, AdapterRouting
      <4>2. QED
        BY <3>0, <3>4, <4>1, OtherWatch, OtherCommand
    <3>5. CASE UNCHANGED vars
      <4>1. LifeTypes' /\ RoutingInv'
        BY <3>0, <3>5, OtherTypes, RoutingUnchanged
      <4>2. QED
        BY <3>0, <3>5, <4>1, OtherWatch, OtherCommand
    <3>6. QED
      BY <1>2, <3>1, <3>2, <3>3, <3>4, <3>5 DEF Next
  <2>3. QED
    BY <2>1, <2>2 DEF LifeInv
<1>3. QED
  BY <1>1, <1>2

\* A session whose first supervisor is gone stays in the slot of the chat it was created
\* for only as long as its observer, or the router, still has to take it out.
THEOREM DeadSlotWatchedHolds == Spec => []DeadSlotWatched
<1>1. LifeInv => DeadSlotWatched
  BY DEF LifeInv, WatchInv, DeadSlotWatched
<1>2. LifeInv /\ [Next]_vars => LifeInv'
  BY LifeStep
<1>3. QED
  BY <1>1, <1>2, LifeInit, PTL DEF Spec

\* A /session:new that has rolled back has left neither the supervisor it started nor a
\* slot but one its observer is about to clear, whatever crashed and was restarted on the
\* way.
THEOREM RolledBackCleanHolds == Spec => []RolledBackClean
<1>1. ASSUME LifeInv, NEW n \in News, cmd[n].pc = "rolled_back", restarts = 0
      PROVE /\ FirstGone(cmd[n].sid)
            /\ \A c \in Chats :
                 cmd[n].sid \in routing[c].attached /\ <<c, cmd[n].sid>> \notin bound
                   => obs[cmd[n].sid] = c
  <2>1. LifeTypes /\ WatchInv /\ CommandInv
    BY <1>1 DEF LifeInv
  <2>2. cmd[n].sid \in Sids /\ cmd[n].sid # NoSid
    BY <1>1, <2>1, ConstAssumption DEF LifeTypes, CommandInv, Owning
  <2>3. FirstGone(cmd[n].sid)
    BY <1>1, <2>1 DEF CommandInv
  <2>4. ~(job.pc = "attached" /\ job.sid = cmd[n].sid)
    BY <2>1, <2>2 DEF CommandInv, Creating, JobSteps
  <2>5. QED
    BY <2>1, <2>2, <2>3, <2>4 DEF WatchInv
<1>2. LifeInv => RolledBackClean
  BY <1>1 DEF RolledBackClean
<1>3. LifeInv /\ [Next]_vars => LifeInv'
  BY LifeStep
<1>4. QED
  BY <1>2, <1>3, LifeInit, PTL DEF Spec
=============================================================================
