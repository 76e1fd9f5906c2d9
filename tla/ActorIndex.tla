------------------------------- MODULE ActorIndex -------------------------------
(***************************************************************************)
(* The auxiliary actor indexes: Esr.Entity.Registry.register_attrs/2 and   *)
(* deregister_attrs/2 (runtime/lib/esr/entity/registry.ex), the process    *)
(* that cleans them, Esr.Entity.Registry.IndexWatcher, and the lookups of  *)
(* Esr.ActorQuery that route every message inside a session.               *)
(*                                                                         *)
(* The two ETS tables are public: a peer inserts its own rows from init/1, *)
(* then asks the watcher, in a synchronous call, to monitor it.  Peers are *)
(* killed and restarted by supervisors that do not wait for the watcher,   *)
(* so a peer and its replacement, two peers given one display name, and    *)
(* the watcher's late DOWN handling all interleave on the tables.          *)
(*                                                                         *)
(* One session is modelled.  A peer is its pid and its display name; the   *)
(* name fixes its role, so a role row is a <<name, pid>> pair.             *)
(***************************************************************************)
EXTENDS Sequences, FiniteSets

CONSTANTS
  Pids,    \* process ids, never reused
  Names,   \* display names within the session
  NoPid,   \* no row under a name
  NoName   \* the name of a process not started yet

ASSUME PidAssumption == NoPid \notin Pids
ASSUME NameAssumption == NoName \notin Names

VARIABLES
  proc,        \* where each peer process stands
  name,        \* the display name each peer was started with
  name_index,  \* :esr_actor_name_index (a set table)
  role_index,  \* :esr_actor_role_index (a bag table)
  mailbox,     \* the watcher's mailbox
  monitors,    \* peers in the watcher's monitors map
  early        \* history: peers that died before asking for the monitor

vars == <<proc, name, name_index, role_index, mailbox, monitors, early>>

\* "named" and "roled": inside register_attrs/2 after each insert; "tracking":
\* waiting for monitor_and_track; "unnamed": running although register_attrs/2
\* returned {:error, :name_taken}, which the peers' init/1 ignores; "stopping":
\* terminate/2 has run.
ProcStates == {"unborn", "init", "named", "roled", "tracking", "running",
               "unnamed", "stopping", "dead"}
Alive == {p \in Pids : proc[p] \notin {"unborn", "dead"}}

Track(p) == [type |-> "monitor_and_track", pid |-> p]
Down(p) == [type |-> "DOWN", pid |-> p]
Messages == [type: {"monitor_and_track", "DOWN"}, pid: Pids]
Elems(s) == {s[i] : i \in DOMAIN s}

TypeOK ==
  /\ proc \in [Pids -> ProcStates]
  /\ name \in [Pids -> Names \cup {NoName}]
  /\ name_index \in [Names -> Pids \cup {NoPid}]
  /\ role_index \in SUBSET (Names \X Pids)
  /\ mailbox \in Seq(Messages)
  /\ monitors \in SUBSET Pids
  /\ early \in SUBSET Pids
  /\ \A p \in Pids : proc[p] # "unborn" => name[p] \in Names

Init ==
  /\ proc = [p \in Pids |-> "unborn"]
  /\ name = [p \in Pids |-> NoName]
  /\ name_index = [n \in Names |-> NoPid]
  /\ role_index = {}
  /\ mailbox = << >>
  /\ monitors = {}
  /\ early = {}

---------------------------------------------------------------------------
(* The peer. *)

\* A supervisor starts a peer, or the replacement of one that died.
Start(p, n) ==
  /\ proc[p] = "unborn"
  /\ proc' = [proc EXCEPT ![p] = "init"]
  /\ name' = [name EXCEPT ![p] = n]
  /\ UNCHANGED <<name_index, role_index, mailbox, monitors, early>>

\* register_attrs/2: :ets.insert_new on the name index.
InsertName(p) ==
  /\ proc[p] = "init"
  /\ \/ /\ name_index[name[p]] = NoPid
        /\ name_index' = [name_index EXCEPT ![name[p]] = p]
        /\ proc' = [proc EXCEPT ![p] = "named"]
     \/ /\ name_index[name[p]] # NoPid
        /\ proc' = [proc EXCEPT ![p] = "unnamed"]
        /\ UNCHANGED name_index
  /\ UNCHANGED <<name, role_index, mailbox, monitors, early>>

InsertRole(p) ==
  /\ proc[p] = "named"
  /\ role_index' = role_index \cup {<<name[p], p>>}
  /\ proc' = [proc EXCEPT ![p] = "roled"]
  /\ UNCHANGED <<name, name_index, mailbox, monitors, early>>

\* The request half of IndexWatcher.monitor_and_track/1.
MonitorAndTrack(p) ==
  /\ proc[p] = "roled"
  /\ mailbox' = Append(mailbox, Track(p))
  /\ proc' = [proc EXCEPT ![p] = "tracking"]
  /\ UNCHANGED <<name, name_index, role_index, monitors, early>>

\* The call times out after 5 s and init/1 catches the exit.
TrackTimeout(p) ==
  /\ proc[p] = "tracking"
  /\ proc' = [proc EXCEPT ![p] = "running"]
  /\ UNCHANGED <<name, name_index, role_index, mailbox, monitors, early>>

\* The rows match_delete removes: this pid's own, not the whole bucket.
WholeBucket(p) == {<<name[p], q>> : q \in Pids}
OwnRows(p) == {<<name[p], p>>}

\* deregister_attrs/2, called from terminate/2: the name row goes whoever owns
\* it, the role row only if it is this pid's.
DeregisterAttrs(p) ==
  /\ proc[p] \in {"running", "unnamed"}
  /\ name_index' = [name_index EXCEPT ![name[p]] = NoPid]
  /\ role_index' = role_index \ OwnRows(p)
  /\ proc' = [proc EXCEPT ![p] = "stopping"]
  /\ UNCHANGED <<name, mailbox, monitors, early>>

\* The process ends: after terminate/2, or killed wherever it stands.
Exit(p) ==
  /\ p \in Alive
  /\ proc' = [proc EXCEPT ![p] = "dead"]
  /\ mailbox' = IF p \in monitors THEN Append(mailbox, Down(p)) ELSE mailbox
  /\ early' = IF proc[p] \in {"named", "roled"} THEN early \cup {p} ELSE early
  /\ UNCHANGED <<name, name_index, role_index, monitors>>

---------------------------------------------------------------------------
(* Esr.Entity.Registry.IndexWatcher. *)

\* The mailbox after a request: Process.monitor/1 on a process that is already
\* dead answers with a DOWN at once.
AfterTrackLosesDown(p) == Tail(mailbox)
AfterTrack(p) ==
  IF p \in Alive THEN Tail(mailbox) ELSE Append(Tail(mailbox), Down(p))

HandleTrack ==
  /\ mailbox # << >>
  /\ Head(mailbox).type = "monitor_and_track"
  /\ LET p == Head(mailbox).pid IN
       /\ monitors' = monitors \cup {p}
       /\ mailbox' = AfterTrack(p)
       /\ proc' = IF proc[p] = "tracking" THEN [proc EXCEPT ![p] = "running"] ELSE proc
  /\ UNCHANGED <<name, name_index, role_index, early>>

\* The name row is deleted by key, the role row only for the dead pid.
HandleDown ==
  /\ mailbox # << >>
  /\ Head(mailbox).type = "DOWN"
  /\ LET p == Head(mailbox).pid IN
       /\ \/ /\ p \in monitors
             /\ name_index' = [name_index EXCEPT ![name[p]] = NoPid]
             /\ role_index' = role_index \ OwnRows(p)
             /\ monitors' = monitors \ {p}
          \/ /\ p \notin monitors
             /\ UNCHANGED <<name_index, role_index, monitors>>
       /\ mailbox' = Tail(mailbox)
  /\ UNCHANGED <<proc, name, early>>

---------------------------------------------------------------------------
PeerStep(p) ==
  \/ \E n \in Names : Start(p, n)
  \/ InsertName(p)
  \/ InsertRole(p)
  \/ MonitorAndTrack(p)
  \/ TrackTimeout(p)
  \/ DeregisterAttrs(p)
  \/ Exit(p)

WatcherStep == HandleTrack \/ HandleDown

Next == (\E p \in Pids : PeerStep(p)) \/ WatcherStep

Spec == Init /\ [][Next]_vars

\* The watcher is a live GenServer: it handles what is in its mailbox.
FairSpec == Spec /\ WF_vars(WatcherStep)

---------------------------------------------------------------------------
(* Esr.ActorQuery. *)

\* find_by_name/2
find_by_name(n) == name_index[n]
\* list_by_role/2, for the role that goes with a name
list_by_role(n) == {p \in Pids : <<n, p>> \in role_index}

---------------------------------------------------------------------------
(* Properties. *)

\* A DOWN for p is on its way, or the request that will produce it.
CleanupPending(p) == {Track(p), Down(p)} \cap Elems(mailbox) # {}

\* No role row outlives its process unnoticed: the row of a dead peer has its
\* cleanup under way, unless the peer was killed between inserting the row and
\* asking for the monitor.  This is what the synchronous monitor_and_track
\* call is for: whether the peer dies before, while or after the watcher takes
\* the request, one DOWN comes.
NoLeakedRow ==
  \A n \in Names, p \in Pids :
    /\ <<n, p>> \in role_index
    /\ proc[p] = "dead"
    => CleanupPending(p) \/ p \in early

\* The inductive form of NoLeakedRow: who has a row, and for each stage of its
\* life who will see it die.
IndexInv ==
  /\ \A p \in Pids :
       /\ Down(p) \in Elems(mailbox) => proc[p] = "dead"
       /\ Track(p) \in Elems(mailbox) => proc[p] # "unborn"
  /\ \A n \in Names, p \in Pids : <<n, p>> \in role_index =>
       /\ name[p] = n
       /\ proc[p] \in {"roled", "tracking", "running", "dead"}
       /\ proc[p] \in {"tracking", "running"} =>
            p \in monitors \/ Track(p) \in Elems(mailbox)
       /\ Down(p) \in Elems(mailbox) => p \in monitors
  /\ NoLeakedRow

\* A peer that is up never loses its role row to somebody else's cleanup:
\* neither the watcher's handling of an older incarnation's DOWN nor another
\* peer's terminate/2 takes a running peer out of list_by_role.
RoleRowKept ==
  [][\A n \in Names, p \in Pids :
       /\ <<n, p>> \in role_index
       /\ <<n, p>> \notin role_index'
       => proc'[p] \in {"stopping", "dead"}]_vars

\* The row of a dead peer that had asked for its monitor is removed in the end.
DeadRowsReclaimed ==
  \A p \in Pids :
    (proc[p] = "dead" /\ p \notin early) ~> (\A n \in Names : p \notin list_by_role(n))
=============================================================================
