--------------------------- MODULE ActorIndexProofs ---------------------------
(***************************************************************************)
(* Proofs about ActorIndex, for any number of peers and names.             *)
(***************************************************************************)
EXTENDS ActorIndex, Naturals, TLAPS

USE DEF vars

---------------------------------------------------------------------------
(* Mailboxes *)

\* What a mailbox holds after a message is appended.
LEMMA ElemsAppend ==
  ASSUME NEW S, NEW s \in Seq(S), NEW x \in S
  PROVE  Elems(Append(s, x)) = Elems(s) \cup {x}
<1>1. \A y \in Elems(Append(s, x)) : y \in Elems(s) \cup {x}
  BY DEF Elems
<1>2. \A y \in Elems(s) : y \in Elems(Append(s, x))
  BY DEF Elems
<1>3. x \in Elems(Append(s, x))
  <2>1. Len(s) + 1 \in DOMAIN Append(s, x) /\ Append(s, x)[Len(s) + 1] = x
    OBVIOUS
  <2>2. QED
    BY <2>1 DEF Elems
<1>4. QED
  BY <1>1, <1>2, <1>3

\* What a mailbox holds after its head is taken: perhaps the head again, and
\* all the others.
LEMMA ElemsTail ==
  ASSUME NEW S, NEW s \in Seq(S), s # << >>
  PROVE  /\ Elems(Tail(s)) \subseteq Elems(s)
         /\ \A x \in Elems(s) : x # Head(s) => x \in Elems(Tail(s))
         /\ Head(s) \in Elems(s)
<1>1. Elems(Tail(s)) \subseteq Elems(s)
  BY DEF Elems
<1>2. ASSUME NEW x \in Elems(s), x # Head(s) PROVE x \in Elems(Tail(s))
  <2>1. PICK i \in DOMAIN s : x = s[i]
    BY DEF Elems
  <2>2. i # 1 /\ i \in Nat
    BY <1>2, <2>1
  <2>3. i - 1 \in DOMAIN Tail(s) /\ Tail(s)[i - 1] = s[i]
    BY <2>2, <2>1
  <2>4. QED
    BY <2>1, <2>3 DEF Elems
<1>3. Head(s) \in Elems(s)
  BY DEF Elems
<1>4. QED
  BY <1>1, <1>2, <1>3

\* The two kinds of message are messages, and tell peers apart.
LEMMA MessageFacts ==
  /\ \A p \in Pids : Track(p) \in Messages /\ Down(p) \in Messages
  /\ \A p, q \in Pids : Track(p) # Down(q)
  /\ \A p, q \in Pids : (Track(p) = Track(q) \/ Down(p) = Down(q)) => p = q
  BY DEF Track, Down, Messages

\* The message at the head of a mailbox is one of the two.
LEMMA HeadFacts ==
  ASSUME mailbox \in Seq(Messages), mailbox # << >>
  PROVE  /\ Head(mailbox).pid \in Pids
         /\ Head(mailbox).type = "monitor_and_track" =>
              Head(mailbox) = Track(Head(mailbox).pid)
         /\ Head(mailbox).type = "DOWN" => Head(mailbox) = Down(Head(mailbox).pid)
         /\ Tail(mailbox) \in Seq(Messages)
<1>1. Head(mailbox) \in Messages /\ Tail(mailbox) \in Seq(Messages)
  OBVIOUS
<1>2. QED
  BY <1>1 DEF Messages, Track, Down

---------------------------------------------------------------------------
(* Types *)

\* Every step of the peers and of the watcher keeps the types.
LEMMA TypeStep == TypeOK /\ [Next]_vars => TypeOK'
<1> SUFFICES ASSUME TypeOK, [Next]_vars PROVE TypeOK'
  OBVIOUS
<1>1. CASE UNCHANGED vars
  BY <1>1 DEF TypeOK
<1>2. ASSUME NEW p \in Pids, PeerStep(p) PROVE TypeOK'
  <2>1. ASSUME NEW n \in Names, Start(p, n) PROVE TypeOK'
    BY <2>1 DEF TypeOK, Start, ProcStates
  <2>2. CASE InsertName(p)
    BY <2>2 DEF TypeOK, InsertName, ProcStates
  <2>3. CASE InsertRole(p)
    BY <2>3 DEF TypeOK, InsertRole, ProcStates
  <2>4. CASE MonitorAndTrack(p)
    <3>1. mailbox' \in Seq(Messages)
      BY <2>4, MessageFacts DEF TypeOK, MonitorAndTrack
    <3>2. QED
      BY <2>4, <3>1 DEF TypeOK, MonitorAndTrack, ProcStates
  <2>5. CASE TrackTimeout(p)
    BY <2>5 DEF TypeOK, TrackTimeout, ProcStates
  <2>6. CASE DeregisterAttrs(p)
    BY <2>6 DEF TypeOK, DeregisterAttrs, ProcStates
  <2>7. CASE Exit(p)
    <3>1. mailbox' \in Seq(Messages)
      BY <2>7, MessageFacts DEF TypeOK, Exit
    <3>2. proc[p] # "unborn" /\ proc' \in [Pids -> ProcStates] /\ early' \in SUBSET Pids
      BY <2>7 DEF TypeOK, Exit, Alive, ProcStates
    <3>3. QED
      BY <2>7, <3>1, <3>2 DEF TypeOK, Exit
  <2>8. QED
    BY <1>2, <2>1, <2>2, <2>3, <2>4, <2>5, <2>6, <2>7 DEF PeerStep
<1>3. CASE HandleTrack
  <2>1. /\ Head(mailbox).pid \in Pids
        /\ Tail(mailbox) \in Seq(Messages)
    BY <1>3, HeadFacts DEF TypeOK, HandleTrack
  <2>2. mailbox' \in Seq(Messages)
    BY <1>3, <2>1, MessageFacts DEF HandleTrack, AfterTrack
  <2>3. proc' \in [Pids -> ProcStates] /\ \A p \in Pids : proc'[p] # "unborn" => proc[p] # "unborn"
    BY <1>3, <2>1 DEF TypeOK, HandleTrack, ProcStates
  <2>4. QED
    BY <1>3, <2>1, <2>2, <2>3 DEF TypeOK, HandleTrack
<1>4. CASE HandleDown
  <2>1. /\ Head(mailbox).pid \in Pids
        /\ Tail(mailbox) \in Seq(Messages)
    BY <1>4, HeadFacts DEF TypeOK, HandleDown
  <2>2. QED
    BY <1>4, <2>1 DEF TypeOK, HandleDown
<1>5. QED
  BY <1>1, <1>2, <1>3, <1>4 DEF Next, WatcherStep

\* The state of peers, indexes and watcher keeps its types.
THEOREM IndexTypeCorrect == Spec => []TypeOK
<1>1. Init => TypeOK
  BY DEF Init, TypeOK, ProcStates
<1>2. QED
  BY <1>1, TypeStep, PTL DEF Spec

---------------------------------------------------------------------------
(* No leaked role row *)

\* Every step keeps IndexInv.
LEMMA IndexStep == TypeOK /\ IndexInv /\ [Next]_vars => IndexInv'
<1> SUFFICES ASSUME TypeOK, IndexInv, [Next]_vars PROVE IndexInv'
  OBVIOUS
<1> USE DEF IndexInv, NoLeakedRow, CleanupPending
<1>1. CASE UNCHANGED vars
  BY <1>1
<1>2. ASSUME NEW p \in Pids, PeerStep(p) PROVE IndexInv'
  <2>1. ASSUME NEW n \in Names, Start(p, n) PROVE IndexInv'
    BY <2>1 DEF Start, TypeOK
  <2>2. CASE InsertName(p)
    BY <2>2 DEF InsertName, TypeOK
  <2>3. CASE InsertRole(p)
    BY <2>3 DEF InsertRole, TypeOK
  <2>4. CASE MonitorAndTrack(p)
    <3>1. Elems(mailbox') = Elems(mailbox) \cup {Track(p)}
      BY <2>4, ElemsAppend, MessageFacts DEF MonitorAndTrack, TypeOK
    <3>2. QED
      BY <2>4, <3>1, MessageFacts DEF MonitorAndTrack, TypeOK
  <2>5. CASE TrackTimeout(p)
    BY <2>5 DEF TrackTimeout, TypeOK
  <2>6. CASE DeregisterAttrs(p)
    BY <2>6 DEF DeregisterAttrs, OwnRows, TypeOK
  <2>7. CASE Exit(p)
    <3>1. CASE p \in monitors
      <4>1. Elems(mailbox') = Elems(mailbox) \cup {Down(p)}
        BY <2>7, <3>1, ElemsAppend, MessageFacts DEF Exit, TypeOK
      <4>2. QED
        BY <2>7, <3>1, <4>1, MessageFacts DEF Exit, Alive, TypeOK
    <3>2. CASE p \notin monitors
      BY <2>7, <3>2 DEF Exit, Alive, TypeOK
    <3>3. QED
      BY <3>1, <3>2
  <2>8. QED
    BY <1>2, <2>1, <2>2, <2>3, <2>4, <2>5, <2>6, <2>7 DEF PeerStep
<1>3. CASE HandleTrack
  <2> DEFINE p == Head(mailbox).pid
  <2>1. p \in Pids /\ Head(mailbox) = Track(p) /\ Tail(mailbox) \in Seq(Messages)
    BY <1>3, HeadFacts DEF TypeOK, HandleTrack
  <2>2. proc[p] # "unborn"
    BY <1>3, <2>1, ElemsTail DEF TypeOK, HandleTrack
  <2>3. /\ Elems(Tail(mailbox)) \subseteq Elems(mailbox)
        /\ \A x \in Elems(mailbox) : x # Track(p) => x \in Elems(Tail(mailbox))
    BY <1>3, <2>1, ElemsTail DEF TypeOK, HandleTrack
  <2>4. \A q \in Pids : proc'[q] = proc[q] \/ (q = p /\ proc[q] = "tracking" /\ proc'[q] = "running")
    BY <1>3 DEF TypeOK, HandleTrack
  <2>0. role_index' = role_index /\ name' = name /\ early' = early
    BY <1>3 DEF HandleTrack
  <2>5. CASE p \in Alive
    <3>1. mailbox' = Tail(mailbox) /\ monitors' = monitors \cup {p}
      BY <1>3, <2>5 DEF HandleTrack, AfterTrack
    <3>2. proc[p] # "dead"
      BY <2>5 DEF Alive
    <3>3. QED
      BY <2>1, <2>3, <2>4, <2>0, <3>1, <3>2, MessageFacts
  <2>6. CASE p \notin Alive
    <3>0. mailbox' = Append(Tail(mailbox), Down(p)) /\ monitors' = monitors \cup {p}
      BY <1>3, <2>6 DEF HandleTrack, AfterTrack
    <3>1. Elems(mailbox') = Elems(Tail(mailbox)) \cup {Down(p)}
      <4>1. Down(p) \in Messages
        BY <2>1, MessageFacts
      <4>2. Elems(Append(Tail(mailbox), Down(p))) = Elems(Tail(mailbox)) \cup {Down(p)}
        <5> DEFINE t == Tail(mailbox)
        <5>1. t \in Seq(Messages)
          BY <2>1
        <5> HIDE DEF t
        <5>2. Elems(Append(t, Down(p))) = Elems(t) \cup {Down(p)}
          BY <4>1, <5>1, ElemsAppend
        <5>3. QED
          BY <5>2 DEF t
      <4>3. QED
        BY <3>0, <4>2
    <3>2. proc[p] = "dead"
      BY <2>1, <2>2, <2>6 DEF Alive
    <3>3. QED
      BY <2>1, <2>3, <2>4, <2>0, <3>0, <3>1, <3>2, MessageFacts
  <2>7. QED
    BY <2>5, <2>6
<1>4. CASE HandleDown
  <2> DEFINE p == Head(mailbox).pid
  <2>1. p \in Pids /\ Head(mailbox) = Down(p) /\ mailbox' = Tail(mailbox)
    BY <1>4, HeadFacts DEF TypeOK, HandleDown
  <2>2. /\ Elems(Tail(mailbox)) \subseteq Elems(mailbox)
        /\ \A x \in Elems(mailbox) : x # Down(p) => x \in Elems(Tail(mailbox))
        /\ Down(p) \in Elems(mailbox)
    BY <1>4, <2>1, ElemsTail DEF TypeOK, HandleDown
  <2>3. \A n \in Names : <<n, p>> \notin role_index'
    BY <1>4, <2>1, <2>2 DEF HandleDown, OwnRows
  <2>4. role_index' \subseteq role_index /\ \A q \in Pids : q # p => (q \in monitors <=> q \in monitors')
    BY <1>4 DEF HandleDown
  <2>5. proc' = proc /\ name' = name /\ early' = early
    BY <1>4 DEF HandleDown
  <2>6. QED
    BY <2>1, <2>2, <2>3, <2>4, <2>5, MessageFacts
<1>5. QED
  BY <1>1, <1>2, <1>3, <1>4 DEF Next, WatcherStep

\* However peers are started, killed and stopped, the row of a dead peer has
\* its clean-up under way, unless it died inside register_attrs/2 before it
\* asked for the monitor (Esr.Entity.Registry and IndexWatcher).
THEOREM NoLeakedRowHolds == Spec => []NoLeakedRow
<1>1. Init => TypeOK /\ IndexInv
  BY DEF Init, TypeOK, IndexInv, NoLeakedRow, ProcStates, Elems
<1>2. IndexInv => NoLeakedRow
  BY DEF IndexInv
<1>3. QED
  BY <1>1, <1>2, TypeStep, IndexStep, PTL DEF Spec

---------------------------------------------------------------------------
(* Cleanup never takes a living peer's row *)

\* A step that removes a role row removes it from a peer that is on its way
\* out.
LEMMA RowKeptStep ==
  ASSUME TypeOK, IndexInv, [Next]_vars, NEW n \in Names, NEW p \in Pids,
         <<n, p>> \in role_index, <<n, p>> \notin role_index'
  PROVE  proc'[p] \in {"stopping", "dead"}
<1>1. ASSUME NEW q \in Pids, PeerStep(q) PROVE proc'[p] \in {"stopping", "dead"}
  <2>1. DeregisterAttrs(q)
    BY <1>1 DEF PeerStep, Start, InsertName, InsertRole, MonitorAndTrack,
                TrackTimeout, Exit
  <2>2. q = p
    BY <2>1 DEF DeregisterAttrs, OwnRows
  <2>3. QED
    BY <2>1, <2>2 DEF DeregisterAttrs, TypeOK
<1>2. CASE HandleTrack
  BY <1>2 DEF HandleTrack
<1>3. CASE HandleDown
  <2>1. Head(mailbox) = Down(Head(mailbox).pid) /\ Head(mailbox) \in Elems(mailbox)
    BY <1>3, HeadFacts, ElemsTail DEF HandleDown, TypeOK
  <2>2. p = Head(mailbox).pid
    BY <1>3 DEF HandleDown, OwnRows
  <2>3. proc[p] = "dead"
    BY <2>1, <2>2 DEF IndexInv
  <2>4. QED
    BY <1>3, <2>3 DEF HandleDown
<1>4. QED
  BY <1>1, <1>2, <1>3 DEF Next, WatcherStep

\* No clean-up, by the watcher for an older incarnation or by another peer's
\* terminate/2, takes the role row of a peer that is up.
THEOREM RoleRowKeptHolds == Spec => RoleRowKept
<1>1. Init => TypeOK /\ IndexInv
  BY DEF Init, TypeOK, IndexInv, NoLeakedRow, ProcStates, Elems
<1>2. TypeOK /\ IndexInv /\ [Next]_vars =>
        [\A n \in Names, p \in Pids :
           /\ <<n, p>> \in role_index
           /\ <<n, p>> \notin role_index'
           => proc'[p] \in {"stopping", "dead"}]_vars
  BY RowKeptStep
<1>3. QED
  BY <1>1, <1>2, TypeStep, IndexStep, PTL DEF Spec, RoleRowKept
=============================================================================
