---------------------------- MODULE ChatProxyProofs ----------------------------
(***************************************************************************)
(* Proofs about ChatProxy, for any messages and any number of chunks,      *)
(* crashes, exits, attachments and acks.                                   *)
(***************************************************************************)
EXTENDS ChatProxy, TLAPS

USE DEF vars, bridgeVars, winsizeVars, mediaVars, ptyVars, histVars, boundVars,
        NotJoined, NotEmitted

---------------------------------------------------------------------------
(* The mailbox *)

\* What the neighbours send is a message.
LEMMA SendTyped ==
  ASSUME mailbox \in Seq(Messages), NEW m \in Messages, NEW l, Send(m, l)
  PROVE  mailbox' \in Seq(Messages)
  BY DEF Send

\* Taking a message that is no flush leaves a queued flush queued.
LEMMA ConsumeKeepsFlush ==
  ASSUME mailbox \in Seq(Messages), mailbox # << >>, Consume,
         Head(mailbox).type # "flush_pty_buffer", FlushQueued
  PROVE  FlushQueued'
<1>1. PICK i \in DOMAIN mailbox : mailbox[i] = Signal("flush_pty_buffer")
  BY DEF FlushQueued, Elems
<1>2. i # 1
  BY <1>1 DEF Signal
<1>3. i - 1 \in DOMAIN Tail(mailbox) /\ Tail(mailbox)[i - 1] = mailbox[i]
  BY <1>2
<1>4. QED
  BY <1>1, <1>3 DEF FlushQueued, Elems, Consume, Signal

\* Appending keeps it queued.
LEMMA AppendKeepsFlush ==
  ASSUME mailbox \in Seq(Messages), NEW m \in Messages, mailbox' = Append(mailbox, m),
         FlushQueued
  PROVE  FlushQueued'
<1>1. PICK i \in DOMAIN mailbox : mailbox[i] = Signal("flush_pty_buffer")
  BY DEF FlushQueued, Elems
<1>2. i \in DOMAIN mailbox' /\ mailbox'[i] = mailbox[i]
  BY <1>1
<1>3. QED
  BY <1>1, <1>2 DEF FlushQueued, Elems, Signal

\* So does whatever the neighbours send, received or not.
LEMMA SendKeepsFlush ==
  ASSUME mailbox \in Seq(Messages), NEW m \in Messages, NEW l, Send(m, l), FlushQueued
  PROVE  FlushQueued'
<1>1. CASE mailbox' = Append(mailbox, m)
  BY <1>1, AppendKeepsFlush
<1>2. CASE mailbox' = mailbox
  BY <1>2 DEF FlushQueued, Elems, Signal
<1>3. QED
  BY <1>1, <1>2 DEF Send

\* A queued flush survives the hand-off, and an armed one becomes a queued one.
LEMMA ReadyKeepsFlush ==
  ASSUME mailbox \in Seq(Messages), HandleReady,
         pty_flush_timer \/ FlushQueued
  PROVE  FlushQueued'
<1> DEFINE rest == Tail(mailbox)
           f == Signal("flush_pty_buffer")
<1>0. rest \in Seq(Messages) /\ mailbox # << >>
  BY DEF HandleReady, Receive
<1>1. CASE pty_flush_timer
  <2>1. mailbox' = rest \o <<f>>
    BY <1>1 DEF HandleReady, FinalFlush
  <2>2. Len(rest) + 1 \in DOMAIN mailbox' /\ mailbox'[Len(rest) + 1] = f
    BY <1>0, <2>1
  <2>3. QED
    BY <2>2 DEF FlushQueued, Elems
<1>2. CASE ~pty_flush_timer
  <2>1. mailbox' = rest
    BY <1>0, <1>2 DEF HandleReady, FinalFlush
  <2>2. Consume /\ FlushQueued /\ Head(mailbox).type # "flush_pty_buffer"
    BY <1>2, <2>1 DEF Consume, HandleReady, Receive
  <2>3. QED
    BY <1>0, <2>2, ConsumeKeepsFlush
<1>3. QED
  BY <1>1, <1>2

---------------------------------------------------------------------------
(* Types *)

\* The part of TypeOK that the argument about the flush needs.
BridgeTypes ==
  /\ fcp \in {"up", "down"}
  /\ mailbox \in Seq(Messages)
  /\ printed \in Nat

\* Messages built by the neighbours, the timers and FCP itself.
LEMMA MessagesTyped ==
  /\ \A t \in SignalTypes : Signal(t) \in Messages
  /\ \A m \in Msgs : FeishuInbound(m) \in Messages /\ MediaTimeout(m) \in Messages
  /\ \A m \in Msgs, ok \in BOOLEAN : DirectiveAck(m, ok) \in Messages
  /\ \A n \in Nat, k \in ChunkKinds : PtyStdout([n |-> n, kind |-> k]) \in Messages
  BY DEF Signal, FeishuInbound, MediaTimeout, DirectiveAck, PtyStdout, Messages, Chunks

\* Every step keeps these types.
LEMMA BridgeTypesStep ==
  ASSUME BridgeTypes, [Next]_vars
  PROVE  BridgeTypes'
<1> USE DEF BridgeTypes
<1>1. CASE FcpStep
  <2>1. ASSUME \/ HandleText \/ HandleMedia \/ HandleMediaRefused
               \/ HandleDirectiveAck \/ HandleMediaTimeout \/ HandleStdoutIgnored
               \/ HandlePtyClosed \/ HandleWinsize \/ HandleAttach
        PROVE BridgeTypes'
    <3>1. fcp' = fcp /\ mailbox # << >> /\ Consume /\ UNCHANGED printed
      BY <2>1 DEF HandleText, HandleMedia, HandleMediaRefused, HandleDirectiveAck,
                  HandleMediaTimeout, HandleStdoutIgnored, HandlePtyClosed, HandleWinsize,
                  HandleAttach, Receive
    <3>2. QED
      BY <3>1 DEF Consume
  <2>2. CASE HandleStdout
    BY <2>2 DEF HandleStdout, Receive, Consume
  <2>3. CASE HandleFlush
    BY <2>3 DEF HandleFlush, Receive, Consume, RefAfterFlush
  <2>4. CASE HandleReady
    <3>1. Signal("flush_pty_buffer") \in Messages
      BY MessagesTyped DEF SignalTypes
    <3>2. FinalFlush \in Seq(Messages)
      BY <3>1 DEF FinalFlush
    <3>3. mailbox' \in Seq(Messages)
      BY <2>4, <3>2 DEF HandleReady, Receive
    <3>4. QED
      BY <2>4, <3>3 DEF HandleReady
  <2>5. QED
    BY <1>1, <2>1, <2>2, <2>3, <2>4 DEF FcpStep
<1>2. ASSUME NEW m \in Messages, NEW l, Send(m, l), fcp' = fcp,
             printed' \in Nat
      PROVE BridgeTypes'
  BY <1>2, SendTyped
<1>3. CASE TimerStep
  <2>1. CASE FlushTimerFires
    BY <1>2, <2>1, MessagesTyped DEF FlushTimerFires, SignalTypes
  <2>2. CASE WinsizeTimerFires
    BY <1>2, <2>2, MessagesTyped DEF WinsizeTimerFires, SignalTypes
  <2>3. ASSUME NEW m \in Msgs, MediaTimerFires(m) PROVE BridgeTypes'
    BY <1>2, <2>3, MessagesTyped DEF MediaTimerFires
  <2>4. QED
    BY <1>3, <2>1, <2>2, <2>3 DEF TimerStep
<1>4. CASE EnvStep
  <2>1. ASSUME NEW m \in Msgs, DeliverInbound(m) PROVE BridgeTypes'
    BY <2>1, MessagesTyped DEF DeliverInbound
  <2>2. ASSUME NEW m \in Msgs, NEW ok \in BOOLEAN, AdapterAck(m, ok) PROVE BridgeTypes'
    BY <1>2, <2>2, MessagesTyped DEF AdapterAck
  <2>3. CASE PtyExit
    BY <1>2, <2>3, MessagesTyped DEF PtyExit, SignalTypes
  <2>4. CASE Join
    BY <1>2, <2>4, MessagesTyped DEF Join, SignalTypes
  <2>5. ASSUME NEW kind \in ChunkKinds, PtyPrints(kind) PROVE BridgeTypes'
    BY <1>2, <2>5, MessagesTyped DEF PtyPrints
  <2>6. CASE SocketInit
    BY <1>2, <2>6, MessagesTyped DEF SocketInit, SignalTypes
  <2>7. CASE PtyStart \/ SocketResize \/ SocketInput
    BY <2>7 DEF PtyStart, SocketResize, SocketInput
  <2>8. QED
    BY <1>4, <2>1, <2>2, <2>3, <2>4, <2>5, <2>6, <2>7 DEF EnvStep
<1>5. CASE FcpCrash
  BY <1>5 DEF FcpCrash
<1>6. CASE FcpRestart
  BY <1>6 DEF FcpRestart
<1>7. CASE UNCHANGED vars
  BY <1>7
<1>8. QED
  BY <1>1, <1>3, <1>4, <1>5, <1>6, <1>7 DEF Next

---------------------------------------------------------------------------
(* The flush *)

\* A step that neither touches the bridge nor removes a queued flush.
LEMMA BridgeUntouched ==
  ASSUME BridgeInv, fcp' = fcp, FlushQueued => FlushQueued',
         UNCHANGED <<subscribed, pty_buffer, pty_flush_timer, flush_armed>>,
         fcp = "down" => mailbox' = mailbox
  PROVE  BridgeInv'
  BY DEF BridgeInv

\* Every step preserves the inductive invariant of the bridge.
LEMMA BridgeStep ==
  ASSUME BridgeTypes, BridgeInv, [Next]_vars
  PROVE  BridgeInv'
<1>0. mailbox \in Seq(Messages) /\ fcp \in {"up", "down"}
  BY DEF BridgeTypes
<1>1. CASE FcpStep
  <2>1. ASSUME \/ HandleText \/ HandleMedia \/ HandleMediaRefused
               \/ HandleDirectiveAck \/ HandleMediaTimeout \/ HandleStdoutIgnored
               \/ HandlePtyClosed \/ HandleWinsize \/ HandleAttach
        PROVE BridgeInv'
    <3>1. /\ fcp = "up" /\ fcp' = fcp /\ mailbox # << >> /\ Consume
          /\ Head(mailbox).type # "flush_pty_buffer"
          /\ UNCHANGED <<subscribed, pty_buffer, pty_flush_timer, flush_armed>>
      BY <2>1 DEF HandleText, HandleMedia, HandleMediaRefused, HandleDirectiveAck,
                  HandleMediaTimeout, HandleStdoutIgnored, HandlePtyClosed, HandleWinsize,
                  HandleAttach, Receive
    <3>2. FlushQueued => FlushQueued'
      BY <1>0, <3>1, ConsumeKeepsFlush
    <3>3. QED
      BY <3>1, <3>2, BridgeUntouched
  <2>2. CASE HandleStdout
    <3>1. /\ fcp = "up" /\ fcp' = fcp /\ mailbox # << >> /\ Consume
          /\ Head(mailbox).type # "flush_pty_buffer"
          /\ pty_flush_timer' = TRUE
          /\ flush_armed' = (flush_armed \/ ~pty_flush_timer)
      BY <2>2 DEF HandleStdout, Receive
    <3>2. FlushQueued => FlushQueued'
      BY <1>0, <3>1, ConsumeKeepsFlush
    <3>3. QED
      BY <1>0, <3>1, <3>2 DEF BridgeInv
  <2>3. CASE HandleFlush
    BY <2>3 DEF HandleFlush, Receive, RefAfterFlush, BridgeInv
  <2>4. CASE HandleReady
    <3>1. /\ fcp = "up" /\ fcp' = fcp /\ pty_flush_timer' = FALSE
          /\ pty_buffer' = pty_buffer
      BY <2>4 DEF HandleReady, Receive
    <3>2. pty_buffer # << >> => FlushQueued'
      BY <1>0, <2>4, ReadyKeepsFlush DEF BridgeInv
    <3>3. QED
      BY <3>1, <3>2 DEF BridgeInv
  <2>5. QED
    BY <1>1, <2>1, <2>2, <2>3, <2>4 DEF FcpStep
<1>2. CASE FlushTimerFires
  <2>1. fcp = "up" /\ fcp' = fcp
    BY <1>0, <1>2 DEF FlushTimerFires, BridgeInv
  <2>2. mailbox' = Append(mailbox, Signal("flush_pty_buffer"))
    BY <1>2, <2>1 DEF FlushTimerFires, Send
  <2>3. Len(mailbox) + 1 \in DOMAIN mailbox' /\ mailbox'[Len(mailbox) + 1] = Signal("flush_pty_buffer")
    BY <1>0, <2>2
  <2>4. FlushQueued'
    BY <2>3 DEF FlushQueued, Elems
  <2>5. QED
    BY <2>1, <2>4 DEF BridgeInv
<1>3. ASSUME NEW m \in Messages, NEW l, Send(m, l), fcp' = fcp,
             UNCHANGED <<subscribed, pty_buffer, pty_flush_timer, flush_armed>>
      PROVE BridgeInv'
  <2>1. FlushQueued => FlushQueued'
    BY <1>0, <1>3, SendKeepsFlush
  <2>2. QED
    BY <1>3, <2>1, BridgeUntouched DEF Send
<1>4. CASE WinsizeTimerFires
  <2>1. Signal("send_default_winsize") \in Messages
    BY DEF Signal, Messages, SignalTypes
  <2>2. QED
    BY <1>3, <1>4, <2>1 DEF WinsizeTimerFires
<1>5. ASSUME NEW m \in Msgs, MediaTimerFires(m) PROVE BridgeInv'
  <2>1. MediaTimeout(m) \in Messages
    BY DEF MediaTimeout, Messages
  <2>2. QED
    BY <1>3, <1>5, <2>1 DEF MediaTimerFires
<1>6. CASE EnvStep
  <2>1. ASSUME NEW m \in Msgs, DeliverInbound(m) PROVE BridgeInv'
    <3>1. FeishuInbound(m) \in Messages
      BY DEF FeishuInbound, Messages
    <3>2. Send(FeishuInbound(m), TRUE)
      BY <2>1 DEF DeliverInbound, Send
    <3>3. QED
      BY <1>3, <2>1, <3>1, <3>2 DEF DeliverInbound
  <2>2. ASSUME NEW m \in Msgs, NEW ok \in BOOLEAN, AdapterAck(m, ok) PROVE BridgeInv'
    <3>1. DirectiveAck(m, ok) \in Messages
      BY DEF DirectiveAck, Messages
    <3>2. QED
      BY <1>3, <2>2, <3>1 DEF AdapterAck
  <2>3. CASE PtyExit
    <3>1. Signal("pty_closed") \in Messages
      BY DEF Signal, Messages, SignalTypes
    <3>2. QED
      BY <1>3, <2>3, <3>1 DEF PtyExit
  <2>4. CASE Join
    <3>1. Signal("cc_mcp_ready") \in Messages
      BY DEF Signal, Messages, SignalTypes
    <3>2. QED
      BY <1>3, <2>4, <3>1 DEF Join
  <2>5. ASSUME NEW kind \in ChunkKinds, PtyPrints(kind) PROVE BridgeInv'
    <3>1. PtyStdout([n |-> printed + 1, kind |-> kind]) \in Messages
      BY DEF PtyStdout, Messages, Chunks, BridgeTypes
    <3>2. QED
      BY <1>3, <2>5, <3>1 DEF PtyPrints
  <2>6. CASE SocketInit
    <3>1. Signal("pty_attach") \in Messages
      BY DEF Signal, Messages, SignalTypes
    <3>2. QED
      BY <1>3, <2>6, <3>1 DEF SocketInit
  <2>7. CASE PtyStart \/ SocketResize \/ SocketInput
    <3>1. /\ fcp' = fcp /\ mailbox' = mailbox
          /\ UNCHANGED <<subscribed, pty_buffer, pty_flush_timer, flush_armed>>
      BY <2>7 DEF PtyStart, SocketResize, SocketInput
    <3>2. FlushQueued => FlushQueued'
      BY <3>1 DEF FlushQueued, Elems, Signal
    <3>3. QED
      BY <3>1, <3>2, BridgeUntouched
  <2>8. QED
    BY <1>6, <2>1, <2>2, <2>3, <2>4, <2>5, <2>6, <2>7 DEF EnvStep
<1>7. CASE FcpCrash
  BY <1>7 DEF FcpCrash, BridgeInv
<1>8. CASE FcpRestart
  BY <1>8 DEF FcpRestart, BridgeInv
<1>9. CASE UNCHANGED vars
  <2>1. FlushQueued => FlushQueued'
    BY <1>9 DEF FlushQueued, Elems, Signal
  <2>2. QED
    BY <1>9, <2>1, BridgeUntouched
<1>10. QED
  BY <1>1, <1>2, <1>4, <1>5, <1>6, <1>7, <1>8, <1>9 DEF Next, TimerStep

\* Output FCP has taken from the terminal never waits in the buffer without a
\* flush to come, whatever the order of output, timer, hand-off and crash.
THEOREM FlushComingHolds == Spec => []FlushComing
<1>1. Init => BridgeTypes /\ BridgeInv
  BY DEF Init, BridgeTypes, BridgeInv
<1>2. BridgeTypes /\ BridgeInv /\ [Next]_vars => BridgeTypes' /\ BridgeInv'
  BY BridgeTypesStep, BridgeStep
<1>3. BridgeInv => FlushComing
  BY DEF BridgeInv, FlushComing
<1>4. QED
  BY <1>1, <1>2, <1>3, PTL DEF Spec

---------------------------------------------------------------------------
(* Sequences *)

\* The elements of a tail stand one place further in the sequence.
LEMMA TailAt ==
  ASSUME NEW S, NEW q \in Seq(S), q # << >>
  PROVE  /\ Tail(q) \in Seq(S)
         /\ Head(q) = q[1] /\ 1 \in DOMAIN q
         /\ \A i \in DOMAIN Tail(q) : i \in Nat /\ i > 0 /\ i + 1 \in DOMAIN q /\ Tail(q)[i] = q[i + 1]
         /\ \A i \in DOMAIN q : i \in Nat /\ (i = 1 \/ (i - 1 \in DOMAIN Tail(q) /\ Tail(q)[i - 1] = q[i]))
  OBVIOUS

\* Appending keeps what is there and adds one.
LEMMA AppendAt ==
  ASSUME NEW S, NEW q \in Seq(S), NEW e \in S
  PROVE  /\ Append(q, e) \in Seq(S)
         /\ \A i \in DOMAIN q : i \in Nat /\ i < Len(q) + 1 /\ i \in DOMAIN Append(q, e) /\ Append(q, e)[i] = q[i]
         /\ Len(q) + 1 \in DOMAIN Append(q, e) /\ Append(q, e)[Len(q) + 1] = e
         /\ \A i \in DOMAIN Append(q, e) : i \in DOMAIN q \/ i = Len(q) + 1
  OBVIOUS

\* A message taken from the mailbox is the only one to leave it.
LEMMA ElemsTail ==
  ASSUME NEW S, NEW q \in Seq(S), q # << >>
  PROVE  Elems(q) \subseteq Elems(Tail(q)) \cup {Head(q)}
<1> SUFFICES ASSUME NEW i \in DOMAIN q, q[i] # Head(q) PROVE q[i] \in Elems(Tail(q))
  BY DEF Elems
<1>1. i - 1 \in DOMAIN Tail(q) /\ Tail(q)[i - 1] = q[i]
  BY TailAt
<1>2. QED
  BY <1>1 DEF Elems

\* A message sent joins the others.
LEMMA ElemsAppend ==
  ASSUME NEW S, NEW q \in Seq(S), NEW e \in S
  PROVE  Elems(q) \subseteq Elems(Append(q, e)) /\ e \in Elems(Append(q, e))
<1>1. ASSUME NEW i \in DOMAIN q PROVE q[i] \in Elems(Append(q, e))
  BY AppendAt DEF Elems
<1>2. e \in Elems(Append(q, e))
  BY AppendAt DEF Elems
<1>3. QED
  BY <1>1, <1>2 DEF Elems

---------------------------------------------------------------------------
(* Inbound messages in the mailbox *)

\* An inbound message is known by what it carries.
LEMMA InboundIs ==
  ASSUME NEW e \in Messages, e.type = "feishu_inbound"
  PROVE  e.msg \in Msgs /\ e = FeishuInbound(e.msg)
  BY DEF Messages, FeishuInbound, SignalTypes

\* Taking the head leaves the rest queued once; an inbound head is not among it.
LEMMA QueuedTail ==
  ASSUME NEW q \in Seq(Messages), q # << >>, NEW f, QueuedOnce(q, f)
  PROVE  /\ QueuedOnce(Tail(q), f)
         /\ Head(q).type = "feishu_inbound" =>
              \A i \in DOMAIN Tail(q) :
                Tail(q)[i].type = "feishu_inbound" => Tail(q)[i].msg # Head(q).msg
<1>1. ASSUME NEW i \in DOMAIN Tail(q), Tail(q)[i].type = "feishu_inbound"
      PROVE f[Tail(q)[i].msg] = "queued"
  BY <1>1, TailAt DEF QueuedOnce
<1>2. ASSUME NEW i \in DOMAIN Tail(q), NEW j \in DOMAIN Tail(q),
             Tail(q)[i].type = "feishu_inbound", Tail(q)[j] = Tail(q)[i]
      PROVE i = j
  <2>1. /\ i \in Nat /\ j \in Nat /\ i + 1 \in DOMAIN q /\ j + 1 \in DOMAIN q
        /\ Tail(q)[i] = q[i + 1] /\ Tail(q)[j] = q[j + 1]
    BY TailAt
  <2>2. i + 1 = j + 1
    BY <1>2, <2>1 DEF QueuedOnce
  <2>3. QED
    BY <2>1, <2>2
<1>3. ASSUME Head(q).type = "feishu_inbound", NEW i \in DOMAIN Tail(q),
             Tail(q)[i].type = "feishu_inbound", Tail(q)[i].msg = Head(q).msg
      PROVE FALSE
  <2>1. /\ i \in Nat /\ i > 0 /\ i + 1 \in DOMAIN q /\ Tail(q)[i] = q[i + 1]
        /\ 1 \in DOMAIN q /\ Head(q) = q[1]
    BY TailAt
  <2>2. q[1] \in Messages /\ q[i + 1] \in Messages
    BY <2>1
  <2>3. q[i + 1] = q[1]
    BY <1>3, <2>1, <2>2, InboundIs
  <2>4. i + 1 = 1
    BY <1>3, <2>1, <2>3 DEF QueuedOnce
  <2>5. QED
    BY <2>1, <2>4
<1>4. QED
  BY <1>1, <1>2, <1>3 DEF QueuedOnce

\* Any other message joins without effect on the inbound ones.
LEMMA QueuedAppend ==
  ASSUME NEW q \in Seq(Messages), NEW e \in Messages, e.type # "feishu_inbound",
         NEW f, QueuedOnce(q, f)
  PROVE  QueuedOnce(Append(q, e), f)
<1> DEFINE r == Append(q, e)
<1>1. ASSUME NEW i \in DOMAIN r, r[i].type = "feishu_inbound"
      PROVE i \in DOMAIN q /\ r[i] = q[i]
  BY <1>1, AppendAt
<1> HIDE DEF r
<1>2. ASSUME NEW i \in DOMAIN r, r[i].type = "feishu_inbound" PROVE f[r[i].msg] = "queued"
  BY <1>1, <1>2 DEF QueuedOnce
<1>3. ASSUME NEW i \in DOMAIN r, NEW j \in DOMAIN r, r[i].type = "feishu_inbound", r[j] = r[i]
      PROVE i = j
  BY <1>1, <1>3 DEF QueuedOnce
<1>4. QueuedOnce(r, f)
  BY <1>2, <1>3 DEF QueuedOnce
<1>5. QED
  BY <1>4 DEF r

\* A message whose fate changes without being in the mailbox.
LEMMA QueuedElsewhere ==
  ASSUME NEW q \in Seq(Messages), NEW f \in [Msgs -> Fates], NEW m \in Msgs, NEW x \in Fates,
         QueuedOnce(q, f),
         \A i \in DOMAIN q : q[i].type = "feishu_inbound" => q[i].msg # m
  PROVE  QueuedOnce(q, [f EXCEPT ![m] = x])
<1>1. ASSUME NEW i \in DOMAIN q, q[i].type = "feishu_inbound"
      PROVE [f EXCEPT ![m] = x][q[i].msg] = "queued"
  <2>1. q[i].msg \in Msgs /\ q[i].msg # m /\ f[q[i].msg] = "queued"
    BY <1>1, InboundIs DEF QueuedOnce
  <2>2. QED
    BY <2>1
<1>2. QED
  BY <1>1 DEF QueuedOnce

\* A message delivered for the first time.
LEMMA QueuedDelivered ==
  ASSUME NEW q \in Seq(Messages), NEW f \in [Msgs -> Fates], NEW m \in Msgs,
         QueuedOnce(q, f), f[m] = "unsent"
  PROVE  QueuedOnce(Append(q, FeishuInbound(m)), [f EXCEPT ![m] = "queued"])
<1> DEFINE r == Append(q, FeishuInbound(m))
           g == [f EXCEPT ![m] = "queued"]
<1>0. FeishuInbound(m) \in Messages
  BY MessagesTyped
<1>1. \A i \in DOMAIN q : q[i].type = "feishu_inbound" => q[i].msg # m
  BY DEF QueuedOnce
<1>2. QueuedOnce(q, g)
  BY <1>1, QueuedElsewhere DEF Fates
<1>3. /\ \A i \in DOMAIN r : i \in DOMAIN q \/ i = Len(q) + 1
      /\ \A i \in DOMAIN q : r[i] = q[i]
      /\ r[Len(q) + 1] = FeishuInbound(m)
  BY <1>0, AppendAt
<1>4. g[m] = "queued"
  OBVIOUS
<1> HIDE DEF r, g
<1>5. ASSUME NEW i \in DOMAIN r, r[i].type = "feishu_inbound" PROVE g[r[i].msg] = "queued"
  BY <1>2, <1>3, <1>4, <1>5 DEF QueuedOnce, FeishuInbound
<1>6. ASSUME NEW i \in DOMAIN q PROVE r[i] # r[Len(q) + 1]
  BY <1>1, <1>3 DEF FeishuInbound
<1>7. ASSUME NEW i \in DOMAIN r, NEW j \in DOMAIN r, r[i].type = "feishu_inbound", r[j] = r[i]
      PROVE i = j
  BY <1>2, <1>3, <1>6, <1>7 DEF QueuedOnce
<1>8. QueuedOnce(r, g)
  BY <1>5, <1>7 DEF QueuedOnce
<1>9. QED
  BY <1>8 DEF r, g

---------------------------------------------------------------------------
(* Downloads and the ends of messages *)

\* The part of TypeOK that the argument about messages needs.
MessageTypes ==
  /\ fate \in [Msgs -> Fates]
  /\ ends \in [Msgs -> Nat]
  /\ pending_media \in SUBSET Msgs

MessageInv == MessageTypes /\ MediaInv /\ FateInv

\* A step that only takes a message that is neither inbound nor a timeout, or sends
\* one that is not inbound.
LEMMA MessagesUntouched ==
  ASSUME BridgeTypes, MessageInv, fcp' = fcp, mailbox' \in Seq(Messages),
         UNCHANGED <<pending_media, ack_subs, media_armed, fate, ends>>,
         QueuedOnce(mailbox', fate), fcp = "down" => mailbox' = mailbox,
         \A m \in pending_media : MediaTimeout(m) \in Elems(mailbox)
                                    => MediaTimeout(m) \in Elems(mailbox')
  PROVE  MessageInv'
<1>1. MessageTypes'
  BY DEF MessageInv, MessageTypes
<1>2. MediaInv'
  <2>1. \A m \in pending_media : m \in media_armed \/ MediaTimeout(m) \in Elems(mailbox')
    BY DEF MessageInv, MediaInv, MediaTracked
  <2>2. QED
    BY <2>1 DEF MessageInv, MediaInv, MediaTracked, MediaTimeout, Elems
<1>3. FateInv'
  BY DEF MessageInv, FateInv, QueuedOnce
<1>4. QED
  BY <1>1, <1>2, <1>3 DEF MessageInv

\* FCP takes a message that is no timeout.
LEMMA TimeoutsKept ==
  ASSUME mailbox \in Seq(Messages), mailbox # << >>,
         Head(mailbox).type # "pending_media_timeout", NEW m,
         MediaTimeout(m) \in Elems(mailbox)
  PROVE  MediaTimeout(m) \in Elems(Tail(mailbox))
<1>1. MediaTimeout(m) # Head(mailbox)
  BY DEF MediaTimeout
<1>2. QED
  BY <1>1, ElemsTail

\* A neighbour or a timer sends a message that is not inbound.
LEMMA MessagesSent ==
  ASSUME BridgeTypes, MessageInv, fcp' = fcp, NEW e \in Messages, e.type # "feishu_inbound",
         NEW l, Send(e, l), UNCHANGED <<pending_media, ack_subs, media_armed, fate, ends>>
  PROVE  MessageInv'
<1>0. mailbox \in Seq(Messages) /\ QueuedOnce(mailbox, fate)
  BY DEF BridgeTypes, MessageInv, FateInv
<1>1. CASE mailbox' = mailbox
  BY <1>0, <1>1, MessagesUntouched
<1>2. CASE fcp = "up" /\ mailbox' = Append(mailbox, e)
  <2>1. mailbox' \in Seq(Messages) /\ Elems(mailbox) \subseteq Elems(mailbox')
    BY <1>0, <1>2, ElemsAppend
  <2>2. QueuedOnce(mailbox', fate)
    BY <1>0, <1>2, QueuedAppend
  <2>3. QED
    BY <1>2, <2>1, <2>2, MessagesUntouched
<1>3. QED
  BY <1>1, <1>2 DEF Send

\* A message comes to its end: it had come to none, and is nowhere to be found.
LEMMA SettledInv ==
  ASSUME MessageTypes, FateInv, NEW m \in Msgs, NEW how \in Settled, Settle(m, how),
         fate[m] \notin Settled
  PROVE  /\ fate' \in [Msgs -> Fates] /\ ends' \in [Msgs -> Nat]
         /\ \A x \in Msgs : ends'[x] = IF fate'[x] \in Settled THEN 1 ELSE 0
         /\ \A x \in Msgs : x # m => fate'[x] = fate[x]
         /\ fate' = [fate EXCEPT ![m] = how]
<1>1. fate' = [fate EXCEPT ![m] = how] /\ ends' = [ends EXCEPT ![m] = ends[m] + 1]
  BY DEF Settle
<1>2. ends[m] = 0 /\ \A x \in Msgs : ends[x] = IF fate[x] \in Settled THEN 1 ELSE 0
  BY DEF FateInv
<1>3. how \in Fates /\ fate \in [Msgs -> Fates] /\ ends \in [Msgs -> Nat]
  BY DEF MessageTypes, Fates
<1>4. fate' \in [Msgs -> Fates] /\ ends' \in [Msgs -> Nat]
  BY <1>1, <1>3
<1>5. \A x \in Msgs : x # m => fate'[x] = fate[x] /\ ends'[x] = ends[x]
  BY <1>1, <1>3
<1>6. fate'[m] = how /\ ends'[m] = 1
  BY <1>1, <1>2, <1>3
<1>7. QED
  BY <1>1, <1>2, <1>4, <1>5, <1>6

\* What holds of an inbound message when FCP takes it: it is settled nowhere, has no
\* download, and is not in the rest of the mailbox.
LEMMA InboundTaken ==
  ASSUME BridgeTypes, MessageInv, Receive("feishu_inbound"), NEW m, m = Msg.msg
  PROVE  /\ m \in Msgs /\ fate[m] = "queued" /\ m \notin pending_media
         /\ fcp = "up" /\ mailbox # << >> /\ Tail(mailbox) \in Seq(Messages)
         /\ QueuedOnce(Tail(mailbox), fate)
         /\ \A i \in DOMAIN Tail(mailbox) :
              Tail(mailbox)[i].type = "feishu_inbound" => Tail(mailbox)[i].msg # m
         /\ \A x \in Msgs : MediaTimeout(x) \in Elems(mailbox)
                              => MediaTimeout(x) \in Elems(Tail(mailbox))
<1>1. mailbox \in Seq(Messages) /\ mailbox # << >> /\ QueuedOnce(mailbox, fate) /\ fcp = "up"
  BY DEF BridgeTypes, MessageInv, FateInv, Receive
<1>2. /\ Head(mailbox) = mailbox[1] /\ 1 \in DOMAIN mailbox /\ Tail(mailbox) \in Seq(Messages)
      /\ mailbox[1] \in Messages
  BY <1>1, TailAt
<1>3. Head(mailbox).type = "feishu_inbound" /\ m = Head(mailbox).msg
  BY DEF Receive, Msg
<1>4. m \in Msgs /\ fate[m] = "queued"
  BY <1>1, <1>2, <1>3, InboundIs DEF QueuedOnce
<1>5. m \notin pending_media
  BY <1>4 DEF MessageInv, FateInv
<1>6. QueuedOnce(Tail(mailbox), fate)
  BY <1>1, QueuedTail
<1>7. \A i \in DOMAIN Tail(mailbox) :
        Tail(mailbox)[i].type = "feishu_inbound" => Tail(mailbox)[i].msg # m
  BY <1>1, <1>3, QueuedTail
<1>8. ASSUME NEW x \in Msgs, MediaTimeout(x) \in Elems(mailbox)
      PROVE MediaTimeout(x) \in Elems(Tail(mailbox))
  BY <1>1, <1>3, <1>8, TimeoutsKept
<1>9. QED
  BY <1>1, <1>2, <1>4, <1>5, <1>6, <1>7, <1>8

\* An inbound message settled where it is taken.
LEMMA InboundSettled ==
  ASSUME BridgeTypes, MessageInv, Receive("feishu_inbound"), Consume, fcp' = fcp,
         NEW how \in Settled, Settle(Msg.msg, how),
         UNCHANGED <<pending_media, ack_subs, media_armed>>
  PROVE  MessageInv'
<1>1. PICK m : m = Msg.msg
  OBVIOUS
<1>2. MessageTypes /\ FateInv /\ MediaInv
  BY DEF MessageInv
<1>3. /\ m \in Msgs /\ fate[m] = "queued" /\ m \notin pending_media /\ fcp = "up"
      /\ Tail(mailbox) \in Seq(Messages) /\ QueuedOnce(Tail(mailbox), fate)
      /\ \A i \in DOMAIN Tail(mailbox) :
           Tail(mailbox)[i].type = "feishu_inbound" => Tail(mailbox)[i].msg # m
      /\ \A x \in Msgs : MediaTimeout(x) \in Elems(mailbox)
                           => MediaTimeout(x) \in Elems(Tail(mailbox))
  BY <1>1, InboundTaken
<1>4. Settle(m, how) /\ fate[m] \notin Settled
  BY <1>1, <1>3 DEF Settled
<1>5. /\ fate' \in [Msgs -> Fates] /\ ends' \in [Msgs -> Nat]
      /\ \A x \in Msgs : ends'[x] = IF fate'[x] \in Settled THEN 1 ELSE 0
      /\ \A x \in Msgs : x # m => fate'[x] = fate[x]
      /\ fate' = [fate EXCEPT ![m] = how]
  BY <1>2, <1>3, <1>4, SettledInv
<1>6. mailbox' = Tail(mailbox)
  BY DEF Consume
<1>7. QueuedOnce(mailbox', fate')
  <2>1. fate \in [Msgs -> Fates] /\ how \in Fates
    BY <1>2 DEF MessageTypes, Fates
  <2>2. QED
    BY <1>3, <1>5, <1>6, <2>1, QueuedElsewhere
<1>8. \A x \in pending_media : fate'[x] = "downloading"
  BY <1>2, <1>3, <1>5 DEF FateInv, MessageTypes
<1>9. FateInv'
  BY <1>5, <1>7, <1>8 DEF FateInv, QueuedOnce
<1>10. MediaInv'
  <2>1. \A x \in pending_media : x \in media_armed \/ MediaTimeout(x) \in Elems(mailbox')
    BY <1>2, <1>3, <1>6 DEF MediaInv, MediaTracked, MessageTypes
  <2>2. QED
    BY <1>2, <1>3, <2>1 DEF MediaInv, MediaTracked, MediaTimeout, Elems
<1>11. QED
  BY <1>2, <1>5, <1>9, <1>10 DEF MessageInv, MessageTypes

\* A download begun.
LEMMA DownloadBegun ==
  ASSUME BridgeTypes, MessageInv, HandleMedia
  PROVE  MessageInv'
<1>1. PICK m : m = Msg.msg
  OBVIOUS
<1>2. MessageTypes /\ FateInv /\ MediaInv
  BY DEF MessageInv
<1>3. /\ Receive("feishu_inbound") /\ mailbox' = Tail(mailbox) /\ fcp' = fcp
      /\ ack_subs' = ack_subs \cup {m} /\ media_armed' = media_armed \cup {m}
      /\ pending_media' = pending_media \cup {m}
      /\ fate' = [fate EXCEPT ![m] = "downloading"] /\ ends' = ends
  BY <1>1 DEF HandleMedia, Consume, MediaDeadline
<1>4. /\ m \in Msgs /\ fate[m] = "queued" /\ m \notin pending_media /\ fcp = "up"
      /\ Tail(mailbox) \in Seq(Messages) /\ QueuedOnce(Tail(mailbox), fate)
      /\ \A i \in DOMAIN Tail(mailbox) :
           Tail(mailbox)[i].type = "feishu_inbound" => Tail(mailbox)[i].msg # m
      /\ \A x \in Msgs : MediaTimeout(x) \in Elems(mailbox)
                           => MediaTimeout(x) \in Elems(Tail(mailbox))
  BY <1>1, <1>3, InboundTaken
<1>5. fate \in [Msgs -> Fates] /\ "downloading" \in Fates /\ pending_media \subseteq Msgs
  BY <1>2 DEF MessageTypes, Fates
<1>6. QueuedOnce(mailbox', fate')
  BY <1>3, <1>4, <1>5, QueuedElsewhere
<1>7. fate' \in [Msgs -> Fates] /\ \A x \in Msgs : x # m => fate'[x] = fate[x]
  BY <1>3, <1>5
<1>8. fate'[m] = "downloading"
  BY <1>3, <1>4, <1>5
<1>9. \A x \in Msgs : ends'[x] = IF fate'[x] \in Settled THEN 1 ELSE 0
  BY <1>2, <1>3, <1>4, <1>7, <1>8 DEF FateInv, Settled
<1>10. \A x \in pending_media' : fate'[x] = "downloading"
  BY <1>2, <1>3, <1>5, <1>7, <1>8 DEF FateInv
<1>11. FateInv'
  BY <1>6, <1>9, <1>10 DEF FateInv, QueuedOnce
<1>12. MediaInv'
  <2>1. \A x \in pending_media' : x \in media_armed' \/ MediaTimeout(x) \in Elems(mailbox')
    BY <1>2, <1>3, <1>4, <1>5 DEF MediaInv, MediaTracked
  <2>2. QED
    BY <1>2, <1>3, <1>4, <2>1 DEF MediaInv, MediaTracked, MediaTimeout, Elems
<1>13. QED
  BY <1>2, <1>3, <1>4, <1>7, <1>11, <1>12 DEF MessageInv, MessageTypes

\* An ack or a timeout, of a download still under way or not.
LEMMA DownloadEnded ==
  ASSUME BridgeTypes, MessageInv, fcp = "up", fcp' = fcp, mailbox # << >>, Consume,
         Head(mailbox).type # "feishu_inbound", NEW m \in Msgs, Head(mailbox).msg = m,
         NEW how \in Settled, Finish(m, how), UNCHANGED media_armed
  PROVE  MessageInv'
<1>1. MessageTypes /\ FateInv /\ MediaInv /\ mailbox' = Tail(mailbox) /\ mailbox \in Seq(Messages)
  BY DEF MessageInv, Consume, BridgeTypes
<1>2. Tail(mailbox) \in Seq(Messages) /\ QueuedOnce(mailbox', fate)
  BY <1>1, TailAt, QueuedTail DEF FateInv
<1>3. ASSUME NEW x, x # m, MediaTimeout(x) \in Elems(mailbox)
      PROVE MediaTimeout(x) \in Elems(mailbox')
  <2>1. MediaTimeout(x) # Head(mailbox)
    BY <1>3 DEF MediaTimeout
  <2>2. QED
    BY <1>1, <1>3, <2>1, ElemsTail
<1>4. CASE m \notin pending_media
  <2>1. UNCHANGED <<pending_media, ack_subs, fate, ends>>
    BY <1>4 DEF Finish
  <2>2. QED
    BY <1>1, <1>2, <1>3, <1>4, <2>1, MessagesUntouched
<1>5. CASE m \in pending_media
  <2>1. pending_media' = pending_media \ {m} /\ ack_subs' = ack_subs \ {m} /\ Settle(m, how)
    BY <1>5 DEF Finish, UnsubscribeAck
  <2>2. fate[m] = "downloading" /\ fate[m] \notin Settled
    BY <1>1, <1>5 DEF FateInv, Settled
  <2>3. /\ fate' \in [Msgs -> Fates] /\ ends' \in [Msgs -> Nat]
        /\ \A x \in Msgs : ends'[x] = IF fate'[x] \in Settled THEN 1 ELSE 0
        /\ \A x \in Msgs : x # m => fate'[x] = fate[x]
        /\ fate' = [fate EXCEPT ![m] = how]
    BY <1>1, <2>1, <2>2, SettledInv
  <2>4. \A i \in DOMAIN mailbox' : mailbox'[i].type = "feishu_inbound" => mailbox'[i].msg # m
    BY <1>2, <2>2 DEF QueuedOnce
  <2>5. QueuedOnce(mailbox', fate')
    <3>1. fate \in [Msgs -> Fates] /\ how \in Fates /\ mailbox' \in Seq(Messages)
      BY <1>1, <1>2 DEF MessageTypes, Fates
    <3>2. QED
      BY <1>2, <2>3, <2>4, <3>1, QueuedElsewhere
  <2>6. \A x \in pending_media' : fate'[x] = "downloading"
    BY <1>1, <2>1, <2>3 DEF FateInv, MessageTypes
  <2>7. FateInv'
    BY <2>3, <2>5, <2>6 DEF FateInv, QueuedOnce
  <2>8. MediaInv'
    <3>1. \A x \in pending_media' : x \in media_armed' \/ MediaTimeout(x) \in Elems(mailbox')
      BY <1>1, <1>3, <2>1 DEF MediaInv, MediaTracked
    <3>2. QED
      BY <1>1, <2>1, <3>1 DEF MediaInv, MediaTracked, MediaTimeout, Elems
  <2>9. QED
    BY <1>1, <2>1, <2>3, <2>7, <2>8 DEF MessageInv, MessageTypes
<1>6. QED
  BY <1>4, <1>5

\* The hand-off's last flush, as sent by FCP to itself.
LEMMA ReadyMailbox ==
  ASSUME BridgeTypes, HandleReady
  PROVE  /\ fcp = "up" /\ mailbox # << >> /\ Tail(mailbox) \in Seq(Messages)
         /\ Head(mailbox).type = "cc_mcp_ready"
         /\ Signal("flush_pty_buffer") \in Messages
         /\ \/ mailbox' = Tail(mailbox)
            \/ mailbox' = Append(Tail(mailbox), Signal("flush_pty_buffer"))
<1>1. mailbox \in Seq(Messages) /\ mailbox # << >> /\ Head(mailbox).type = "cc_mcp_ready" /\ fcp = "up"
  BY DEF BridgeTypes, HandleReady, Receive
<1>2. Tail(mailbox) \in Seq(Messages)
  BY <1>1
<1>3. Signal("flush_pty_buffer") \in Messages
  BY MessagesTyped DEF SignalTypes
<1>4. PICK f \in Messages : f = Signal("flush_pty_buffer")
  BY <1>3
<1>5. Tail(mailbox) \o << >> = Tail(mailbox)
  BY <1>2
<1>6. Tail(mailbox) \o <<f>> = Append(Tail(mailbox), f)
  BY <1>2
<1>7. QED
  BY <1>1, <1>2, <1>3, <1>4, <1>5, <1>6 DEF HandleReady, FinalFlush

\* FCP's own steps keep every message accounted for.
LEMMA FcpStepMessages ==
  ASSUME BridgeTypes, MessageInv, FcpStep
  PROVE  MessageInv'
<1>0. mailbox \in Seq(Messages) /\ QueuedOnce(mailbox, fate)
  BY DEF BridgeTypes, MessageInv, FateInv
<1>1. CASE HandleText
  <2>1. PICK how \in Settled : Settle(Msg.msg, how)
    BY <1>1 DEF HandleText, Settled
  <2>2. QED
    BY <1>1, <2>1, InboundSettled DEF HandleText
<1>2. CASE HandleMedia
  BY <1>2, DownloadBegun
<1>3. CASE HandleMediaRefused
  <2>1. PICK how \in Settled : Settle(Msg.msg, how)
    BY <1>3 DEF HandleMediaRefused, Settled
  <2>2. QED
    BY <1>3, <2>1, InboundSettled DEF HandleMediaRefused
<1>4. ASSUME NEW how \in Settled, Finish(Msg.msg, how), Consume, fcp' = fcp, UNCHANGED media_armed,
             Receive("directive_ack") \/ Receive("pending_media_timeout")
      PROVE MessageInv'
  <2>1. PICK m : m = Msg.msg
    OBVIOUS
  <2>2. /\ fcp = "up" /\ mailbox # << >> /\ Head(mailbox).msg = m
        /\ Head(mailbox).type \in {"directive_ack", "pending_media_timeout"}
    BY <1>4, <2>1 DEF Receive, Msg
  <2>3. Head(mailbox) \in Messages
    BY <1>0, <2>2
  <2>4. m \in Msgs
    BY <2>2, <2>3 DEF Messages, SignalTypes
  <2>5. Finish(m, how)
    BY <1>4, <2>1
  <2>6. QED
    BY <1>4, <2>2, <2>4, <2>5, DownloadEnded
<1>5. CASE HandleDirectiveAck
  <2>1. PICK how \in Settled : Finish(Msg.msg, how)
    BY <1>5 DEF HandleDirectiveAck, Settled
  <2>2. QED
    BY <1>4, <1>5, <2>1 DEF HandleDirectiveAck
<1>6. CASE HandleMediaTimeout
  BY <1>4, <1>6 DEF HandleMediaTimeout, Settled
<1>7. CASE HandleStdoutIgnored \/ HandleStdout \/ HandleFlush \/ HandlePtyClosed \/ HandleWinsize
           \/ HandleAttach
  <2>1. /\ fcp = "up" /\ fcp' = fcp /\ mailbox # << >> /\ mailbox' = Tail(mailbox)
        /\ Head(mailbox).type # "pending_media_timeout"
        /\ UNCHANGED <<pending_media, ack_subs, media_armed, fate, ends>>
    BY <1>7 DEF HandleStdoutIgnored, HandleStdout, HandleFlush, HandlePtyClosed, HandleWinsize,
                HandleAttach, Receive, Consume
  <2>2. mailbox' \in Seq(Messages) /\ QueuedOnce(mailbox', fate)
    BY <1>0, <2>1, TailAt, QueuedTail
  <2>3. \A m \in pending_media : MediaTimeout(m) \in Elems(mailbox)
                                   => MediaTimeout(m) \in Elems(mailbox')
    BY <1>0, <2>1, TimeoutsKept
  <2>4. QED
    BY <2>1, <2>2, <2>3, MessagesUntouched
<1>8. CASE HandleReady
  <2>1. /\ fcp = "up" /\ fcp' = fcp
        /\ UNCHANGED <<pending_media, ack_subs, media_armed, fate, ends>>
    BY <1>8 DEF HandleReady, Receive
  <2>2. /\ mailbox # << >> /\ Head(mailbox).type = "cc_mcp_ready"
        /\ Tail(mailbox) \in Seq(Messages) /\ Signal("flush_pty_buffer") \in Messages
    BY <1>8, ReadyMailbox
  <2>3. QueuedOnce(Tail(mailbox), fate)
    BY <1>0, <2>2, QueuedTail
  <2>4. \A m \in pending_media : MediaTimeout(m) \in Elems(mailbox)
                                   => MediaTimeout(m) \in Elems(Tail(mailbox))
    BY <1>0, <2>2, TimeoutsKept
  <2>5. CASE mailbox' = Tail(mailbox)
    BY <2>1, <2>2, <2>3, <2>4, <2>5, MessagesUntouched
  <2>6. CASE mailbox' = Append(Tail(mailbox), Signal("flush_pty_buffer"))
    <3>1. PICK f \in Messages : f = Signal("flush_pty_buffer")
      BY <2>2
    <3>2. f.type # "feishu_inbound" /\ mailbox' = Append(Tail(mailbox), f)
      BY <2>6, <3>1 DEF Signal
    <3>3. mailbox' \in Seq(Messages) /\ QueuedOnce(mailbox', fate)
      <4>1. PICK q \in Seq(Messages) : q = Tail(mailbox)
        BY <2>2
      <4>2. QueuedOnce(Append(q, f), fate)
        BY <2>3, <3>2, <4>1, QueuedAppend
      <4>3. Append(q, f) \in Seq(Messages)
        BY AppendAt
      <4>4. QED
        BY <3>2, <4>1, <4>2, <4>3
    <3>4. Elems(Tail(mailbox)) \subseteq Elems(mailbox')
      BY <2>2, <3>2, ElemsAppend
    <3>5. QED
      BY <2>1, <2>4, <3>3, <3>4, MessagesUntouched
  <2>7. QED
    BY <1>8, <2>5, <2>6, ReadyMailbox
<1>9. QED
  BY <1>1, <1>2, <1>3, <1>5, <1>6, <1>7, <1>8 DEF FcpStep

\* So do the timers, the neighbours, a crash and a restart.
LEMMA MessageStep ==
  ASSUME BridgeTypes, MessageInv, [Next]_vars
  PROVE  MessageInv'
<1>0. mailbox \in Seq(Messages) /\ QueuedOnce(mailbox, fate) /\ MessageTypes /\ MediaInv /\ FateInv
  BY DEF BridgeTypes, MessageInv, FateInv
<1>1. CASE FcpStep
  BY <1>1, FcpStepMessages
<1>2. ASSUME NEW t \in SignalTypes, NEW l, Send(Signal(t), l), fcp' = fcp,
             UNCHANGED <<pending_media, ack_subs, media_armed, fate, ends>>
      PROVE MessageInv'
  <2>1. PICK e \in Messages : e = Signal(t)
    BY MessagesTyped
  <2>2. e.type # "feishu_inbound"
    BY <2>1 DEF Signal, SignalTypes
  <2>3. QED
    BY <1>2, <2>1, <2>2, MessagesSent
<1>3. CASE FlushTimerFires
  BY <1>2, <1>3 DEF FlushTimerFires, SignalTypes
<1>4. CASE WinsizeTimerFires
  BY <1>2, <1>4 DEF WinsizeTimerFires, SignalTypes
<1>5. ASSUME NEW m \in Msgs, MediaTimerFires(m) PROVE MessageInv'
  <2>1. /\ m \in media_armed /\ media_armed' = media_armed \ {m} /\ fcp' = fcp
        /\ Send(MediaTimeout(m), TRUE)
        /\ UNCHANGED <<pending_media, ack_subs, fate, ends>>
    BY <1>5 DEF MediaTimerFires
  <2>2. fcp = "up"
    BY <1>0, <2>1 DEF MediaInv, BridgeTypes
  <2>3. PICK e \in Messages : e = MediaTimeout(m)
    BY MessagesTyped
  <2>4. mailbox' = Append(mailbox, e) /\ e.type # "feishu_inbound"
    BY <2>1, <2>2, <2>3 DEF Send, MediaTimeout
  <2>5. Elems(mailbox) \subseteq Elems(mailbox') /\ MediaTimeout(m) \in Elems(mailbox')
    BY <1>0, <2>3, <2>4, ElemsAppend
  <2>6. QueuedOnce(mailbox', fate)
    BY <1>0, <2>4, QueuedAppend
  <2>7. MediaInv'
    <3>1. \A x \in pending_media' : x \in media_armed' \/ MediaTimeout(x) \in Elems(mailbox')
      BY <1>0, <2>1, <2>5 DEF MediaInv, MediaTracked
    <3>2. QED
      BY <1>0, <2>1, <2>2, <3>1 DEF MediaInv, MediaTracked, MediaTimeout, Elems
  <2>8. FateInv'
    BY <1>0, <2>1, <2>6 DEF FateInv, QueuedOnce
  <2>9. QED
    BY <1>0, <2>1, <2>7, <2>8 DEF MessageInv, MessageTypes
<1>6. ASSUME NEW m \in Msgs, DeliverInbound(m) PROVE MessageInv'
  <2>1. /\ fate[m] = "unsent" /\ fcp = "up" /\ fcp' = fcp
        /\ mailbox' = Append(mailbox, FeishuInbound(m))
        /\ fate' = [fate EXCEPT ![m] = "queued"]
        /\ UNCHANGED <<pending_media, ack_subs, media_armed, ends>>
    BY <1>6 DEF DeliverInbound
  <2>2. fate \in [Msgs -> Fates] /\ "queued" \in Fates /\ pending_media \subseteq Msgs
    BY <1>0 DEF MessageTypes, Fates
  <2>3. QueuedOnce(mailbox', fate')
    BY <1>0, <2>1, <2>2, QueuedDelivered
  <2>4. PICK e \in Messages : e = FeishuInbound(m)
    BY MessagesTyped
  <2>5. Elems(mailbox) \subseteq Elems(mailbox')
    BY <1>0, <2>1, <2>4, ElemsAppend
  <2>6. fate' \in [Msgs -> Fates] /\ fate'[m] = "queued" /\ \A x \in Msgs : x # m => fate'[x] = fate[x]
    BY <2>1, <2>2
  <2>7. FateInv'
    <3>1. \A x \in Msgs : ends'[x] = IF fate'[x] \in Settled THEN 1 ELSE 0
      BY <1>0, <2>1, <2>6 DEF FateInv, Settled
    <3>2. \A x \in pending_media' : fate'[x] = "downloading"
      BY <1>0, <2>1, <2>2, <2>6 DEF FateInv
    <3>3. QED
      BY <2>3, <3>1, <3>2 DEF FateInv, QueuedOnce
  <2>8. MediaInv'
    <3>1. \A x \in pending_media' : x \in media_armed' \/ MediaTimeout(x) \in Elems(mailbox')
      BY <1>0, <2>1, <2>5 DEF MediaInv, MediaTracked
    <3>2. QED
      BY <1>0, <2>1, <3>1 DEF MediaInv, MediaTracked, MediaTimeout, Elems
  <2>9. QED
    BY <1>0, <2>1, <2>6, <2>7, <2>8 DEF MessageInv, MessageTypes
<1>7. ASSUME NEW m \in Msgs, NEW ok \in BOOLEAN, AdapterAck(m, ok) PROVE MessageInv'
  <2>1. PICK e \in Messages : e = DirectiveAck(m, ok)
    BY MessagesTyped
  <2>2. e.type # "feishu_inbound"
    BY <2>1 DEF DirectiveAck
  <2>3. QED
    BY <1>7, <2>1, <2>2, MessagesSent DEF AdapterAck
<1>8. ASSUME NEW kind \in ChunkKinds, PtyPrints(kind) PROVE MessageInv'
  <2>1. PICK e \in Messages : e = PtyStdout([n |-> printed + 1, kind |-> kind])
    BY MessagesTyped DEF BridgeTypes
  <2>2. e.type # "feishu_inbound"
    BY <2>1 DEF PtyStdout
  <2>3. QED
    BY <1>8, <2>1, <2>2, MessagesSent DEF PtyPrints
<1>9. CASE PtyExit
  BY <1>2, <1>9 DEF PtyExit, SignalTypes
<1>10. CASE Join
  BY <1>2, <1>10 DEF Join, SignalTypes
<1>11. CASE SocketInit
  BY <1>2, <1>11 DEF SocketInit, SignalTypes
<1>12. CASE PtyStart \/ SocketResize \/ SocketInput \/ UNCHANGED vars
  <2>1. fcp' = fcp /\ mailbox' = mailbox /\ UNCHANGED <<pending_media, ack_subs, media_armed, fate, ends>>
    BY <1>12 DEF PtyStart, SocketResize, SocketInput
  <2>2. QED
    BY <1>0, <2>1, MessagesUntouched
<1>13. CASE FcpCrash
  <2>1. /\ mailbox' = << >> /\ pending_media' = {} /\ ack_subs' = {} /\ media_armed' = {} /\ ends' = ends
        /\ fate' = [m \in Msgs |-> IF fate[m] \in {"queued", "downloading"} THEN "lost" ELSE fate[m]]
    BY <1>13 DEF FcpCrash
  <2>2. fate' \in [Msgs -> Fates]
    BY <1>0, <2>1 DEF MessageTypes, Fates
  <2>3. \A x \in Msgs : ends'[x] = IF fate'[x] \in Settled THEN 1 ELSE 0
    BY <1>0, <2>1 DEF FateInv, Settled
  <2>4. DOMAIN mailbox' = {}
    BY <2>1
  <2>5. FateInv'
    BY <2>1, <2>3, <2>4 DEF FateInv, QueuedOnce
  <2>6. MediaInv'
    BY <2>1 DEF MediaInv, MediaTracked
  <2>7. QED
    BY <1>0, <2>1, <2>2, <2>5, <2>6 DEF MessageInv, MessageTypes
<1>14. CASE FcpRestart
  <2>1. fcp' = "up" /\ mailbox' = mailbox /\ UNCHANGED <<pending_media, ack_subs, media_armed, fate, ends>>
    BY <1>14 DEF FcpRestart
  <2>2. MediaInv'
    BY <1>0, <2>1 DEF MediaInv, MediaTracked, MediaTimeout, Elems
  <2>3. FateInv'
    BY <1>0, <2>1 DEF FateInv, QueuedOnce
  <2>4. QED
    BY <1>0, <2>1, <2>2, <2>3 DEF MessageInv, MessageTypes
<1>15. QED
  BY <1>1, <1>3, <1>4, <1>5, <1>6, <1>7, <1>8, <1>9, <1>10, <1>11, <1>12, <1>13, <1>14
     DEF Next, TimerStep, EnvStep

\* Initially nothing has been sent.
LEMMA MessageInit == Init => BridgeTypes /\ MessageInv
<1> SUFFICES ASSUME Init PROVE BridgeTypes /\ MessageInv
  OBVIOUS
<1>1. BridgeTypes
  BY DEF Init, BridgeTypes
<1>2. MessageTypes /\ MediaInv
  BY DEF Init, MessageTypes, Fates, MediaInv, MediaTracked
<1>3. FateInv
  BY DEF Init, FateInv, QueuedOnce, Settled
<1>4. QED
  BY <1>1, <1>2, <1>3 DEF MessageInv

\* A download under way always has its subscription and a timeout to come, through
\* late and repeated acks, refusals, crashes and restarts.
THEOREM MediaTrackedHolds == Spec => []MediaTracked
<1>1. BridgeTypes /\ MessageInv /\ [Next]_vars => BridgeTypes' /\ MessageInv'
  BY BridgeTypesStep, MessageStep
<1>2. MessageInv => MediaTracked
  BY DEF MessageInv, MediaInv
<1>3. QED
  BY <1>1, <1>2, MessageInit, PTL DEF Spec

\* No inbound message comes to two ends, however often the adapter acks and whether
\* or not the timeout fires after the ack.
THEOREM SettledOnceHolds == Spec => []SettledOnce
<1>1. BridgeTypes /\ MessageInv /\ [Next]_vars => BridgeTypes' /\ MessageInv'
  BY BridgeTypesStep, MessageStep
<1>2. MessageInv => SettledOnce
  BY DEF MessageInv, FateInv, SettledOnce
<1>3. QED
  BY <1>1, <1>2, MessageInit, PTL DEF Spec

---------------------------------------------------------------------------
(* The order of the output *)

\* A concatenation is the first sequence and then the second.
LEMMA ConcatAt ==
  ASSUME NEW S, NEW q \in Seq(S), NEW r \in Seq(S)
  PROVE  /\ q \o r \in Seq(S)
         /\ \A i \in DOMAIN q : i \in Nat /\ i <= Len(q) /\ (q \o r)[i] = q[i]
         /\ \A i \in DOMAIN (q \o r) :
              \/ i \in DOMAIN q
              \/ i \in Nat /\ i > Len(q) /\ i - Len(q) \in DOMAIN r /\ (q \o r)[i] = r[i - Len(q)]
  OBVIOUS

\* The numbers of a buffer's chunks.
LEMMA NumbersAt ==
  ASSUME NEW buf \in Seq(Chunks)
  PROVE  /\ Numbers(buf) \in Seq(Nat)
         /\ DOMAIN Numbers(buf) = DOMAIN buf
         /\ \A i \in DOMAIN buf : Numbers(buf)[i] = buf[i].n /\ buf[i].n \in Nat
<1>1. DOMAIN buf = 1..Len(buf) /\ Len(buf) \in Nat
  OBVIOUS
<1>2. \A i \in DOMAIN buf : buf[i].n \in Nat
  <2>1. \A i \in DOMAIN buf : buf[i] \in Chunks
    OBVIOUS
  <2>2. QED
    BY <2>1 DEF Chunks
<1>3. QED
  BY <1>1, <1>2 DEF Numbers

\* A terminal's message carries a numbered chunk.
LEMMA StdoutIs ==
  ASSUME NEW q \in Seq(Messages)
  PROVE  \A i \in Stdout(q) : i \in DOMAIN q /\ i \in Nat /\ q[i].chunk \in Chunks /\ q[i].chunk.n \in Nat
<1> SUFFICES ASSUME NEW i \in Stdout(q)
             PROVE i \in DOMAIN q /\ i \in Nat /\ q[i].chunk \in Chunks /\ q[i].chunk.n \in Nat
  OBVIOUS
<1>1. i \in DOMAIN q /\ q[i].type = "pty_stdout"
  BY DEF Stdout
<1>2. i \in Nat /\ q[i] \in Messages
  BY <1>1
<1>3. q[i].chunk \in Chunks
  BY <1>1, <1>2 DEF Messages, SignalTypes
<1>4. QED
  BY <1>1, <1>2, <1>3 DEF Chunks

\* Terminal messages of a tail, and of a mailbox with one more message.
LEMMA StdoutTail ==
  ASSUME NEW q \in Seq(Messages), q # << >>
  PROVE  \A i \in Stdout(Tail(q)) : i \in Nat /\ i > 0 /\ i + 1 \in Stdout(q) /\ Tail(q)[i] = q[i + 1]
  BY TailAt DEF Stdout

LEMMA StdoutAppend ==
  ASSUME NEW q \in Seq(Messages), NEW e \in Messages
  PROVE  /\ \A i \in Stdout(Append(q, e)) :
              \/ i \in Stdout(q) /\ Append(q, e)[i] = q[i]
              \/ i = Len(q) + 1 /\ Append(q, e)[i] = e /\ e.type = "pty_stdout"
         /\ \A i \in Stdout(q) : i < Len(q) + 1
  BY AppendAt DEF Stdout

\* Taking a message keeps the order.
LEMMA OrderTail ==
  ASSUME NEW sent, NEW buf, NEW q \in Seq(Messages), q # << >>, NEW n, InPrintOrder(sent, buf, q, n)
  PROVE  InPrintOrder(sent, buf, Tail(q), n)
<1>1. \A i \in Stdout(Tail(q)) : i \in Nat /\ i + 1 \in Stdout(q) /\ Tail(q)[i] = q[i + 1]
  BY StdoutTail
<1>2. ASSUME NEW i \in Stdout(Tail(q)), NEW j \in Stdout(Tail(q)), i < j
      PROVE Tail(q)[i].chunk.n < Tail(q)[j].chunk.n
  <2>1. i + 1 < j + 1
    BY <1>1, <1>2
  <2>2. QED
    BY <1>1, <2>1 DEF InPrintOrder
<1>3. QED
  BY <1>1, <1>2 DEF InPrintOrder

\* So does a message that is no output.
LEMMA OrderAppend ==
  ASSUME NEW sent, NEW buf, NEW q \in Seq(Messages), NEW e \in Messages, e.type # "pty_stdout",
         NEW n, InPrintOrder(sent, buf, q, n)
  PROVE  InPrintOrder(sent, buf, Append(q, e), n)
<1>1. \A i \in Stdout(Append(q, e)) : i \in Stdout(q) /\ Append(q, e)[i] = q[i]
  BY StdoutAppend
<1>2. QED
  BY <1>1 DEF InPrintOrder

\* A chunk printed, whether or not anybody is told.
LEMMA OrderPrinted ==
  ASSUME NEW sent \in Seq(Nat), NEW buf \in Seq(Chunks), NEW q \in Seq(Messages), NEW n \in Nat,
         NEW kind \in ChunkKinds, InPrintOrder(sent, buf, q, n)
  PROVE  /\ InPrintOrder(sent, buf, q, n + 1)
         /\ InPrintOrder(sent, buf, Append(q, PtyStdout([n |-> n + 1, kind |-> kind])), n + 1)
<1>1. \A i \in DOMAIN sent : sent[i] \in Nat
  OBVIOUS
<1>2. \A i \in DOMAIN buf : buf[i].n \in Nat
  BY NumbersAt
<1>3. \A i \in Stdout(q) : q[i].chunk.n \in Nat
  BY StdoutIs
<1>4. InPrintOrder(sent, buf, q, n + 1)
  BY <1>1, <1>2, <1>3 DEF InPrintOrder
<1>5. PICK e \in Messages : e = PtyStdout([n |-> n + 1, kind |-> kind])
  BY MessagesTyped
<1>6. e.type = "pty_stdout" /\ e.chunk.n = n + 1
  BY <1>5 DEF PtyStdout
<1> DEFINE r == Append(q, e)
<1>7. \A i \in Stdout(r) : \/ i \in Stdout(q) /\ r[i] = q[i]
                           \/ i = Len(q) + 1 /\ r[i] = e
  BY StdoutAppend
<1>8. \A i \in Stdout(q) : i \in Nat /\ i < Len(q) + 1
  BY StdoutAppend, StdoutIs
<1> HIDE DEF r
<1>9. \A i \in Stdout(r) : r[i].chunk.n <= n + 1
  BY <1>3, <1>4, <1>6, <1>7 DEF InPrintOrder
<1>10. ASSUME NEW i \in Stdout(r), NEW j \in Stdout(r), i < j PROVE r[i].chunk.n < r[j].chunk.n
  <2>1. Len(q) \in Nat
    OBVIOUS
  <2>2. CASE j \in Stdout(q)
    <3>1. i \in Stdout(q) /\ r[i] = q[i]
      BY <1>7, <1>8, <1>10, <2>1, <2>2
    <3>2. r[j] = q[j]
      BY <1>7, <1>8, <2>1, <2>2
    <3>3. QED
      BY <1>10, <2>2, <3>1, <3>2 DEF InPrintOrder
  <2>3. CASE j = Len(q) + 1 /\ r[j] = e
    <3>1. i \in Stdout(q) /\ r[i] = q[i]
      BY <1>7, <1>10, <2>1, <2>3
    <3>2. QED
      BY <1>3, <1>6, <2>3, <3>1 DEF InPrintOrder
  <2>4. QED
    BY <1>7, <2>2, <2>3
<1>11. ASSUME NEW i \in DOMAIN sent, NEW j \in Stdout(r) PROVE sent[i] < r[j].chunk.n
  <2>1. CASE j \in Stdout(q) /\ r[j] = q[j]
    BY <2>1 DEF InPrintOrder
  <2>2. CASE r[j] = e
    BY <1>1, <1>6, <2>2 DEF InPrintOrder
  <2>3. QED
    BY <1>7, <2>1, <2>2
<1>12. ASSUME NEW i \in DOMAIN buf, NEW j \in Stdout(r) PROVE buf[i].n < r[j].chunk.n
  <2>1. CASE j \in Stdout(q) /\ r[j] = q[j]
    BY <2>1 DEF InPrintOrder
  <2>2. CASE r[j] = e
    BY <1>2, <1>6, <2>2 DEF InPrintOrder
  <2>3. QED
    BY <1>7, <2>1, <2>2
<1>13. InPrintOrder(sent, buf, r, n + 1)
  BY <1>4, <1>9, <1>10, <1>11, <1>12 DEF InPrintOrder
<1>14. QED
  BY <1>4, <1>5, <1>13 DEF r

\* A chunk taken from the mailbox into the buffer.
LEMMA OrderBuffered ==
  ASSUME NEW sent \in Seq(Nat), NEW buf \in Seq(Chunks), NEW q \in Seq(Messages), q # << >>,
         NEW n \in Nat, Head(q).type = "pty_stdout", InPrintOrder(sent, buf, q, n)
  PROVE  /\ InPrintOrder(sent, Append(buf, Head(q).chunk), Tail(q), n)
         /\ Append(buf, Head(q).chunk) \in Seq(Chunks)
<1>1. Head(q) = q[1] /\ 1 \in Stdout(q)
  BY TailAt DEF Stdout
<1>2. PICK c \in Chunks : c = Head(q).chunk
  BY <1>1, StdoutIs
<1> DEFINE b == Append(buf, c)
<1>3. /\ b \in Seq(Chunks)
      /\ \A i \in DOMAIN b : i \in Nat /\ (i \in DOMAIN buf \/ i = Len(buf) + 1)
      /\ \A i \in DOMAIN buf : b[i] = buf[i] /\ i < Len(buf) + 1
      /\ b[Len(buf) + 1] = c /\ Len(buf) \in Nat
  BY AppendAt
<1>4. InPrintOrder(sent, buf, Tail(q), n)
  BY OrderTail
<1>5. \A i \in Stdout(Tail(q)) : i \in Nat /\ i > 0 /\ i + 1 \in Stdout(q) /\ Tail(q)[i] = q[i + 1]
  BY StdoutTail
<1> HIDE DEF b
<1>6. ASSUME NEW i \in Stdout(Tail(q)) PROVE c.n < Tail(q)[i].chunk.n
  <2>1. 1 < i + 1
    BY <1>5
  <2>2. QED
    BY <1>1, <1>2, <1>5, <2>1 DEF InPrintOrder
<1>7. ASSUME NEW i \in DOMAIN b, NEW j \in DOMAIN b, i < j PROVE b[i].n < b[j].n
  <2>1. CASE j \in DOMAIN buf
    BY <1>3, <1>7, <2>1 DEF InPrintOrder
  <2>2. CASE j = Len(buf) + 1
    <3>1. i \in DOMAIN buf
      BY <1>3, <1>7, <2>2
    <3>2. QED
      BY <1>1, <1>2, <1>3, <2>2, <3>1 DEF InPrintOrder
  <2>3. QED
    BY <1>3, <2>1, <2>2
<1>8. ASSUME NEW j \in DOMAIN b
      PROVE /\ b[j].n <= n
            /\ \A i \in DOMAIN sent : sent[i] < b[j].n
            /\ \A i \in Stdout(Tail(q)) : b[j].n < Tail(q)[i].chunk.n
  <2>1. CASE j \in DOMAIN buf
    BY <1>3, <1>4, <2>1 DEF InPrintOrder
  <2>2. CASE j = Len(buf) + 1
    BY <1>1, <1>2, <1>3, <1>6, <2>2 DEF InPrintOrder
  <2>3. QED
    BY <1>3, <2>1, <2>2
<1>9. InPrintOrder(sent, b, Tail(q), n)
  BY <1>4, <1>7, <1>8 DEF InPrintOrder
<1>10. QED
  BY <1>2, <1>3, <1>9 DEF b

\* A buffer flushed to the chat, or dropped.
LEMMA OrderFlushed ==
  ASSUME NEW sent \in Seq(Nat), NEW buf \in Seq(Chunks), NEW q \in Seq(Messages), NEW n \in Nat,
         InPrintOrder(sent, buf, q, n)
  PROVE  /\ sent \o Numbers(buf) \in Seq(Nat)
         /\ InPrintOrder(sent \o Numbers(buf), << >>, q, n)
         /\ InPrintOrder(sent, << >>, q, n)
         /\ InPrintOrder(sent, << >>, << >>, n)
<1> DEFINE s == sent \o Numbers(buf)
<1>1. /\ s \in Seq(Nat)
      /\ \A i \in DOMAIN sent : i \in Nat /\ i <= Len(sent) /\ s[i] = sent[i]
      /\ \A i \in DOMAIN s : \/ i \in DOMAIN sent
                             \/ /\ i \in Nat /\ i > Len(sent) /\ i - Len(sent) \in DOMAIN buf
                                /\ s[i] = buf[i - Len(sent)].n
  BY NumbersAt, ConcatAt
<1>2. Len(sent) \in Nat
  OBVIOUS
<1> HIDE DEF s
<1>3. ASSUME NEW i \in DOMAIN s
      PROVE s[i] <= n /\ \A j \in Stdout(q) : s[i] < q[j].chunk.n
  BY <1>1 DEF InPrintOrder
<1>4. ASSUME NEW i \in DOMAIN s, NEW j \in DOMAIN s, i < j PROVE s[i] < s[j]
  <2>1. CASE j \in DOMAIN sent
    <3>1. i \in DOMAIN sent
      BY <1>1, <1>2, <1>4, <2>1
    <3>2. QED
      BY <1>1, <1>4, <2>1, <3>1 DEF InPrintOrder
  <2>2. CASE j \notin DOMAIN sent
    <3>1. /\ j \in Nat /\ j - Len(sent) \in DOMAIN buf /\ s[j] = buf[j - Len(sent)].n
      BY <1>1, <2>2
    <3>2. CASE i \in DOMAIN sent
      BY <1>1, <3>1, <3>2 DEF InPrintOrder
    <3>3. CASE i \notin DOMAIN sent
      <4>1. i \in Nat /\ i - Len(sent) \in DOMAIN buf /\ s[i] = buf[i - Len(sent)].n
        BY <1>1, <3>3
      <4>2. i - Len(sent) < j - Len(sent)
        BY <1>2, <1>4, <3>1, <4>1
      <4>3. QED
        BY <3>1, <4>1, <4>2 DEF InPrintOrder
    <3>4. QED
      BY <3>2, <3>3
  <2>3. QED
    BY <2>1, <2>2
<1>5. DOMAIN << >> = {} /\ Stdout(<< >>) = {}
  BY DEF Stdout
<1>6. InPrintOrder(s, << >>, q, n)
  BY <1>3, <1>4, <1>5 DEF InPrintOrder
<1>7. InPrintOrder(sent, << >>, q, n) /\ InPrintOrder(sent, << >>, << >>, n)
  BY <1>5 DEF InPrintOrder
<1>8. QED
  BY <1>1, <1>6, <1>7 DEF s

---------------------------------------------------------------------------
(* The announcement of the join *)

\* It stays where it is when another message is taken,
LEMMA AnnouncedTail ==
  ASSUME NEW q \in Seq(Messages), q # << >>, NEW at, Head(q).type # "cc_mcp_ready",
         AnnouncedIn(q, at)
  PROVE  /\ AnnouncedIn(Tail(q), at)
         /\ Head(q).type = "pty_stdout" => Head(q).chunk.n <= at
<1>1. PICK p \in DOMAIN q : /\ q[p].type = "cc_mcp_ready"
                            /\ \A i \in Stdout(q) : i < p => q[i].chunk.n <= at
  BY DEF AnnouncedIn
<1>2. Head(q) = q[1] /\ 1 \in DOMAIN q
  BY TailAt
<1>3. p # 1 /\ p \in Nat /\ p - 1 \in DOMAIN Tail(q) /\ Tail(q)[p - 1] = q[p]
  BY <1>1, <1>2, TailAt
<1>4. ASSUME NEW i \in Stdout(Tail(q)), i < p - 1 PROVE Tail(q)[i].chunk.n <= at
  <2>1. i \in Nat /\ i + 1 \in Stdout(q) /\ Tail(q)[i] = q[i + 1]
    BY StdoutTail
  <2>2. i + 1 < p
    BY <1>3, <1>4, <2>1
  <2>3. QED
    BY <1>1, <2>1, <2>2
<1>5. ASSUME Head(q).type = "pty_stdout" PROVE Head(q).chunk.n <= at
  <2>1. 1 \in Stdout(q) /\ 1 < p
    BY <1>2, <1>3, <1>5 DEF Stdout
  <2>2. QED
    BY <1>1, <1>2, <2>1
<1>6. QED
  BY <1>1, <1>3, <1>4, <1>5 DEF AnnouncedIn

\* and when one is sent;
LEMMA AnnouncedAppend ==
  ASSUME NEW q \in Seq(Messages), NEW e \in Messages, NEW at, AnnouncedIn(q, at)
  PROVE  AnnouncedIn(Append(q, e), at)
<1>1. PICK p \in DOMAIN q : /\ q[p].type = "cc_mcp_ready"
                            /\ \A i \in Stdout(q) : i < p => q[i].chunk.n <= at
  BY DEF AnnouncedIn
<1> DEFINE r == Append(q, e)
<1>2. p \in DOMAIN r /\ r[p] = q[p] /\ p \in Nat /\ p < Len(q) + 1 /\ Len(q) \in Nat
  BY AppendAt
<1>3. \A i \in Stdout(r) : (i \in Stdout(q) /\ r[i] = q[i]) \/ i = Len(q) + 1
  BY StdoutAppend
<1> HIDE DEF r
<1>4. ASSUME NEW i \in Stdout(r), i < p PROVE r[i].chunk.n <= at
  <2>1. i \in Stdout(q) /\ r[i] = q[i]
    BY <1>2, <1>3, <1>4
  <2>2. QED
    BY <1>1, <1>4, <2>1
<1>5. AnnouncedIn(r, at)
  BY <1>1, <1>2, <1>4 DEF AnnouncedIn
<1>6. QED
  BY <1>5 DEF r

\* and when it is sent, all output in the mailbox has been printed before.
LEMMA AnnouncedNow ==
  ASSUME NEW q \in Seq(Messages), NEW e \in Messages, e.type = "cc_mcp_ready", NEW at,
         \A i \in Stdout(q) : q[i].chunk.n <= at
  PROVE  AnnouncedIn(Append(q, e), at)
<1> DEFINE r == Append(q, e)
<1>1. Len(q) + 1 \in DOMAIN r /\ r[Len(q) + 1] = e
  BY AppendAt
<1>2. \A i \in Stdout(r) : i \in Stdout(q) /\ r[i] = q[i]
  BY StdoutAppend
<1> HIDE DEF r
<1>3. AnnouncedIn(r, at)
  BY <1>1, <1>2 DEF AnnouncedIn
<1>4. QED
  BY <1>3 DEF r

---------------------------------------------------------------------------
(* Mirroring in order *)

\* The part of TypeOK that the argument about the order needs.
MirrorTypes ==
  /\ BridgeTypes
  /\ pty_buffer \in Seq(Chunks)
  /\ mirrored \in Seq(Nat)

OrderInv == MirrorTypes /\ MirrorInv

\* A step that only takes or sends a message other than output and announcement.
LEMMA OrderUntouched ==
  ASSUME OrderInv, BridgeTypes', fcp' = fcp, UNCHANGED <<pty_buffer, mirrored, handed_at, boot_mode>>,
         InPrintOrder(mirrored, pty_buffer, mailbox', printed'),
         boot_mode /\ AnnouncedIn(mailbox, handed_at) => AnnouncedIn(mailbox', handed_at)
  PROVE  OrderInv'
<1>1. MirrorTypes'
  BY DEF OrderInv, MirrorTypes
<1>2. InPrintOrder(mirrored, pty_buffer, mailbox, printed)'
  BY DEF InPrintOrder, Stdout
<1>3. HandoffInv'
  <2>1. fcp = "up" /\ handed_at # NotJoined =>
          /\ \A i \in DOMAIN pty_buffer : pty_buffer[i].n <= handed_at
          /\ boot_mode => AnnouncedIn(mailbox', handed_at)
    BY DEF OrderInv, MirrorInv, HandoffInv
  <2>2. AnnouncedIn(mailbox', handed_at) => AnnouncedIn(mailbox, handed_at)'
    BY DEF AnnouncedIn, Stdout
  <2>3. QED
    BY <2>1, <2>2 DEF HandoffInv
<1>4. QED
  BY <1>1, <1>2, <1>3 DEF OrderInv, MirrorInv

\* A neighbour or a timer sends a message that is no output.
LEMMA OrderSent ==
  ASSUME OrderInv, BridgeTypes', fcp' = fcp,
         UNCHANGED <<pty_buffer, mirrored, handed_at, boot_mode, printed>>,
         NEW e \in Messages, e.type # "pty_stdout", NEW l, Send(e, l)
  PROVE  OrderInv'
<1>1. mailbox \in Seq(Messages) /\ InPrintOrder(mirrored, pty_buffer, mailbox, printed)
  BY DEF OrderInv, MirrorTypes, BridgeTypes, MirrorInv
<1>2. CASE mailbox' = mailbox
  BY <1>1, <1>2, OrderUntouched
<1>3. CASE mailbox' = Append(mailbox, e)
  <2>1. InPrintOrder(mirrored, pty_buffer, mailbox', printed')
    BY <1>1, <1>3, OrderAppend
  <2>2. AnnouncedIn(mailbox, handed_at) => AnnouncedIn(mailbox', handed_at)
    BY <1>1, <1>3, AnnouncedAppend
  <2>3. QED
    BY <2>1, <2>2, OrderUntouched
<1>4. QED
  BY <1>2, <1>3 DEF Send

\* FCP's own steps keep the order.
LEMMA FcpStepOrder ==
  ASSUME OrderInv, BridgeTypes', FcpStep
  PROVE  OrderInv'
<1>0. /\ mailbox \in Seq(Messages) /\ mirrored \in Seq(Nat) /\ pty_buffer \in Seq(Chunks)
      /\ printed \in Nat /\ InPrintOrder(mirrored, pty_buffer, mailbox, printed)
      /\ BridgeTypes /\ HandoffInv
  BY DEF OrderInv, MirrorTypes, BridgeTypes, MirrorInv
<1>1. CASE \/ HandleText \/ HandleMedia \/ HandleMediaRefused \/ HandleDirectiveAck
           \/ HandleMediaTimeout \/ HandleStdoutIgnored \/ HandlePtyClosed \/ HandleWinsize
           \/ HandleAttach
  <2>1. /\ fcp' = fcp /\ mailbox # << >> /\ mailbox' = Tail(mailbox)
        /\ Head(mailbox).type # "cc_mcp_ready"
        /\ UNCHANGED <<pty_buffer, mirrored, handed_at, boot_mode, printed>>
    BY <1>1 DEF HandleText, HandleMedia, HandleMediaRefused, HandleDirectiveAck, HandleMediaTimeout,
                HandleStdoutIgnored, HandlePtyClosed, HandleWinsize, HandleAttach, Receive, Consume
  <2>2. InPrintOrder(mirrored, pty_buffer, mailbox', printed')
    BY <1>0, <2>1, OrderTail
  <2>3. AnnouncedIn(mailbox, handed_at) => AnnouncedIn(mailbox', handed_at)
    BY <1>0, <2>1, AnnouncedTail
  <2>4. QED
    BY <2>1, <2>2, <2>3, OrderUntouched
<1>2. CASE HandleStdout
  <2>1. /\ fcp = "up" /\ fcp' = fcp /\ boot_mode /\ boot_mode' = boot_mode
        /\ mailbox # << >> /\ mailbox' = Tail(mailbox) /\ Head(mailbox).type = "pty_stdout"
        /\ pty_buffer' = Append(pty_buffer, Head(mailbox).chunk)
        /\ UNCHANGED <<mirrored, handed_at, printed>>
    BY <1>2 DEF HandleStdout, Receive, Consume, Msg, BridgeOn
  <2>2. InPrintOrder(mirrored, pty_buffer', mailbox', printed) /\ pty_buffer' \in Seq(Chunks)
    BY <1>0, <2>1, OrderBuffered
  <2>3. InPrintOrder(mirrored, pty_buffer, mailbox, printed)'
    BY <2>1, <2>2 DEF InPrintOrder, Stdout
  <2>4. ASSUME handed_at # NotJoined
        PROVE /\ \A i \in DOMAIN pty_buffer' : pty_buffer'[i].n <= handed_at
              /\ AnnouncedIn(mailbox', handed_at)
    <3>1. /\ \A i \in DOMAIN pty_buffer : pty_buffer[i].n <= handed_at
          /\ AnnouncedIn(mailbox, handed_at)
      BY <1>0, <2>1, <2>4 DEF HandoffInv
    <3>2. Head(mailbox).chunk.n <= handed_at /\ AnnouncedIn(mailbox', handed_at)
      BY <1>0, <2>1, <3>1, AnnouncedTail
    <3>3. Head(mailbox).chunk \in Chunks
      <4>1. 1 \in Stdout(mailbox) /\ Head(mailbox) = mailbox[1]
        BY <1>0, <2>1, TailAt DEF Stdout
      <4>2. QED
        BY <1>0, <4>1, StdoutIs
    <3>4. PICK c \in Chunks : c = Head(mailbox).chunk
      BY <3>3
    <3>5. \A i \in DOMAIN pty_buffer' : \/ i \in DOMAIN pty_buffer /\ pty_buffer'[i] = pty_buffer[i]
                                        \/ pty_buffer'[i] = c
      BY <1>0, <2>1, <3>4, AppendAt
    <3>6. QED
      BY <3>1, <3>2, <3>4, <3>5
  <2>5. HandoffInv'
    <3>1. AnnouncedIn(mailbox', handed_at) => AnnouncedIn(mailbox, handed_at)'
      BY <2>1 DEF AnnouncedIn, Stdout
    <3>2. QED
      BY <2>1, <2>4, <3>1 DEF HandoffInv
  <2>6. QED
    BY <1>0, <2>1, <2>2, <2>3, <2>5 DEF OrderInv, MirrorTypes, MirrorInv
<1>3. CASE HandleFlush
  <2>1. /\ fcp' = fcp /\ mailbox # << >> /\ mailbox' = Tail(mailbox)
        /\ Head(mailbox).type = "flush_pty_buffer" /\ pty_buffer' = << >>
        /\ UNCHANGED <<handed_at, boot_mode, printed>>
        /\ mirrored' = mirrored \/ mirrored' = mirrored \o Numbers(pty_buffer)
    BY <1>3 DEF HandleFlush, Receive, Consume
  <2>2. InPrintOrder(mirrored, pty_buffer, mailbox', printed) /\ mailbox' \in Seq(Messages)
    BY <1>0, <2>1, OrderTail, TailAt
  <2>3. InPrintOrder(mirrored', pty_buffer', mailbox', printed) /\ mirrored' \in Seq(Nat)
    BY <1>0, <2>1, <2>2, OrderFlushed
  <2>4. InPrintOrder(mirrored, pty_buffer, mailbox, printed)'
    BY <2>1, <2>3 DEF InPrintOrder, Stdout
  <2>5. HandoffInv'
    <3>1. AnnouncedIn(mailbox, handed_at) => AnnouncedIn(mailbox', handed_at)
      BY <1>0, <2>1, AnnouncedTail
    <3>2. AnnouncedIn(mailbox', handed_at) => AnnouncedIn(mailbox, handed_at)'
      BY <2>1 DEF AnnouncedIn, Stdout
    <3>3. QED
      BY <1>0, <2>1, <3>1, <3>2 DEF HandoffInv
  <2>6. pty_buffer' \in Seq(Chunks)
    BY <2>1
  <2>7. QED
    BY <2>3, <2>4, <2>5, <2>6 DEF OrderInv, MirrorTypes, MirrorInv
<1>4. CASE HandleReady
  <2>1. /\ fcp' = fcp /\ boot_mode' = FALSE /\ UNCHANGED <<pty_buffer, mirrored, handed_at, printed>>
    BY <1>4 DEF HandleReady
  <2>2. PICK f \in Messages : f = Signal("flush_pty_buffer")
    BY <1>0, <1>4, ReadyMailbox
  <2>3. PICK q \in Seq(Messages) : q = Tail(mailbox)
    BY <1>0, <1>4, ReadyMailbox
  <2>4. InPrintOrder(mirrored, pty_buffer, q, printed)
    BY <1>0, <1>4, <2>3, ReadyMailbox, OrderTail
  <2>5. InPrintOrder(mirrored, pty_buffer, Append(q, f), printed)
    <3>1. f.type # "pty_stdout"
      BY <2>2 DEF Signal
    <3>2. QED
      BY <2>4, <3>1, OrderAppend
  <2>6. mailbox' = q \/ mailbox' = Append(q, f)
    BY <1>0, <1>4, <2>2, <2>3, ReadyMailbox
  <2>7. InPrintOrder(mirrored, pty_buffer, mailbox', printed)
    BY <2>4, <2>5, <2>6
  <2>8. InPrintOrder(mirrored, pty_buffer, mailbox, printed)'
    BY <2>1, <2>7 DEF InPrintOrder, Stdout
  <2>9. HandoffInv'
    BY <1>0, <2>1 DEF HandoffInv
  <2>10. QED
    BY <1>0, <2>1, <2>8, <2>9 DEF OrderInv, MirrorTypes, MirrorInv
<1>5. QED
  BY <1>1, <1>2, <1>3, <1>4 DEF FcpStep

\* So does every other step.
LEMMA OrderStep ==
  ASSUME OrderInv, [Next]_vars
  PROVE  OrderInv'
<1>0. /\ mailbox \in Seq(Messages) /\ mirrored \in Seq(Nat) /\ pty_buffer \in Seq(Chunks)
      /\ printed \in Nat /\ InPrintOrder(mirrored, pty_buffer, mailbox, printed)
      /\ BridgeTypes /\ HandoffInv
  BY DEF OrderInv, MirrorTypes, BridgeTypes, MirrorInv
<1>1. BridgeTypes'
  BY <1>0, BridgeTypesStep
<1>2. CASE FcpStep
  BY <1>1, <1>2, FcpStepOrder
<1>3. ASSUME NEW t \in SignalTypes, NEW l, Send(Signal(t), l), fcp' = fcp,
             UNCHANGED <<pty_buffer, mirrored, handed_at, boot_mode, printed>>
      PROVE OrderInv'
  <2>1. PICK e \in Messages : e = Signal(t)
    BY MessagesTyped
  <2>2. e.type # "pty_stdout"
    BY <2>1 DEF Signal, SignalTypes
  <2>3. QED
    BY <1>1, <1>3, <2>1, <2>2, OrderSent
<1>4. CASE FlushTimerFires \/ WinsizeTimerFires \/ PtyExit \/ SocketInit
  BY <1>3, <1>4 DEF FlushTimerFires, WinsizeTimerFires, PtyExit, SocketInit, SignalTypes
<1>5. ASSUME NEW m \in Msgs, MediaTimerFires(m) PROVE OrderInv'
  <2>1. PICK e \in Messages : e = MediaTimeout(m)
    BY MessagesTyped
  <2>2. e.type # "pty_stdout"
    BY <2>1 DEF MediaTimeout
  <2>3. QED
    BY <1>1, <1>5, <2>1, <2>2, OrderSent DEF MediaTimerFires
<1>6. ASSUME NEW m \in Msgs, NEW ok \in BOOLEAN, AdapterAck(m, ok) PROVE OrderInv'
  <2>1. PICK e \in Messages : e = DirectiveAck(m, ok)
    BY MessagesTyped
  <2>2. e.type # "pty_stdout"
    BY <2>1 DEF DirectiveAck
  <2>3. QED
    BY <1>1, <1>6, <2>1, <2>2, OrderSent DEF AdapterAck
<1>7. ASSUME NEW m \in Msgs, DeliverInbound(m) PROVE OrderInv'
  <2>1. PICK e \in Messages : e = FeishuInbound(m)
    BY MessagesTyped
  <2>2. e.type # "pty_stdout" /\ Send(e, TRUE)
    BY <1>7, <2>1 DEF FeishuInbound, DeliverInbound, Send
  <2>3. QED
    BY <1>1, <1>7, <2>1, <2>2, OrderSent DEF DeliverInbound
<1>8. ASSUME NEW kind \in ChunkKinds, PtyPrints(kind) PROVE OrderInv'
  <2>1. PICK e \in Messages : e = PtyStdout([n |-> printed + 1, kind |-> kind])
    BY <1>0, MessagesTyped
  <2>2. /\ fcp' = fcp /\ printed' = printed + 1 /\ Send(e, subscribed)
        /\ UNCHANGED <<pty_buffer, mirrored, handed_at, boot_mode>>
    BY <1>8, <2>1 DEF PtyPrints
  <2>3. /\ InPrintOrder(mirrored, pty_buffer, mailbox, printed')
        /\ InPrintOrder(mirrored, pty_buffer, Append(mailbox, e), printed')
    BY <1>0, <2>1, <2>2, OrderPrinted
  <2>4. CASE mailbox' = mailbox
    BY <1>1, <2>2, <2>3, <2>4, OrderUntouched
  <2>5. CASE mailbox' = Append(mailbox, e)
    <3>1. AnnouncedIn(mailbox, handed_at) => AnnouncedIn(mailbox', handed_at)
      BY <1>0, <2>5, AnnouncedAppend
    <3>2. QED
      BY <1>1, <2>2, <2>3, <2>5, <3>1, OrderUntouched
  <2>6. QED
    BY <2>2, <2>4, <2>5 DEF Send
<1>9. CASE Join
  <2>1. /\ fcp' = fcp /\ Send(Signal("cc_mcp_ready"), TRUE)
        /\ handed_at' = IF fcp = "up" /\ handed_at = NotJoined THEN printed ELSE handed_at
        /\ UNCHANGED <<pty_buffer, mirrored, boot_mode, printed>>
    BY <1>9 DEF Join
  <2>2. CASE ~(fcp = "up" /\ handed_at = NotJoined)
    BY <1>3, <2>1, <2>2 DEF SignalTypes
  <2>3. CASE fcp = "up" /\ handed_at = NotJoined
    <3>1. PICK e \in Messages : e = Signal("cc_mcp_ready")
      BY MessagesTyped DEF SignalTypes
    <3>2. e.type = "cc_mcp_ready" /\ mailbox' = Append(mailbox, e) /\ handed_at' = printed
      BY <2>1, <2>3, <3>1 DEF Signal, Send
    <3>3. InPrintOrder(mirrored, pty_buffer, mailbox', printed)
      BY <1>0, <3>2, OrderAppend
    <3>4. InPrintOrder(mirrored, pty_buffer, mailbox, printed)'
      BY <2>1, <3>3 DEF InPrintOrder, Stdout
    <3>5. \A i \in Stdout(mailbox) : mailbox[i].chunk.n <= printed
      BY <1>0 DEF InPrintOrder
    <3>6. AnnouncedIn(mailbox', printed)
      BY <1>0, <3>2, <3>5, AnnouncedNow
    <3>7. AnnouncedIn(mailbox, handed_at)'
      BY <3>2, <3>6 DEF AnnouncedIn, Stdout
    <3>8. HandoffInv'
      BY <1>0, <2>1, <3>2, <3>7 DEF HandoffInv, InPrintOrder
    <3>9. QED
      BY <1>0, <1>1, <2>1, <3>4, <3>8 DEF OrderInv, MirrorTypes, MirrorInv
  <2>4. QED
    BY <2>2, <2>3
<1>10. CASE PtyStart \/ SocketResize \/ SocketInput \/ UNCHANGED vars
  <2>1. fcp' = fcp /\ mailbox' = mailbox
        /\ UNCHANGED <<pty_buffer, mirrored, handed_at, boot_mode, printed>>
    BY <1>10 DEF PtyStart, SocketResize, SocketInput
  <2>2. QED
    BY <1>0, <1>1, <2>1, OrderUntouched
<1>11. CASE FcpCrash
  <2>1. /\ fcp' = "down" /\ mailbox' = << >> /\ pty_buffer' = << >>
        /\ UNCHANGED <<mirrored, printed>>
    BY <1>11 DEF FcpCrash
  <2>2. InPrintOrder(mirrored, << >>, << >>, printed)
    BY <1>0, OrderFlushed
  <2>3. InPrintOrder(mirrored, pty_buffer, mailbox, printed)'
    BY <2>1, <2>2 DEF InPrintOrder, Stdout
  <2>4. pty_buffer' \in Seq(Chunks)
    BY <2>1
  <2>5. QED
    BY <1>0, <1>1, <2>1, <2>3, <2>4 DEF OrderInv, MirrorTypes, MirrorInv, HandoffInv
<1>12. CASE FcpRestart
  <2>1. handed_at' = NotJoined /\ UNCHANGED <<mailbox, pty_buffer, mirrored, printed>>
    BY <1>12 DEF FcpRestart
  <2>2. InPrintOrder(mirrored, pty_buffer, mailbox, printed)'
    BY <1>0, <2>1 DEF InPrintOrder, Stdout
  <2>3. QED
    BY <1>0, <1>1, <2>1, <2>2 DEF OrderInv, MirrorTypes, MirrorInv, HandoffInv
<1>13. QED
  BY <1>2, <1>4, <1>5, <1>6, <1>7, <1>8, <1>9, <1>10, <1>11, <1>12 DEF Next, TimerStep, EnvStep

\* What a flush adds to the chat comes after what is there, and from before the join
\* if this FCP was told of it.
LEMMA MirrorStep ==
  ASSUME OrderInv, OrderInv', [Next]_vars
  PROVE  \A i \in DOMAIN mirrored' \ DOMAIN mirrored :
           /\ \A j \in 1..(i - 1) : mirrored'[j] < mirrored'[i]
           /\ handed_at = NotJoined \/ mirrored'[i] <= handed_at
<1>0. /\ mirrored \in Seq(Nat) /\ mirrored' \in Seq(Nat) /\ pty_buffer \in Seq(Chunks)
      /\ HandoffInv /\ \A i, j \in DOMAIN mirrored' : i < j => mirrored'[i] < mirrored'[j]
  BY DEF OrderInv, MirrorTypes, MirrorInv, InPrintOrder
<1> SUFFICES ASSUME NEW i \in DOMAIN mirrored' \ DOMAIN mirrored
             PROVE /\ \A j \in 1..(i - 1) : mirrored'[j] < mirrored'[i]
                   /\ handed_at = NotJoined \/ mirrored'[i] <= handed_at
  OBVIOUS
<1>1. \A j \in 1..(i - 1) : mirrored'[j] < mirrored'[i]
  <2>1. \A j \in 1..(i - 1) : j \in DOMAIN mirrored' /\ j < i
    BY <1>0
  <2>2. QED
    BY <1>0, <2>1
<1>2. HandleFlush \/ mirrored' = mirrored
  BY DEF Next, FcpStep, TimerStep, EnvStep, HandleText, HandleMedia, HandleMediaRefused,
         HandleDirectiveAck, HandleMediaTimeout, HandleStdoutIgnored, HandleStdout, HandleReady,
         HandlePtyClosed, HandleWinsize, HandleAttach, FlushTimerFires, WinsizeTimerFires,
         MediaTimerFires, DeliverInbound, AdapterAck, PtyStart, PtyExit, Join, PtyPrints, SocketInit,
         SocketResize, SocketInput, FcpCrash, FcpRestart
<1>3. fcp = "up" /\ mirrored' = mirrored \o Numbers(pty_buffer)
  BY <1>2 DEF HandleFlush, Receive
<1>4. i - Len(mirrored) \in DOMAIN pty_buffer /\ mirrored'[i] = pty_buffer[i - Len(mirrored)].n
  BY <1>0, <1>3, NumbersAt, ConcatAt
<1>5. handed_at = NotJoined \/ mirrored'[i] <= handed_at
  BY <1>0, <1>3, <1>4 DEF HandoffInv
<1>6. QED
  BY <1>1, <1>5

\* The chat sees the terminal's output once, in the order printed, and none of what
\* is printed after a join FCP was told of.
THEOREM MirroredInOrderHolds == Spec => MirroredInOrder
<1>1. Init => OrderInv
  <2> SUFFICES ASSUME Init PROVE OrderInv
    OBVIOUS
  <2>1. MirrorTypes
    BY DEF Init, MirrorTypes, BridgeTypes
  <2>2. DOMAIN mailbox = {} /\ DOMAIN mirrored = {} /\ DOMAIN pty_buffer = {}
    BY DEF Init
  <2>3. MirrorInv
    BY <2>2 DEF Init, MirrorInv, InPrintOrder, Stdout, HandoffInv
  <2>4. QED
    BY <2>1, <2>3 DEF OrderInv
<1>2. OrderInv /\ [Next]_vars => OrderInv'
  BY OrderStep
<1>3. OrderInv /\ OrderInv' /\ [Next]_vars =>
        [\A i \in DOMAIN mirrored' \ DOMAIN mirrored :
           /\ \A j \in 1..(i - 1) : mirrored'[j] < mirrored'[i]
           /\ handed_at = NotJoined \/ mirrored'[i] <= handed_at]_vars
  BY MirrorStep
<1>4. QED
  BY <1>1, <1>2, <1>3, PTL DEF Spec, MirroredInOrder
=============================================================================
