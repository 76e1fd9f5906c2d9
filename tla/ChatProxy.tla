-------------------------------- MODULE ChatProxy --------------------------------
(***************************************************************************)
(* Esr.Plugins.Feishu.FeishuChatProxy (FCP), the per-session process       *)
(* between a Feishu chat and the agent, with what it shares with its       *)
(* neighbours:                                                             *)
(*                                                                         *)
(*   Esr.Entity.PtyProcess   runs claude in a pseudo-terminal              *)
(*   EsrWeb.PtySocket        a browser attached to that terminal           *)
(*   EsrWeb.ChannelChannel   announces that the agent's channel is up      *)
(*   the Feishu adapter      downloads media and acks the directive        *)
(*                                                                         *)
(* Until the agent's channel joins, FCP mirrors the terminal's output into *)
(* the chat (the boot bridge), answers the development-channels dialog and *)
(* gives the terminal a default size; then it hands off.  Throughout, it   *)
(* forwards inbound text and, once downloaded, inbound media.  FCP is one  *)
(* GenServer; timers, PubSub messages, the terminal, the browser and the   *)
(* adapter interleave with it, and it may crash and be restarted.          *)
(*                                                                         *)
(* A chunk of terminal output is its number and a kind: the two halves of  *)
(* the dialog's text, other text, or escape codes that strip to nothing.   *)
(***************************************************************************)
EXTENDS Integers, Sequences, FiniteSets

CONSTANTS
  Msgs,          \* inbound chat messages
  KindOf,        \* [Msgs -> {"text", "media", "other"}], payload.args.msg_type
  FaaMayBeDown,  \* whether emit_to_feishu_app_proxy/2 may find no receiver
  MaxChunks,     \* bound: chunks of terminal output
  MaxAcks,       \* bound: acks an adapter sends for one directive
  MaxCrashes,    \* bound: crashes of FCP
  MaxExits,      \* bound: exits of claude
  MaxAttaches    \* bound: browser attachments

ASSUME KindAssumption == KindOf \in [Msgs -> {"text", "media", "other"}]
ASSUME FaaAssumption == FaaMayBeDown \in BOOLEAN
ASSUME BoundAssumption ==
  /\ MaxChunks \in Nat
  /\ MaxAcks \in Nat
  /\ MaxCrashes \in Nat
  /\ MaxExits \in Nat
  /\ MaxAttaches \in Nat

VARIABLES
  fcp,                    \* "up", or "down" until the supervisor restarts it
  mailbox,                \* FCP's mailbox
  boot_mode,              \* FCP's fields: the bridge is on,
  subscribed,             \*   FCP is subscribed to pty:<actor_id>,
  pty_buffer,             \*   output not flushed yet,
  pty_flush_timer,        \*   the reference is not nil,
  dev_channels_confirmed, \*   the dialog has been answered,
  winsize_pending_ref,    \*   the reference is not nil,
  pending_media,          \*   messages with a download under way
  ack_subs,               \* directive_ack topics FCP is subscribed to
  flush_armed,            \* the :flush_pty_buffer timer is running
  winsize_armed,          \* the :send_default_winsize timer is running
  media_armed,            \* running {:pending_media_timeout, id} timers
  pty,                    \* "up", or "down" until the supervisor restarts it
  dialog,                 \* how far claude is with its dialog
  viewport,               \* the terminal's size: nobody's, FCP's or the browser's
  socket,                 \* the browser's PtySocket
  joined_at,              \* chunks printed when the channel joined, or NotJoined
  wire,                   \* acks sent for each message's directive, or NotEmitted
  printed,                \* history: chunks printed
  mirrored,               \* history: numbers of the chunks in the texts sent to the chat
  notices,                \* history: agent-exit notices sent to the chat
  handed_at,              \* history: joined_at as announced to this FCP
  owed,                   \* history: visible chunks this FCP got before that
  fate,                   \* history: what became of each inbound message
  ends,                   \* history: how often it was settled
  crashes, exits, attaches   \* counters for the bounds

bridgeVars == <<boot_mode, subscribed, pty_buffer, pty_flush_timer,
                dev_channels_confirmed, flush_armed>>
winsizeVars == <<winsize_pending_ref, winsize_armed>>
mediaVars == <<pending_media, ack_subs, media_armed, wire, fate, ends>>
ptyVars == <<pty, dialog, viewport, socket, joined_at, printed>>
histVars == <<mirrored, notices, handed_at, owed>>
boundVars == <<crashes, exits, attaches>>
vars == <<fcp, mailbox, bridgeVars, winsizeVars, mediaVars, ptyVars, histVars, boundVars>>

---------------------------------------------------------------------------
(* Types. *)

NotJoined == -1
NotEmitted == -1
ChunkKinds == {"loading", "local", "text", "blank"}
Chunks == [n: Nat, kind: ChunkKinds]

FeishuInbound(m) == [type |-> "feishu_inbound", msg |-> m]
PtyStdout(c) == [type |-> "pty_stdout", chunk |-> c]
DirectiveAck(m, ok) == [type |-> "directive_ack", msg |-> m, ok |-> ok]
MediaTimeout(m) == [type |-> "pending_media_timeout", msg |-> m]
Signal(t) == [type |-> t]
SignalTypes == {"flush_pty_buffer", "send_default_winsize", "cc_mcp_ready",
                "pty_attach", "pty_closed"}
Messages ==
  [type: {"feishu_inbound", "pending_media_timeout"}, msg: Msgs]
    \cup [type: {"directive_ack"}, msg: Msgs, ok: BOOLEAN]
    \cup [type: {"pty_stdout"}, chunk: Chunks]
    \cup [type: SignalTypes]

Settled == {"forwarded", "no_cc", "failed", "timeout", "unsupported", "undeliverable"}
Fates == {"unsent", "queued", "downloading", "lost"} \cup Settled

Elems(s) == {s[i] : i \in DOMAIN s}

TypeOK ==
  /\ fcp \in {"up", "down"}
  /\ mailbox \in Seq(Messages)
  /\ boot_mode \in BOOLEAN
  /\ subscribed \in BOOLEAN
  /\ pty_buffer \in Seq(Chunks)
  /\ pty_flush_timer \in BOOLEAN
  /\ dev_channels_confirmed \in BOOLEAN
  /\ winsize_pending_ref \in BOOLEAN
  /\ pending_media \in SUBSET Msgs
  /\ ack_subs \in SUBSET Msgs
  /\ flush_armed \in BOOLEAN
  /\ winsize_armed \in BOOLEAN
  /\ media_armed \in SUBSET Msgs
  /\ pty \in {"up", "down"}
  /\ dialog \in {"none", "half", "shown", "answered"}
  /\ viewport \in {"unset", "default", "browser"}
  /\ socket \in {"none", "attached"}
  /\ joined_at \in Nat \cup {NotJoined}
  /\ wire \in [Msgs -> Nat \cup {NotEmitted}]
  /\ printed \in Nat
  /\ mirrored \in Seq(Nat)
  /\ notices \in Nat
  /\ handed_at \in Nat \cup {NotJoined}
  /\ owed \in SUBSET Nat
  /\ fate \in [Msgs -> Fates]
  /\ ends \in [Msgs -> Nat]
  /\ crashes \in Nat
  /\ exits \in Nat
  /\ attaches \in Nat

---------------------------------------------------------------------------
(* The session's pipeline starts FCP before the terminal. *)

Init ==
  /\ fcp = "up"
  /\ mailbox = << >>
  /\ boot_mode = TRUE
  /\ subscribed = TRUE
  /\ pty_buffer = << >>
  /\ pty_flush_timer = FALSE
  /\ dev_channels_confirmed = FALSE
  /\ winsize_pending_ref = TRUE
  /\ pending_media = {}
  /\ ack_subs = {}
  /\ flush_armed = FALSE
  /\ winsize_armed = TRUE
  /\ media_armed = {}
  /\ pty = "down"
  /\ dialog = "none"
  /\ viewport = "unset"
  /\ socket = "none"
  /\ joined_at = NotJoined
  /\ wire = [m \in Msgs |-> NotEmitted]
  /\ printed = 0
  /\ mirrored = << >>
  /\ notices = 0
  /\ handed_at = NotJoined
  /\ owed = {}
  /\ fate = [m \in Msgs |-> "unsent"]
  /\ ends = [m \in Msgs |-> 0]
  /\ crashes = 0
  /\ exits = 0
  /\ attaches = 0

\* FCP takes the message at the head of its mailbox.
Receive(type) ==
  /\ fcp = "up"
  /\ mailbox # << >>
  /\ Head(mailbox).type = type
Msg == Head(mailbox)
Consume == mailbox' = Tail(mailbox)

\* A PubSub broadcast or a direct send, to a process that may be down.
Send(msg, listening) ==
  mailbox' = IF fcp = "up" /\ listening THEN Append(mailbox, msg) ELSE mailbox

\* emit_to_feishu_app_proxy/2: the app proxy, or the app adapter, or nobody.
EmitResults == IF FaaMayBeDown THEN {"ok", "drop"} ELSE {"ok"}

---------------------------------------------------------------------------
(* Inbound messages: handle_upstream/2. *)

Settle(m, how) ==
  /\ fate' = [fate EXCEPT ![m] = how]
  /\ ends' = [ends EXCEPT ![m] = @ + 1]

DeliverInbound(m) ==
  /\ fate[m] = "unsent"
  /\ fcp = "up"
  /\ mailbox' = Append(mailbox, FeishuInbound(m))
  /\ fate' = [fate EXCEPT ![m] = "queued"]
  /\ UNCHANGED <<fcp, bridgeVars, winsizeVars, pending_media, ack_subs, media_armed,
                 wire, ends, ptyVars, histVars, boundVars>>

\* Text goes to the session's first cc_process, if it has one; a message of an
\* unknown type is dropped.
HandleText ==
  /\ Receive("feishu_inbound")
  /\ KindOf[Msg.msg] # "media"
  /\ Consume
  /\ \E how \in IF KindOf[Msg.msg] = "text" THEN {"forwarded", "no_cc"} ELSE {"unsupported"} :
       Settle(Msg.msg, how)
  /\ UNCHANGED <<fcp, bridgeVars, winsizeVars, pending_media, ack_subs, media_armed,
                 wire, ptyVars, histVars, boundVars>>

\* Mutant: the download has no deadline.
NoMediaDeadline(m) == {}
MediaDeadline(m) == {m}

\* do_handle_non_text_inbound/5 with the agent supporting the kind: subscribe to
\* the ack, emit the directive, arm the timeout, remember the message.
HandleMedia ==
  /\ Receive("feishu_inbound")
  /\ KindOf[Msg.msg] = "media"
  /\ Consume
  /\ "ok" \in EmitResults
  /\ ack_subs' = ack_subs \cup {Msg.msg}
  /\ media_armed' = media_armed \cup MediaDeadline(Msg.msg)
  /\ pending_media' = pending_media \cup {Msg.msg}
  /\ wire' = [wire EXCEPT ![Msg.msg] = 0]
  /\ fate' = [fate EXCEPT ![Msg.msg] = "downloading"]
  /\ UNCHANGED <<fcp, bridgeVars, winsizeVars, ends, ptyVars, histVars, boundVars>>

\* The agent does not support the kind, or the directive reaches nobody and the
\* subscription is given back.
HandleMediaRefused ==
  /\ Receive("feishu_inbound")
  /\ KindOf[Msg.msg] = "media"
  /\ Consume
  /\ \E how \in {"unsupported"} \cup IF "drop" \in EmitResults THEN {"undeliverable"} ELSE {} :
       Settle(Msg.msg, how)
  /\ UNCHANGED <<fcp, bridgeVars, winsizeVars, pending_media, ack_subs, media_armed,
                 wire, ptyVars, histVars, boundVars>>

\* The adapter answers a directive, successfully or not; it may answer twice.
AdapterAck(m, ok) ==
  /\ wire[m] # NotEmitted
  /\ wire[m] < MaxAcks
  /\ wire' = [wire EXCEPT ![m] = @ + 1]
  /\ Send(DirectiveAck(m, ok), m \in ack_subs)
  /\ UNCHANGED <<fcp, bridgeVars, winsizeVars, pending_media, ack_subs, media_armed,
                 fate, ends, ptyVars, histVars, boundVars>>

MediaTimerFires(m) ==
  /\ m \in media_armed
  /\ media_armed' = media_armed \ {m}
  /\ Send(MediaTimeout(m), TRUE)
  /\ UNCHANGED <<fcp, bridgeVars, winsizeVars, pending_media, ack_subs, wire, fate, ends,
                 ptyVars, histVars, boundVars>>

\* Mutant: the subscription is kept.
UnsubscribeForgotten(m) == ack_subs
UnsubscribeAck(m) == ack_subs \ {m}

\* Mutant: the message is settled whether or not it is still pending.
FinishUnchecked(m, how) ==
  /\ pending_media' = pending_media \ {m}
  /\ ack_subs' = UnsubscribeAck(m)
  /\ Settle(m, how)

\* The ack or the timeout of a pending download; of any other it changes nothing.
Finish(m, how) ==
  IF m \in pending_media
    THEN /\ pending_media' = pending_media \ {m}
         /\ ack_subs' = UnsubscribeAck(m)
         /\ Settle(m, how)
    ELSE UNCHANGED <<pending_media, ack_subs, fate, ends>>

HandleDirectiveAck ==
  /\ Receive("directive_ack")
  /\ Consume
  /\ \E how \in IF Msg.ok THEN {"forwarded", "no_cc"} ELSE {"failed"} : Finish(Msg.msg, how)
  /\ UNCHANGED <<fcp, bridgeVars, winsizeVars, media_armed, wire, ptyVars, histVars, boundVars>>

HandleMediaTimeout ==
  /\ Receive("pending_media_timeout")
  /\ Consume
  /\ Finish(Msg.msg, "timeout")
  /\ UNCHANGED <<fcp, bridgeVars, winsizeVars, media_armed, wire, ptyVars, histVars, boundVars>>

---------------------------------------------------------------------------
(* The boot bridge. *)

\* maybe_confirm_dev_channels/1 looks for both halves of the text.
ShowsDialog(buf) ==
  /\ \E c \in Elems(buf) : c.kind = "loading"
  /\ \E c \in Elems(buf) : c.kind = "local"

\* PtyProcess.write(actor_id, "1\r"), which does nothing without a terminal.
AnswerDialog == dialog' = IF dialog = "shown" THEN "answered" ELSE dialog

\* Mutant: output counts whatever the mode.
BridgeAlwaysOn == TRUE
BridgeOn == boot_mode

HandleStdoutIgnored ==
  /\ Receive("pty_stdout")
  /\ ~BridgeOn
  /\ Consume
  /\ UNCHANGED <<fcp, bridgeVars, winsizeVars, mediaVars, ptyVars, histVars, boundVars>>

HandleStdout ==
  /\ Receive("pty_stdout")
  /\ BridgeOn
  /\ Consume
  /\ pty_buffer' = Append(pty_buffer, Msg.chunk)
  /\ pty_flush_timer' = TRUE
  /\ flush_armed' = (flush_armed \/ ~pty_flush_timer)
  /\ IF ~dev_channels_confirmed /\ ShowsDialog(pty_buffer')
       THEN dev_channels_confirmed' = TRUE /\ AnswerDialog
       ELSE UNCHANGED <<dev_channels_confirmed, dialog>>
  /\ UNCHANGED <<fcp, boot_mode, subscribed, winsizeVars, mediaVars, pty, viewport, socket,
                 joined_at, printed, histVars, boundVars>>

FlushTimerFires ==
  /\ flush_armed
  /\ flush_armed' = FALSE
  /\ Send(Signal("flush_pty_buffer"), TRUE)
  /\ UNCHANGED <<fcp, boot_mode, subscribed, pty_buffer, pty_flush_timer,
                 dev_channels_confirmed, winsizeVars, mediaVars, ptyVars, histVars, boundVars>>

\* Esr.AnsiStrip.strip/1 and String.trim/1 of the whole buffer leave some text.
Visible(buf) == \E c \in Elems(buf) : c.kind # "blank"
Numbers(buf) == [i \in DOMAIN buf |-> buf[i].n]

\* Mutant: the timer's reference is not reset.
RefKept == pty_flush_timer
RefAfterFlush == FALSE

HandleFlush ==
  /\ Receive("flush_pty_buffer")
  /\ Consume
  /\ \E emit \in EmitResults :
       mirrored' = IF emit = "ok" /\ Visible(pty_buffer) THEN mirrored \o Numbers(pty_buffer)
                                                        ELSE mirrored
  /\ pty_buffer' = << >>
  /\ pty_flush_timer' = RefAfterFlush
  /\ UNCHANGED <<fcp, boot_mode, subscribed, dev_channels_confirmed, flush_armed, winsizeVars,
                 mediaVars, ptyVars, notices, handed_at, owed, boundVars>>

\* Mutant: the timer is cancelled and nothing is flushed.
NoFinalFlush == << >>
FinalFlush == IF pty_flush_timer THEN <<Signal("flush_pty_buffer")>> ELSE << >>

\* The hand-off: cancel the flush timer, flush once more through the mailbox,
\* leave the terminal's topic.
HandleReady ==
  /\ Receive("cc_mcp_ready")
  /\ mailbox' = Tail(mailbox) \o FinalFlush
  /\ flush_armed' = (flush_armed /\ ~pty_flush_timer)
  /\ pty_flush_timer' = FALSE
  /\ subscribed' = FALSE
  /\ boot_mode' = FALSE
  /\ UNCHANGED <<fcp, pty_buffer, dev_channels_confirmed, winsizeVars, mediaVars, ptyVars,
                 histVars, boundVars>>

HandlePtyClosed ==
  /\ Receive("pty_closed")
  /\ Consume
  /\ \E emit \in EmitResults : notices' = IF emit = "ok" THEN notices + 1 ELSE notices
  /\ UNCHANGED <<fcp, bridgeVars, winsizeVars, mediaVars, ptyVars, mirrored, handed_at, owed,
                 boundVars>>

---------------------------------------------------------------------------
(* The default terminal size. *)

WinsizeTimerFires ==
  /\ winsize_armed
  /\ winsize_armed' = FALSE
  /\ Send(Signal("send_default_winsize"), TRUE)
  /\ UNCHANGED <<fcp, bridgeVars, winsize_pending_ref, mediaVars, ptyVars, histVars, boundVars>>

DefaultSize == "default"

\* The reference is cleared but not looked at.
HandleWinsize ==
  /\ Receive("send_default_winsize")
  /\ Consume
  /\ winsize_pending_ref' = FALSE
  /\ viewport' = IF boot_mode /\ pty = "up" THEN DefaultSize ELSE viewport
  /\ UNCHANGED <<fcp, bridgeVars, winsize_armed, mediaVars, pty, dialog, socket, joined_at,
                 printed, histVars, boundVars>>

HandleAttach ==
  /\ Receive("pty_attach")
  /\ Consume
  /\ winsize_pending_ref' = FALSE
  /\ winsize_armed' = (winsize_armed /\ ~winsize_pending_ref)
  /\ UNCHANGED <<fcp, bridgeVars, mediaVars, ptyVars, histVars, boundVars>>

---------------------------------------------------------------------------
(* The terminal, the browser and the agent's channel. *)

PtyStart ==
  /\ pty = "down"
  /\ pty' = "up"
  /\ UNCHANGED <<fcp, mailbox, bridgeVars, winsizeVars, mediaVars, dialog, viewport, socket,
                 joined_at, printed, histVars, boundVars>>

\* Claude draws the dialog in one or several chunks, may redraw it while it waits
\* for an answer, and prints other things at any time.
DialogAfter(kind) ==
  CASE kind = "loading" /\ dialog = "none" -> "half"
    [] kind = "local" /\ dialog = "half" -> "shown"
    [] OTHER -> dialog

\* on_raw_stdout/2
PtyPrints(kind) ==
  /\ pty = "up"
  /\ printed < MaxChunks
  /\ kind = "loading" => dialog \in {"none", "shown"} /\ joined_at = NotJoined
  /\ kind = "local" => dialog \in {"half", "shown"}
  /\ printed' = printed + 1
  /\ dialog' = DialogAfter(kind)
  /\ Send(PtyStdout([n |-> printed + 1, kind |-> kind]), subscribed)
  /\ owed' = IF fcp = "up" /\ subscribed /\ handed_at = NotJoined /\ kind # "blank"
               THEN owed \cup {printed + 1} ELSE owed
  /\ UNCHANGED <<fcp, bridgeVars, winsizeVars, mediaVars, pty, viewport, socket, joined_at,
                 mirrored, notices, handed_at, boundVars>>

\* on_os_exit/2 stops the process and on_terminate/1 broadcasts; PtySocket
\* closes; the agent's channel goes with claude.
PtyExit ==
  /\ pty = "up"
  /\ exits < MaxExits
  /\ exits' = exits + 1
  /\ pty' = "down"
  /\ dialog' = "none"
  /\ viewport' = "unset"
  /\ socket' = "none"
  /\ joined_at' = NotJoined
  /\ Send(Signal("pty_closed"), subscribed)
  /\ UNCHANGED <<fcp, bridgeVars, winsizeVars, mediaVars, printed, histVars, crashes, attaches>>

\* EsrWeb.ChannelChannel.do_join/2 broadcasts cc_mcp_ready.  Claude starts its
\* MCP servers when no dialog is in the way.
Join ==
  /\ pty = "up"
  /\ joined_at = NotJoined
  /\ dialog \in {"none", "answered"}
  /\ joined_at' = printed
  /\ handed_at' = IF fcp = "up" /\ handed_at = NotJoined THEN printed ELSE handed_at
  /\ Send(Signal("cc_mcp_ready"), TRUE)
  /\ UNCHANGED <<fcp, bridgeVars, winsizeVars, mediaVars, pty, dialog, viewport, socket, printed,
                 mirrored, notices, owed, boundVars>>

\* PtySocket.init/1 announces itself; the browser then sends its size and the
\* operator's keys.
SocketInit ==
  /\ socket = "none"
  /\ pty = "up"
  /\ attaches < MaxAttaches
  /\ attaches' = attaches + 1
  /\ socket' = "attached"
  /\ Send(Signal("pty_attach"), TRUE)
  /\ UNCHANGED <<fcp, bridgeVars, winsizeVars, mediaVars, pty, dialog, viewport, joined_at,
                 printed, histVars, crashes, exits>>

SocketResize ==
  /\ socket = "attached"
  /\ pty = "up"
  /\ viewport' = "browser"
  /\ UNCHANGED <<fcp, mailbox, bridgeVars, winsizeVars, mediaVars, pty, dialog, socket,
                 joined_at, printed, histVars, boundVars>>

SocketInput ==
  /\ socket = "attached"
  /\ AnswerDialog
  /\ UNCHANGED <<fcp, mailbox, bridgeVars, winsizeVars, mediaVars, pty, viewport, socket,
                 joined_at, printed, histVars, boundVars>>

---------------------------------------------------------------------------
(* FCP dies with its mailbox, subscriptions and timers; its supervisor runs *)
(* init/1 again.                                                            *)

FcpCrash ==
  /\ fcp = "up"
  /\ crashes < MaxCrashes
  /\ crashes' = crashes + 1
  /\ fcp' = "down"
  /\ mailbox' = << >>
  /\ subscribed' = FALSE
  /\ pty_buffer' = << >>
  /\ pty_flush_timer' = FALSE
  /\ flush_armed' = FALSE
  /\ winsize_pending_ref' = FALSE
  /\ winsize_armed' = FALSE
  /\ pending_media' = {}
  /\ ack_subs' = {}
  /\ media_armed' = {}
  /\ owed' = {}
  /\ fate' = [m \in Msgs |-> IF fate[m] \in {"queued", "downloading"} THEN "lost" ELSE fate[m]]
  /\ UNCHANGED <<boot_mode, dev_channels_confirmed, wire, ends, ptyVars, mirrored, notices,
                 handed_at, exits, attaches>>

FcpRestart ==
  /\ fcp = "down"
  /\ fcp' = "up"
  /\ boot_mode' = TRUE
  /\ subscribed' = TRUE
  /\ dev_channels_confirmed' = FALSE
  /\ winsize_pending_ref' = TRUE
  /\ winsize_armed' = TRUE
  /\ handed_at' = NotJoined
  /\ UNCHANGED <<mailbox, pty_buffer, pty_flush_timer, flush_armed, mediaVars, ptyVars, mirrored,
                 notices, owed, boundVars>>

---------------------------------------------------------------------------
FcpStep ==
  \/ HandleText \/ HandleMedia \/ HandleMediaRefused
  \/ HandleDirectiveAck \/ HandleMediaTimeout
  \/ HandleStdoutIgnored \/ HandleStdout \/ HandleFlush \/ HandleReady \/ HandlePtyClosed
  \/ HandleWinsize \/ HandleAttach

TimerStep ==
  \/ FlushTimerFires \/ WinsizeTimerFires
  \/ \E m \in Msgs : MediaTimerFires(m)

EnvStep ==
  \/ \E m \in Msgs : DeliverInbound(m) \/ \E ok \in BOOLEAN : AdapterAck(m, ok)
  \/ PtyStart \/ PtyExit \/ Join
  \/ \E kind \in ChunkKinds : PtyPrints(kind)
  \/ SocketInit \/ SocketResize \/ SocketInput

Next == FcpStep \/ TimerStep \/ EnvStep \/ FcpCrash \/ FcpRestart

Spec == Init /\ [][Next]_vars

\* A live GenServer handles its messages, timers fire, supervisors restart.
\* Nothing is asked of claude, the browser or the adapter.
FairSpec ==
  /\ Spec
  /\ WF_vars(FcpStep)
  /\ WF_vars(FlushTimerFires)
  /\ WF_vars(WinsizeTimerFires)
  /\ \A m \in Msgs : WF_vars(MediaTimerFires(m))
  /\ WF_vars(FcpRestart)
  /\ WF_vars(PtyStart)

---------------------------------------------------------------------------
(* Properties. *)

FlushQueued == Signal("flush_pty_buffer") \in Elems(mailbox)

\* Buffered output always has a flush coming: whatever the order of output, timer
\* and hand-off, a non-empty buffer never waits for an event that may not happen.
FlushComing == pty_buffer # << >> => flush_armed \/ FlushQueued

\* The inductive form: the reference is set only while its flush is to come, and
\* a process that is down has nothing.
BridgeInv ==
  /\ pty_flush_timer => flush_armed \/ FlushQueued
  /\ pty_buffer # << >> => pty_flush_timer \/ FlushQueued
  /\ fcp = "down" => /\ mailbox = << >> /\ pty_buffer = << >>
                     /\ ~pty_flush_timer /\ ~flush_armed /\ ~subscribed

\* The chat sees each chunk of output at most once and in the order printed,
\* through flushes, hand-off and restarts; and nothing claude prints once its
\* channel has joined reaches the chat through an FCP that was told of it.
MirroredInOrder ==
  [][\A i \in DOMAIN mirrored' \ DOMAIN mirrored :
       /\ \A j \in 1..(i - 1) : mirrored'[j] < mirrored'[i]
       /\ handed_at = NotJoined \/ mirrored'[i] <= handed_at]_vars

\* What it rests on: chunks stand in the order printed, the mailbox behind the
\* buffer and the buffer behind the chat; an FCP that has been told of the join and
\* still mirrors has the announcement in its mailbox, behind nothing printed later.
Stdout(box) == {i \in DOMAIN box : box[i].type = "pty_stdout"}

InPrintOrder(sent, buf, box, n) ==
  /\ \A i, j \in DOMAIN sent : i < j => sent[i] < sent[j]
  /\ \A i, j \in DOMAIN buf : i < j => buf[i].n < buf[j].n
  /\ \A i, j \in Stdout(box) : i < j => box[i].chunk.n < box[j].chunk.n
  /\ \A i \in DOMAIN sent : sent[i] <= n /\ \A j \in DOMAIN buf : sent[i] < buf[j].n
  /\ \A i \in DOMAIN sent, j \in Stdout(box) : sent[i] < box[j].chunk.n
  /\ \A i \in DOMAIN buf : buf[i].n <= n /\ \A j \in Stdout(box) : buf[i].n < box[j].chunk.n
  /\ \A i \in Stdout(box) : box[i].chunk.n <= n

AnnouncedIn(box, at) ==
  \E p \in DOMAIN box :
    /\ box[p].type = "cc_mcp_ready"
    /\ \A i \in Stdout(box) : i < p => box[i].chunk.n <= at

HandoffInv ==
  fcp = "up" /\ handed_at # NotJoined =>
    /\ \A i \in DOMAIN pty_buffer : pty_buffer[i].n <= handed_at
    /\ boot_mode => AnnouncedIn(mailbox, handed_at)

MirrorInv ==
  /\ InPrintOrder(mirrored, pty_buffer, mailbox, printed)
  /\ HandoffInv

\* Everything visible that was printed to this FCP before the join is mirrored in
\* the end, the final flush included.
OutputMirrored ==
  \A n \in 1..MaxChunks : n \in owed ~> (n \in Elems(mirrored) \/ n \notin owed)

\* An inbound message comes to one end only, although the adapter may ack twice and
\* the timeout is never cancelled: media is not forwarded to the agent twice, nor
\* after it has been given up.
SettledOnce == \A m \in Msgs : ends[m] <= 1

\* A download under way is subscribed to its ack and has a timeout to come, and
\* no subscription outlives its download.
MediaTracked ==
  /\ ack_subs = pending_media
  /\ \A m \in pending_media : m \in media_armed \/ MediaTimeout(m) \in Elems(mailbox)

\* What the two rest on: a message that has not been taken from the mailbox is there
\* once, and one with a download under way has come to no end.
MediaInv ==
  /\ MediaTracked
  /\ fcp = "down" => mailbox = << >> /\ pending_media = {} /\ media_armed = {}

QueuedOnce(box, f) ==
  /\ \A i \in DOMAIN box : box[i].type = "feishu_inbound" => f[box[i].msg] = "queued"
  /\ \A i, j \in DOMAIN box : box[i].type = "feishu_inbound" /\ box[j] = box[i] => i = j

FateInv ==
  /\ \A m \in Msgs : ends[m] = IF fate[m] \in Settled THEN 1 ELSE 0
  /\ \A m \in pending_media : fate[m] = "downloading"
  /\ QueuedOnce(mailbox, fate)

\* Every inbound message is settled, whatever the adapter does, unless FCP crashes.
InboundSettles ==
  \A m \in Msgs : (fate[m] \in {"queued", "downloading"}) ~> (fate[m] \in Settled \cup {"lost"})

\* Stated above the :pty_closed clause: FCP notifies the chat that the agent died.
AgentExitNotified == \A k \in 1..MaxExits : (exits >= k) ~> (notices >= k)
=============================================================================
