------------------------------ MODULE Listeners ------------------------------
(***************************************************************************)
(* The listener of a Feishu account (im/feishu/ws.rs, bridge.rs): one task  *)
(* that reads a WebSocket, keeps it alive with pings, gives it up when it    *)
(* has been silent for too long, and connects again.  An event is answered   *)
(* as soon as it is read and then worked off within the loop, so a download  *)
(* keeps the timers and the socket waiting.                                  *)
(* Time is in ticks; Feishu and the network are external.  The pump behind   *)
(* the channel always has room here; Bridges has the case that it has not.   *)
(***************************************************************************)
EXTENDS Naturals, Sequences, FiniteSets

CONSTANTS
  Events,       \* what happens in the chats of the account
  KindOf,       \* and of which kind each is
  Periods,      \* ping intervals Feishu may ask for, longer than Silence too
  Silence,      \* HEARTBEAT_TIMEOUT, 300 s
  CheckPeriod,  \* of timeout_check, 10 s
  Pause,        \* before the next connection, 5 s
  MaxLatency,   \* bound: Feishu answers a ping in that time
  MaxDownload,  \* bound: an attachment takes no longer (the code has none)
  MaxBreak      \* bound: failed connections and attempts, frames that are garbled

NoEvent == "no event"

ASSUME ListenersAssumption ==
  /\ IsFiniteSet(Events) /\ NoEvent \notin Events
  /\ KindOf \in [Events -> {"message", "action"}]
  /\ Periods \subseteq Nat \ {0} /\ Periods # {}
  /\ {Silence, CheckPeriod, Pause, MaxLatency, MaxDownload, MaxBreak} \subseteq Nat
  /\ CheckPeriod > 0

VARIABLES
  reader,     \* listen_ws: pc, the event in hand, ticks left of what it waits for
  recv,       \* ticks since last_recv, no further than Silence + 1
  beat,       \* hb_interval: its period, ticks into it, whether a tick is due
  watch,      \* timeout_check: the same
  frames,       \* frames on their way to the listener
  peer,       \* Feishu's end: state, ticks since it fell silent, pong owed for
  acked,      \* events whose answer Feishu has
  handed,     \* events sent to the pump
  ignored,    \* events a rule of the listener drops
  breaks

listenerVars == <<reader, recv, beat, watch, frames, peer, acked, handed,
                  ignored, breaks>>

Off == [period |-> 0, at |-> 0, due |-> FALSE]
Every(period) == [Off EXCEPT !.period = period]
NoPong == MaxLatency + 1
Reading == [pc |-> "read", event |-> NoEvent, left |-> 0]
Sleeping == [pc |-> "sleep", event |-> NoEvent, left |-> Pause]
Pong(period) == [kind |-> "pong", period |-> period, event |-> NoEvent]
Garbled == [kind |-> "garbled", period |-> 0, event |-> NoEvent]
EventFrame(e) == [kind |-> "event", period |-> 0, event |-> e]

\* ticks that may pass since Feishu fell silent before it must be noticed
NoticedBy == Silence + CheckPeriod + (Cardinality(Events) + 1) * MaxDownload

ListenersInit ==
  /\ reader = [Sleeping EXCEPT !.left = 0] /\ recv = 0
  /\ beat = Off /\ watch = Off
  /\ frames = <<>> /\ peer = [state |-> "none", quiet |-> 0, owes |-> NoPong]
  /\ acked = {} /\ handed = {} /\ ignored = {}
  /\ breaks = 0

-----------------------------------------------------------------------------
\* Feishu and the network.

\* an event happens, or is sent again since its answer did not come
Arrive(e) ==
  /\ peer.state = "up" /\ e \notin acked
  /\ reader.event # e /\ \A i \in DOMAIN frames : frames[i].event # e
  /\ frames' = Append(frames, EventFrame(e))
  /\ UNCHANGED <<reader, recv, beat, watch, peer, acked, handed, ignored, breaks>>

SendPong ==
  /\ peer.state = "up" /\ peer.owes # NoPong
  /\ \E period \in Periods : frames' = Append(frames, Pong(period))
  /\ peer' = [peer EXCEPT !.owes = NoPong]
  /\ UNCHANGED <<reader, recv, beat, watch, acked, handed, ignored, breaks>>

\* a frame that PbFrame cannot decode
Garble ==
  /\ peer.state = "up" /\ breaks < MaxBreak /\ breaks' = breaks + 1
  /\ frames' = Append(frames, Garbled)
  /\ UNCHANGED <<reader, recv, beat, watch, peer, acked, handed, ignored>>

\* the network goes without a word, or Feishu closes the connection
FallSilent ==
  /\ peer.state = "up" /\ breaks < MaxBreak /\ breaks' = breaks + 1
  /\ \E state \in {"dead", "closed"} : peer' = [state |-> state, quiet |-> 0, owes |-> NoPong]
  /\ UNCHANGED <<reader, recv, beat, watch, frames, acked, handed, ignored>>

-----------------------------------------------------------------------------
\* The listener.

\* get_ws_endpoint, connect_async, the first ping; timeout_check ticks at once
Connect ==
  /\ reader.pc = "sleep" /\ reader.left = 0
  /\ reader' = Reading /\ recv' = 0
  /\ \E period \in Periods : beat' = Every(period)
  /\ watch' = [Every(CheckPeriod) EXCEPT !.due = TRUE]
  /\ frames' = <<>> /\ peer' = [state |-> "up", quiet |-> 0, owes |-> 0]
  /\ UNCHANGED <<acked, handed, ignored, breaks>>

ConnectFails ==
  /\ reader.pc = "sleep" /\ reader.left = 0
  /\ breaks < MaxBreak /\ breaks' = breaks + 1
  /\ reader' = Sleeping
  /\ UNCHANGED <<recv, beat, watch, frames, peer, acked, handed, ignored>>

\* listen_ws returns; the loop of the bridge waits and calls it again
HangUp ==
  /\ reader' = Sleeping /\ frames' = <<>> /\ recv' = 0 /\ beat' = Off /\ watch' = Off
  /\ peer' = [state |-> "none", quiet |-> 0, owes |-> NoPong]

\* tokio's interval: ticks missed in the meantime come at once; a dead peer
\* still takes what is written
SendPing ==
  /\ reader.pc = "read" /\ beat.due
  /\ beat' = [beat EXCEPT !.due = FALSE]
  /\ peer' = IF peer.state = "up" /\ peer.owes = NoPong THEN [peer EXCEPT !.owes = 0] ELSE peer
  /\ UNCHANGED <<reader, recv, watch, frames, acked, handed, ignored, breaks>>

CheckTimeout ==
  /\ reader.pc = "read" /\ watch.due
  /\ \/ recv > Silence /\ HangUp
     \/ /\ recv <= Silence /\ watch' = [watch EXCEPT !.due = FALSE]
        /\ UNCHANGED <<reader, frames, peer, recv, beat>>
  /\ UNCHANGED <<acked, handed, ignored, breaks>>

SeeEnd ==
  /\ reader.pc = "read" /\ peer.state = "closed" /\ frames = <<>>
  /\ HangUp
  /\ UNCHANGED <<acked, handed, ignored, breaks>>

ReadGarbled ==
  /\ reader.pc = "read" /\ frames # <<>> /\ Head(frames).kind = "garbled"
  /\ HangUp
  /\ UNCHANGED <<acked, handed, ignored, breaks>>

\* another interval starts anew, and its first tick is due at once
Renewed(period) == IF period = beat.period THEN beat ELSE [Every(period) EXCEPT !.due = TRUE]

\* seeded fault: last_recv is left alone
ReadPongOnly ==
  /\ reader.pc = "read" /\ frames # <<>> /\ Head(frames).kind = "pong"
  /\ frames' = Tail(frames) /\ beat' = Renewed(Head(frames).period)
  /\ UNCHANGED <<reader, recv, watch, peer, acked, handed, ignored, breaks>>

ReadPong ==
  /\ reader.pc = "read" /\ frames # <<>> /\ Head(frames).kind = "pong"
  /\ recv' = 0
  /\ frames' = Tail(frames) /\ beat' = Renewed(Head(frames).period)
  /\ UNCHANGED <<reader, watch, peer, acked, handed, ignored, breaks>>

\* answered first, whatever becomes of it
Acknowledge(e) ==
  /\ reader.pc = "read" /\ frames # <<>> /\ Head(frames).event = e
  /\ acked' = IF peer.state = "up" THEN acked \cup {e} ELSE acked

GoOn(e, pc, left) ==
  /\ reader' = [pc |-> pc, event |-> e, left |-> left]
  /\ frames' = Tail(frames) /\ recv' = 0
  /\ UNCHANGED <<peer, beat, watch>>

\* not an event at all, not a message, from a bot, or not on the allow lists
Drop(e) == ignored' = ignored \cup {e} /\ GoOn(NoEvent, "read", 0)

\* an event whose payload is not of its type ends the connection, answered
Spoil(e) == ignored' = ignored \cup {e} /\ HangUp

\* handle_event; a text has nothing to download
ReadMessage(e) ==
  /\ KindOf[e] = "message" /\ Acknowledge(e)
  /\ \/ Drop(e)
     \/ Spoil(e)
     \/ \E left \in 0..MaxDownload : GoOn(e, "download", left) /\ UNCHANGED ignored
  /\ UNCHANGED <<handed, breaks>>

\* handle_card_action_event; one without what it needs is as bad
ReadAction(e) ==
  /\ KindOf[e] = "action" /\ Acknowledge(e)
  /\ \/ Drop(e)
     \/ GoOn(e, "hand", 0) /\ UNCHANGED ignored
     \/ Spoil(e)
  /\ UNCHANGED <<handed, breaks>>

ReadEvent == \E e \in Events : ReadMessage(e) \/ ReadAction(e)

\* collect_attachments; an attachment that does not come is left out, and
\* without one and without a text there is nothing to say; whether a bot in a
\* group was spoken to is asked only now
Downloaded ==
  /\ reader.pc = "download" /\ reader.left = 0
  /\ \/ reader' = [reader EXCEPT !.pc = "hand"] /\ UNCHANGED ignored
     \/ reader' = Reading /\ ignored' = ignored \cup {reader.event}
  /\ UNCHANGED <<recv, beat, watch, frames, peer, acked, handed, breaks>>

HandEvent ==
  /\ reader.pc = "hand" /\ reader' = Reading
  /\ handed' = handed \cup {reader.event}
  /\ UNCHANGED <<recv, beat, watch, frames, peer, acked, ignored, breaks>>

ReaderStep ==
  \/ Connect \/ ConnectFails \/ SendPing \/ CheckTimeout \/ SeeEnd
  \/ ReadPong \/ ReadGarbled \/ ReadEvent \/ Downloaded \/ HandEvent

\* what is due is done before time passes
Waits ==
  \/ reader.pc \in {"sleep", "download"} /\ reader.left > 0
  \/ reader.pc = "read" /\ ~beat.due /\ ~watch.due /\ frames = <<>> /\ peer.state # "closed"

Onwards(timer) ==
  IF timer.at + 1 < timer.period THEN [timer EXCEPT !.at = @ + 1]
  ELSE [timer EXCEPT !.at = 0, !.due = TRUE]

TimePasses ==
  /\ Waits /\ (peer.owes # NoPong => peer.owes < MaxLatency)
  /\ reader' = [reader EXCEPT !.left = IF @ > 0 THEN @ - 1 ELSE 0]
  /\ recv' = IF recv > Silence THEN recv ELSE recv + 1
  /\ beat' = IF reader.pc = "sleep" THEN beat ELSE Onwards(beat)
  /\ watch' = IF reader.pc = "sleep" THEN watch ELSE Onwards(watch)
  /\ peer' = [peer EXCEPT !.quiet = IF peer.state \in {"dead", "closed"} /\ @ <= NoticedBy THEN @ + 1 ELSE @,
                          !.owes = IF @ = NoPong THEN @ ELSE @ + 1]
  /\ UNCHANGED <<frames, acked, handed, ignored, breaks>>

ListenersNext ==
  \/ \E e \in Events : Arrive(e)
  \/ SendPong \/ Garble \/ FallSilent
  \/ ReaderStep \/ TimePasses

ListenersSpec == ListenersInit /\ [][ListenersNext]_listenerVars

-----------------------------------------------------------------------------
\* Feishu's last word on the pings, and the longest attachment, leave a pong
\* the time to come before the timeout.
InTime == beat.period + MaxLatency <= Silence /\ MaxDownload + MaxLatency <= Silence

\* The listener gives up a connection that works only where those times are
\* not kept, and never keeps one that has gone silent longer than the timeout,
\* the next check and the attachments that were on their way.
SilenceIsTold ==
  /\ reader.pc = "read" /\ recv > Silence /\ peer.state = "up" => ~InTime
  /\ reader.pc # "sleep" => peer.quiet <= NoticedBy

\* An event Feishu was told of, which is not sent again, is in hand, handed
\* over or dropped by a rule: neither a timer nor the end of the connection
\* nor a later event takes it away.
AckedIsHandled == acked \subseteq handed \cup ignored \cup {reader.event}

\* Neither a silent connection nor an acknowledged event goes unnoticed.
NothingIsMissed == SilenceIsTold /\ AckedIsHandled
=============================================================================
