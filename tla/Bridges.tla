------------------------------- MODULE Bridges -------------------------------
(***************************************************************************)
(* Start, stop and restart of the IM bridge (web/im_api.rs, bridge.rs) and *)
(* what goes through it: messages a platform keeps for its listener        *)
(* (telegram/polling.rs, wechat/polling.rs) and notices of Codex that the  *)
(* event router takes from a broadcast channel.                            *)
(*                                                                         *)
(* Calls of the HTTP API interleave.  An aborted task runs on until it     *)
(* gives way; what tells an old bridge from a new one is the generation in *)
(* RuntimeState.                                                           *)
(***************************************************************************)
EXTENDS Naturals, Sequences, SequencesExt

CONSTANTS MaxCall,      \* bound: calls of the HTTP API
          MaxBridge,    \* bound: bridge tasks spawned
          MaxTraffic,   \* bound: messages of users and notices of Codex
          ChannelCap,   \* capacity of the inbound channel (128)
          NoticeCap     \* capacity of the notification broadcast (512)

Calls == 0..MaxCall     \* call 0 is made by the daemon when it starts
NoCall == MaxCall + 1
Bridges == 1..MaxBridge
Messages == 1..MaxTraffic
Notices == 1..MaxTraffic
NoBridge == 0
Platforms == {"telegram", "wechat"}
Kinds == {"start", "stop", "on", "off"}

ASSUME BridgeAssumption ==
  /\ MaxBridge \in Nat /\ MaxTraffic \in Nat
  /\ ChannelCap \in Nat \ {0} /\ NoticeCap \in Nat \ {0}
  /\ MaxCall \in Nat

VARIABLES config,     \* enabled: bridge.enabled, active: some account is active
          call,       \* call -> pc, whether it restarts a running bridge
          busy,       \* the call that holds the lock of bridge_task
          handle,     \* bridge_task
          generation, \* bridge_generation
          bridge,     \* bridge -> pc, aborted, gen
          router,     \* codex_event_router of each bridge: pc, position, notice
          listener,   \* listener of each bridge: pc, next update, batch
          channel,    \* inbound channel of each bridge
          platform,   \* which platform the account is of
          sent,       \* external: messages that users have sent
          saved,      \* sync_buf_by_account (WeChat)
          overwritten,\* history: an old listener has saved its buffer over a newer one
          published,  \* notices broadcast so far
          handled,    \* history: how often a message was handed to a handler
          rendered    \* history: how often a notice was rendered

apiVars == <<config, call, busy, handle>>
ioVars == <<platform, sent, saved, overwritten, published>>
vars == <<config, call, busy, handle, generation, bridge, router, listener, channel,
          platform, sent, saved, overwritten, published, handled, rendered>>

Idle == [pc |-> "off", at |-> 0, got |-> 0]
Asleep == [pc |-> "off", from |-> 0, batch |-> << >>]

Init ==
  /\ config \in [enabled : BOOLEAN, active : BOOLEAN]
  /\ call = [c \in Calls |-> [pc |-> IF c = 0 THEN "read" ELSE "idle", restart |-> FALSE]]
  /\ busy = NoCall /\ handle = NoBridge /\ generation = 0
  /\ bridge = [b \in Bridges |-> [pc |-> "none", aborted |-> FALSE, gen |-> 0]]
  /\ router = [b \in Bridges |-> Idle]
  /\ listener = [b \in Bridges |-> Asleep]
  /\ channel = [b \in Bridges |-> << >>]
  /\ platform \in Platforms
  /\ sent = 0 /\ saved = 0 /\ overwritten = FALSE /\ published = 0
  /\ handled = [m \in Messages |-> 0]
  /\ rendered = [n \in Notices |-> 0]

Goto(c, pc) == call' = [call EXCEPT ![c].pc = pc]
Done(c) == call' = [call EXCEPT ![c] = [pc |-> "done", restart |-> FALSE]]

-----------------------------------------------------------------------------
(* HTTP handlers.                                                           *)

\* what a handler does to the configuration, under its lock: start_bridge,
\* stop_bridge, the toggles, deletions and logins of accounts
Edited(kind) ==
  CASE kind = "start" -> [config EXCEPT !.enabled = TRUE]
    [] kind = "stop" -> [config EXCEPT !.enabled = FALSE]
    [] kind = "on" -> [enabled |-> TRUE, active |-> TRUE]
    [] kind = "off" -> [enabled |-> FALSE, active |-> FALSE]

\* the edit stays in memory when it cannot be saved, but nothing follows it
Edit(c) ==
  /\ call[c].pc = "idle" /\ call[c - 1].pc # "idle"     \* calls are numbered as they come
  /\ \E kind \in Kinds, stored \in BOOLEAN :
       /\ config' = Edited(kind)
       /\ call' = [call EXCEPT
            ![c] = [restart |-> stored /\ kind = "on",
                    pc |-> IF ~stored THEN "failed"
                           ELSE IF kind \in {"start", "on"} THEN "read" ELSE "stop"]]
  /\ UNCHANGED <<busy, handle, generation, bridge, router, listener, channel, ioVars,
                 handled, rendered>>

\* start_bridge_task: the configuration is read before bridge_task is locked
ReadConfig(c) ==
  /\ call[c].pc = "read"
  /\ IF config.enabled /\ config.active THEN Goto(c, "spawn") ELSE Done(c)
  /\ UNCHANGED <<config, busy, handle, generation, bridge, router, listener, channel, ioVars,
                 handled, rendered>>

Finished(b) == bridge[b].pc = "gone"
Aborting(b) == IF b = NoBridge THEN bridge ELSE [bridge EXCEPT ![b].aborted = TRUE]

Spawn(c) ==
  /\ call[c].pc = "spawn" /\ busy = NoCall
  /\ LET running == handle # NoBridge /\ ~Finished(handle)
     IN  IF running /\ ~call[c].restart
         THEN Done(c) /\ UNCHANGED <<handle, bridge>>
         ELSE \E b \in Bridges :
                /\ bridge[b].pc = "none" /\ \A a \in 1..(b - 1) : bridge[a].pc # "none"
                /\ handle' = b
                /\ bridge' = [Aborting(IF running THEN handle ELSE NoBridge)
                                EXCEPT ![b].pc = "boot"]
                /\ IF running \/ call[c].restart THEN Goto(c, "invalidate") ELSE Done(c)
  /\ UNCHANGED <<config, busy, generation, router, listener, channel, ioVars, handled, rendered>>

\* invalidate_bridge_generation, after the new bridge was spawned
InvalidateAfterSpawn(c) ==
  /\ call[c].pc = "invalidate"
  /\ generation' = generation + 1
  /\ Done(c)
  /\ UNCHANGED <<config, busy, handle, bridge, router, listener, channel, ioVars, handled, rendered>>

\* stop_bridge_task keeps bridge_task locked until it has invalidated
StopTake(c) ==
  /\ call[c].pc = "stop" /\ busy = NoCall
  /\ busy' = c
  /\ bridge' = Aborting(handle)
  /\ handle' = NoBridge
  /\ Goto(c, "stopping")
  /\ UNCHANGED <<config, generation, router, listener, channel, ioVars, handled, rendered>>

StopInvalidate(c) ==
  /\ call[c].pc = "stopping"
  /\ generation' = generation + 1
  /\ busy' = NoCall
  /\ Done(c)
  /\ UNCHANGED <<config, handle, bridge, router, listener, channel, ioVars, handled, rendered>>

-----------------------------------------------------------------------------
(* A bridge: start_bridge.                                                  *)

IsCurrent(b) == bridge[b].gen = generation
Gone(b) == /\ bridge' = [bridge EXCEPT ![b].pc = "gone", ![b].aborted = FALSE]
           /\ channel' = [channel EXCEPT ![b] = << >>]

\* the accounts are taken from the configuration; without one the bridge ends
BootConfig(b) ==
  /\ bridge[b].pc = "boot"
  /\ IF config.active THEN bridge' = [bridge EXCEPT ![b].pc = "generate"] /\ UNCHANGED channel
     ELSE Gone(b)
  /\ UNCHANGED <<apiVars, generation, router, listener, ioVars, handled, rendered>>

\* start_bridge_generation, then router and listener are spawned
BootGenerate(b) ==
  /\ bridge[b].pc = "generate"
  /\ generation' = generation + 1
  /\ bridge' = [bridge EXCEPT ![b].pc = "up", ![b].gen = generation + 1]
  /\ router' = [router EXCEPT ![b].pc = "new"]
  /\ listener' = [listener EXCEPT ![b].pc = "check"]
  /\ UNCHANGED <<apiVars, channel, ioVars, handled, rendered>>

Count(f, x) == [f EXCEPT ![x] = IF @ < 2 THEN @ + 1 ELSE @]

\* the main loop: a message is handed to a task of its own
Dispatch(b) ==
  /\ bridge[b].pc = "up" /\ channel[b] # << >>
  /\ channel' = [channel EXCEPT ![b] = Tail(@)]
  /\ IF IsCurrent(b)
     THEN handled' = Count(handled, Head(channel[b])) /\ UNCHANGED bridge
     ELSE bridge' = [bridge EXCEPT ![b].pc = "leaving"] /\ UNCHANGED handled
  /\ UNCHANGED <<apiVars, generation, router, listener, ioVars, rendered>>

\* abort_all has been called, the generation is invalidated
Leave(b) ==
  /\ bridge[b].pc = "leaving"
  /\ generation' = generation + 1
  /\ Gone(b)
  /\ UNCHANGED <<apiVars, router, listener, ioVars, handled, rendered>>

\* the abort takes effect where the task gives way
Cancel(b) ==
  /\ bridge[b].aborted /\ bridge[b].pc \in {"boot", "generate", "up", "leaving"}
  /\ Gone(b)
  /\ UNCHANGED <<apiVars, generation, router, listener, ioVars, handled, rendered>>

\* the JoinSet of the bridge aborts router and listener
Dropped(b) == bridge[b].pc \in {"leaving", "gone"}
CancelRouter(b) ==
  /\ Dropped(b) /\ router[b].pc # "off"
  /\ router' = [router EXCEPT ![b] = Idle]
  /\ UNCHANGED <<apiVars, generation, bridge, listener, channel, ioVars, handled, rendered>>
CancelListener(b) ==
  /\ Dropped(b) /\ listener[b].pc # "off"
  /\ listener' = [listener EXCEPT ![b] = Asleep]
  /\ UNCHANGED <<apiVars, generation, bridge, router, channel, ioVars, handled, rendered>>

-----------------------------------------------------------------------------
(* The event router: codex_event_router.                                    *)

Publish ==
  /\ published + sent < MaxTraffic
  /\ published' = published + 1
  /\ UNCHANGED <<apiVars, generation, bridge, router, listener, channel, platform, sent, saved,
                 overwritten, handled, rendered>>

RouterStep(b, r) ==
  /\ router' = [router EXCEPT ![b] = r]
  /\ UNCHANGED <<apiVars, generation, bridge, listener, channel, ioVars, handled>>

\* subscribe: only what is broadcast from now on
RouterSubscribe(b) ==
  /\ router[b].pc = "new"
  /\ RouterStep(b, [pc |-> "check", at |-> published, got |-> 0]) /\ UNCHANGED rendered

RouterCheck(b) ==
  /\ router[b].pc = "check"
  /\ RouterStep(b, IF IsCurrent(b) THEN [router[b] EXCEPT !.pc = "recv"] ELSE Idle)
  /\ UNCHANGED rendered

\* a receiver that lags behind continues with the oldest notice kept
Oldest(at) == IF published - at > NoticeCap THEN published - NoticeCap ELSE at
RouterRecv(b) ==
  /\ router[b].pc = "recv" /\ router[b].at < published
  /\ RouterStep(b, IF Oldest(router[b].at) # router[b].at
                   THEN [router[b] EXCEPT !.pc = "check", !.at = Oldest(@)]
                   ELSE [pc |-> "got", at |-> router[b].at + 1, got |-> router[b].at + 1])
  /\ UNCHANGED rendered

\* seeded fault: no second look at the generation
RouterHandleAnyway(b) ==
  /\ router[b].pc = "got"
  /\ RouterStep(b, [router[b] EXCEPT !.pc = "check"])
  /\ rendered' = Count(rendered, router[b].got)

\* the generation is looked at again after the wait for a notice
RouterHandle(b) ==
  /\ router[b].pc = "got"
  /\ RouterStep(b, IF IsCurrent(b) THEN [router[b] EXCEPT !.pc = "check"] ELSE Idle)
  /\ rendered' = IF IsCurrent(b) THEN Count(rendered, router[b].got) ELSE rendered

-----------------------------------------------------------------------------
(* The listener: listen_polling of Telegram and WeChat.                     *)

UserSends ==
  /\ published + sent < MaxTraffic
  /\ sent' = sent + 1
  /\ UNCHANGED <<apiVars, generation, bridge, router, listener, channel, platform, saved,
                 overwritten, published, handled, rendered>>

ListenerStep(b, l) ==
  /\ listener' = [listener EXCEPT ![b] = l]
  /\ UNCHANGED <<apiVars, generation, bridge, router, platform, published, handled, rendered>>

Unread(from) == [i \in 1..(sent - from) |-> from + i]

\* the loop around listen_polling, entered again after every failure
ListenCheck(b) ==
  /\ listener[b].pc = "check"
  /\ ListenerStep(b, IF IsCurrent(b) THEN [Asleep EXCEPT !.pc = "start"] ELSE Asleep)
  /\ UNCHANGED <<sent, saved, overwritten, channel>>

\* claim_polling_slot: whatever Telegram has kept is skipped
StartTelegram(b) ==
  /\ listener[b].pc = "start" /\ platform = "telegram"
  /\ ListenerStep(b, [pc |-> "poll", from |-> sent, batch |-> << >>])
  /\ UNCHANGED <<sent, saved, overwritten, channel>>

\* load_sync_buf
StartWechat(b) ==
  /\ listener[b].pc = "start" /\ platform = "wechat"
  /\ ListenerStep(b, [pc |-> "poll", from |-> saved, batch |-> << >>])
  /\ UNCHANGED <<sent, saved, overwritten, channel>>

\* seeded fault: the offset is taken one too far
PollBeyond(b) ==
  /\ listener[b].pc = "poll" /\ platform = "telegram"
  /\ listener[b].from < sent
  /\ ListenerStep(b, [listener[b] EXCEPT !.pc = "hand", !.batch = Tail(Unread(listener[b].from))])
  /\ UNCHANGED <<sent, saved, overwritten, channel>>

\* get_updates with the offset
PollTelegram(b) ==
  /\ listener[b].pc = "poll" /\ platform = "telegram"
  /\ listener[b].from < sent
  /\ ListenerStep(b, [listener[b] EXCEPT !.pc = "hand", !.batch = Unread(listener[b].from)])
  /\ UNCHANGED <<sent, saved, overwritten, channel>>

PollWechat(b) ==
  /\ listener[b].pc = "poll" /\ platform = "wechat"
  /\ listener[b].from < sent
  /\ ListenerStep(b, [pc |-> "save", from |-> sent, batch |-> Unread(listener[b].from)])
  /\ UNCHANGED <<sent, saved, overwritten, channel>>

\* save_sync_buf, before the messages are handed on; nothing tells an aborted
\* listener that its successor has saved a newer buffer
SaveBuffer(b) ==
  /\ listener[b].pc = "save"
  /\ ListenerStep(b, [listener[b] EXCEPT !.pc = "hand"])
  /\ saved' = listener[b].from
  /\ overwritten' = (overwritten \/ listener[b].from < saved)
  /\ UNCHANGED <<sent, channel>>

\* one message into the channel, which may be full; with the bridge gone it
\* is closed and listen_polling fails
Hand(b) ==
  /\ listener[b].pc = "hand" /\ listener[b].batch # << >>
  /\ IF bridge[b].pc = "gone"
     THEN ListenerStep(b, [Asleep EXCEPT !.pc = "check"]) /\ UNCHANGED channel
     ELSE /\ Len(channel[b]) < ChannelCap
          /\ channel' = [channel EXCEPT ![b] = Append(@, Head(listener[b].batch))]
          /\ ListenerStep(b, [listener[b] EXCEPT
               !.batch = Tail(@), !.pc = IF Len(listener[b].batch) = 1 THEN "poll" ELSE "hand",
               !.from = IF platform = "telegram" THEN Head(listener[b].batch) ELSE @])
  /\ UNCHANGED <<sent, saved, overwritten>>

-----------------------------------------------------------------------------
CallStep(c) == \/ Edit(c) \/ ReadConfig(c) \/ Spawn(c) \/ InvalidateAfterSpawn(c)
               \/ StopTake(c) \/ StopInvalidate(c)
BridgeStep(b) == BootConfig(b) \/ BootGenerate(b) \/ Dispatch(b) \/ Leave(b)
CancelStep(b) == Cancel(b) \/ CancelRouter(b) \/ CancelListener(b)
RouteStep(b) == RouterSubscribe(b) \/ RouterCheck(b) \/ RouterRecv(b) \/ RouterHandle(b)
ListenStep(b) == \/ ListenCheck(b) \/ StartTelegram(b) \/ StartWechat(b)
                 \/ PollTelegram(b) \/ PollWechat(b) \/ SaveBuffer(b) \/ Hand(b)

Next == \/ Publish \/ UserSends
        \/ \E c \in Calls : CallStep(c)
        \/ \E b \in Bridges : BridgeStep(b) \/ CancelStep(b) \/ RouteStep(b) \/ ListenStep(b)

(* tokio polls every task that is ready and drops aborted ones.             *)
Fairness == \A b \in Bridges : /\ WF_vars(BridgeStep(b)) /\ WF_vars(RouteStep(b))
                               /\ WF_vars(ListenStep(b)) /\ WF_vars(CancelStep(b))

Spec == Init /\ [][Next]_vars
FairSpec == Spec /\ Fairness

-----------------------------------------------------------------------------
(* Properties.                                                              *)

(* However bridges overlap, one message of a user reaches one handler: a    *)
(* restarted bridge takes up no message the one before has worked on        *)
(* (bridge.rs main loop, sync buffer and offset of the listeners).  One way *)
(* is open: the listener of an aborted bridge that saves the buffer it got  *)
(* before only after its successor has saved a newer one hands the messages *)
(* in between to the bridge after that.                                     *)
HandledOnce == overwritten \/ \A m \in Messages : handled[m] <= 1

(* One notice of Codex is shown by one router, while an old router may      *)
(* still be alive beside the new one (bridge.rs, codex_event_router).       *)
RenderedOnce == \A n \in Notices : rendered[n] <= 1

(* Overlapping bridges do no work twice, neither inbound nor outbound.      *)
WorkedOnOnce == HandledOnce /\ RenderedOnce

(* While its bridge is current and its listener polls, all that users have  *)
(* sent since is handed to handlers, however often the inbound channel is   *)
(* full (listen_polling, start_bridge).                                          *)
Waiting(b) == listener[b].pc = "poll" /\ listener[b].from < sent
MessageArrives ==
  \A b \in Bridges :
    Waiting(b) ~> (~IsCurrent(b) \/ Dropped(b) \/ (sent > 0 /\ handled[sent] > 0))

(* docs/configuration.md: when bridge.enabled is off, IM messages are not   *)
(* forwarded to Codex.  Judged when every call has been carried out and no  *)
(* bridge is starting or being dropped (start_bridge_task reads the         *)
(* configuration before it locks bridge_task).                              *)
Quiet == /\ \A c \in Calls : call[c].pc \in {"idle", "done"}
         /\ \A b \in Bridges : bridge[b].pc \in {"none", "up", "gone"} /\ ~bridge[b].aborted
DisabledForwardsNothing ==
  Quiet /\ ~config.enabled => \A b \in Bridges : ~(bridge[b].pc = "up" /\ IsCurrent(b))
=============================================================================
