------------------------------ MODULE Rendering ------------------------------
(***************************************************************************)
(* What becomes of Codex output on its way into a conversation             *)
(* (im/events.rs).  Feishu shows an item as a card that tasks, the card    *)
(* drivers, bring up to date while the item grows (im/feishu/runtime.rs).  *)
(* Telegram and WeChat get messages from a queue with one worker           *)
(* (im/core/outbound.rs); what WeChat refuses for want of a fresh context  *)
(* token waits until the user writes again (im/wechat/polling.rs).         *)
(*                                                                         *)
(* One item of a Feishu conversation, or what happens in a text one: turns *)
(* with their replies, items of other kinds, approvals.                    *)
(***************************************************************************)
EXTENDS Naturals, Sequences, FiniteSets, SequencesExt

CONSTANTS MaxEvent,    \* bound: notifications about the item
          MaxTurn,     \* bound: turns, items and approvals of a text conversation
          Works,       \* what these may be, one after the other
          TextOf,      \* the reply of each turn
          WithImage,   \* those whose reply or result has an image
          Long,        \* those whose reply is longer than WECHAT_TEXT_CHUNK_CHARS
          MaxFail,     \* bound: sends that fail
          MaxExpire,   \* bound: context tokens that expire
          MaxRestart   \* bound: restarts of the bridge, edits of the account

Drivers == 1..MaxEvent      \* every notification spawns one
Turns == 1..MaxTurn
Platforms == {"feishu", "telegram", "wechat"}
\* structured_streaming_kind: items that are shown while they grow
Streamed == {"agentMessage", "reasoning", "plan", "commandExecution", "fileChange", "mcpToolCall"}
\* pictures are generated or viewed; "other" is any item without a card of its own
Kinds == Streamed \cup {"picture", "userMessage", "other"}
Items == {"userMessage", "picture", "mcpToolCall"}

ASSUME RenderingAssumption ==
  /\ MaxEvent \in Nat /\ MaxTurn \in Nat /\ MaxFail \in Nat
  /\ MaxExpire \in Nat /\ MaxRestart \in Nat
  /\ Works \subseteq UNION {[1..n -> Items \cup {"turn", "approval"}] : n \in 0..MaxTurn}
  /\ DOMAIN TextOf = Turns /\ WithImage \subseteq Turns /\ Long \subseteq Turns

VARIABLES platform, fails, restarts,
          item,      \* app-server: kind, pc, notifications so far, the newest with a text
          card,      \* feishu_streaming_cards_by_item; a text is its notification
          driver,    \* tasks of drive_streaming_card_state: pc, state_snapshot
          chat,      \* external: cards posted; of the newest its text and the sequence it has taken
          turn,      \* app-server: works, the present one, what was announced of it
          last,      \* last_sent_text_by_route: text of the last reply, 0 for none
          queue,     \* the outbound queue
          worker,    \* run_worker: pc, message, token the message is sent with
          token,     \* context_tokens: none, fresh or stale
          recovery,  \* wechat_recovery: awaiting, pending
          listener,  \* whether a user's message is about to replay what is pending
          active,    \* the account is enabled
          expired,
          queued,    \* history: messages that were handed to enqueue_outbound
          sent,      \* external: messages delivered
          again,     \* external: those delivered more than once
          dropped    \* history: messages given up with an error event, or lost with a bridge

cardVars == <<item, card, driver, chat>>
textVars == <<turn, last, queue, worker, token, recovery, listener, active, expired, queued, sent, again, dropped>>
vars == <<platform, fails, restarts, cardVars, textVars>>

NoCard == [on |-> FALSE, text |-> 0, sent |-> 0, completed |-> FALSE, sending |-> FALSE,
           dirty |-> FALSE, posted |-> FALSE, sequence |-> 0]
Off == [pc |-> "off", snap |-> NoCard]
NoMessage == [turn |-> 0, kind |-> "none"]
Idle == [pc |-> "idle", m |-> NoMessage, token |-> "none"]

Init ==
  /\ platform \in Platforms /\ fails = 0 /\ restarts = 0
  /\ item \in [kind : Kinds, pc : {"open"}, n : {0}, said : {0}]
  /\ card = NoCard /\ driver = [d \in Drivers |-> Off]
  /\ chat = [posts |-> 0, shown |-> 0, taken |-> 0]
  /\ turn \in [works : Works, n : {1}, pc : {"runs"}] /\ last = 0
  /\ queue = << >> /\ worker = Idle /\ token = "none"
  /\ recovery = [awaiting |-> FALSE, pending |-> << >>]
  /\ listener = "polls" /\ active = TRUE /\ expired = 0
  /\ queued = {} /\ sent = {} /\ again = {} /\ dropped = {}

-----------------------------------------------------------------------------
(* Feishu: notifications of an item.                                        *)

\* the handler writes the entry under the lock of the runtime and spawns a driver
Handle(entry, said) ==
  /\ card' = entry
  /\ item' = [item EXCEPT !.n = @ + 1, !.said = said]
  /\ driver' = [driver EXCEPT ![item.n + 1] = [Off EXCEPT !.pc = "claim"]]
  /\ UNCHANGED <<platform, fails, restarts, chat, textVars>>

Notified(kinds) == platform = "feishu" /\ item.kind \in kinds /\ item.pc = "open" /\ item.n < MaxEvent
New == item.n + 1

\* ensure_started_streaming_card_state keeps a text the card already has: of
\* the summaries of an item that grows the first one counts
EnsureStarted(given) ==
  Handle([card EXCEPT !.on = TRUE, !.dirty = TRUE, !.text = IF given /\ @ = 0 THEN New ELSE @],
         IF given /\ item.said = 0 THEN New ELSE item.said)

\* whether a summary can be rendered depends on the item; a command has one as
\* soon as it is known
ItemStarted == Notified(Streamed) /\ \E given \in BOOLEAN : EnsureStarted(given)
ItemUpdated == Notified(Streamed) /\ \E given \in BOOLEAN : EnsureStarted(given)

\* upsert_streaming_card_state
Upsert == Handle([card EXCEPT !.on = TRUE, !.dirty = TRUE, !.text = New], New)

AgentMessageDelta == Notified({"agentMessage"}) /\ Upsert
ReasoningDelta == Notified({"reasoning"}) /\ Upsert
PlanDelta == Notified({"plan"}) /\ Upsert
\* the output of a command is left for its end
OutputDelta == Notified({"fileChange"}) /\ Upsert
ToolProgress == Notified({"mcpToolCall"}) /\ Upsert

\* complete_existing_item_card, or a card of its own
ItemCompleted ==
  /\ Notified(Streamed)
  /\ \E given \in BOOLEAN :
       /\ IF card.on \/ given
          THEN /\ card' = [card EXCEPT !.on = TRUE, !.dirty = TRUE, !.completed = TRUE,
                                       !.text = IF given THEN New ELSE @]
               /\ driver' = [driver EXCEPT ![New] = [Off EXCEPT !.pc = "claim"]]
          ELSE UNCHANGED <<card, driver>>
       /\ item' = [item EXCEPT !.pc = "done", !.n = New, !.said = IF given THEN New ELSE @]
  /\ UNCHANGED <<platform, fails, restarts, chat, textVars>>

\* the handler itself posts a card
Post(posts) ==
  /\ chat' = [chat EXCEPT !.posts = @ + posts]
  /\ item' = [item EXCEPT !.pc = "done", !.n = New]
  /\ UNCHANGED <<platform, restarts, card, driver, textVars>>

\* send_image_item_card; if that fails, whatever Feishu has done, a card without the image
PictureCompleted ==
  /\ Notified({"picture"})
  /\ \/ Post(1) /\ UNCHANGED fails
     \/ /\ fails < MaxFail /\ fails' = fails + 1
        /\ \E posts \in 0..2 : Post(posts)

\* what was written in this chat is not shown there again; other items may
\* have no card
OtherItemCompleted ==
  /\ Notified({"userMessage", "other"})
  /\ \/ \E posts \in 0..1 : Post(posts) /\ UNCHANGED fails
     \/ fails < MaxFail /\ fails' = fails + 1 /\ Post(0)

(* The drivers of the card: drive_streaming_card_state.                     *)

DriverStep(d, pc) ==
  /\ driver' = [driver EXCEPT ![d] = IF pc = "off" THEN Off ELSE [@ EXCEPT !.pc = pc]]
  /\ UNCHANGED <<platform, fails, restarts, item, chat, textVars>>

\* seeded fault: a driver does not mind another one that is sending
ClaimAnyway(d) ==
  /\ driver[d].pc = "claim"
  /\ IF ~card.on \/ ~card.dirty
     THEN DriverStep(d, "off") /\ UNCHANGED card
     ELSE /\ card' = [card EXCEPT !.sending = TRUE, !.dirty = FALSE]
          /\ driver' = [driver EXCEPT ![d] =
               [pc |-> IF card.text = 0 /\ ~card.posted THEN "skip" ELSE "wait", snap |-> card]]
          /\ UNCHANGED <<platform, fails, restarts, item, chat, textVars>>

\* should_skip_empty_streaming_send
Empty(entry) == entry.text = 0 /\ entry.sent = 0 /\ ~entry.posted

Claim(d) ==
  /\ driver[d].pc = "claim"
  /\ IF ~card.on \/ card.sending \/ ~card.dirty
     THEN DriverStep(d, "off") /\ UNCHANGED card
     ELSE /\ card' = [card EXCEPT !.sending = TRUE, !.dirty = FALSE]
          /\ driver' = [driver EXCEPT ![d] =
               [pc |-> IF Empty(card) THEN "skip" ELSE "wait", snap |-> card]]
          /\ UNCHANGED <<platform, fails, restarts, item, chat, textVars>>

\* whatever has become dirty meanwhile stays so
Skip(d) ==
  /\ driver[d].pc = "skip"
  /\ DriverStep(d, "off")
  /\ card' = IF card.on /\ card.completed /\ card.text = 0 /\ card.sent = 0 THEN NoCard
             ELSE [card EXCEPT !.sending = FALSE]

\* seeded fault: the text is not read again after the wait
WaitKeepsText(d) ==
  /\ driver[d].pc = "wait"
  /\ DriverStep(d, "send")
  /\ card' = [card EXCEPT !.dirty = FALSE]

\* a posted card is updated after a pause, with what has arrived by then; how
\* long the pause is depends on the last update, it may be none
Wait(d) ==
  /\ driver[d].pc = "wait"
  /\ \/ DriverStep(d, "send") /\ UNCHANGED card
     \/ /\ driver[d].snap.posted
        /\ IF ~card.on THEN DriverStep(d, "off") /\ UNCHANGED card
           ELSE /\ card' = [card EXCEPT !.dirty = FALSE]
                /\ driver' = [driver EXCEPT ![d] = [pc |-> "send", snap |-> card]]
                /\ UNCHANGED <<platform, fails, restarts, item, chat, textVars>>

(* What Feishu makes of a send.  A card of CardKit, which shows an agent      *)
(* message, takes a request only with a larger sequence than the last; it is  *)
(* created and posted by requests of its own, and the last update is followed *)
(* by one that ends the streaming.                                            *)
IsCardKit == item.kind = "agentMessage"
Target(entry) == IF entry.posted THEN chat ELSE [posts |-> chat.posts + 1, shown |-> 0, taken |-> 0]
NextSequence(entry) == IF entry.posted THEN entry.sequence + 1 ELSE 1
LastSequence(entry) ==
  IF ~IsCardKit THEN entry.sequence
  ELSE IF entry.completed THEN NextSequence(entry) + 1 ELSE NextSequence(entry)

Takes(entry) == IsCardKit => NextSequence(entry) > Target(entry).taken
Posted(entry) == [Target(entry) EXCEPT !.shown = entry.text, !.taken = LastSequence(entry)]

\* what may have been done of a send that fails
PartlyPosted(entry) ==
  {chat} \cup (IF IsCardKit THEN {Target(entry)} ELSE {})
         \cup (IF ~Takes(entry) THEN {}
               ELSE {Posted(entry)} \cup
                    (IF IsCardKit THEN {[Posted(entry) EXCEPT !.taken = NextSequence(entry)]} ELSE {}))

\* the card is created, posted or updated, then the entry written back
SendCard(d) ==
  /\ driver[d].pc = "send" /\ Takes(driver[d].snap)
  /\ chat' = Posted(driver[d].snap)
  /\ LET entry == [card EXCEPT !.posted = TRUE, !.sent = driver[d].snap.text, !.sending = FALSE,
                               !.sequence = LastSequence(driver[d].snap)]
         over == card.on /\ entry.completed /\ ~entry.dirty /\ entry.sent = entry.text
     IN  /\ card' = IF ~card.on \/ over THEN NoCard ELSE entry
         /\ driver' = [driver EXCEPT ![d] =
              IF card.on /\ card.dirty THEN [Off EXCEPT !.pc = "claim"] ELSE Off]
  /\ UNCHANGED <<platform, fails, restarts, item, textVars>>

\* the entry is written back without what was sent, and the driver goes on
SentInVain(d) ==
  /\ card' = IF card.on THEN [card EXCEPT !.sending = FALSE, !.dirty = TRUE] ELSE card
  /\ driver' = [driver EXCEPT ![d] = [Off EXCEPT !.pc = "claim"]]
  /\ UNCHANGED <<platform, restarts, item, textVars>>

\* an error, or FEISHU_CARDKIT_SEND_TIMEOUT_MS is up, whatever Feishu has done
SendCardFails(d) ==
  /\ driver[d].pc = "send" /\ fails < MaxFail
  /\ fails' = fails + 1
  /\ chat' \in PartlyPosted(driver[d].snap)
  /\ SentInVain(d)

\* the sequence was taken by a send whose answer was lost
SendCardRefused(d) ==
  /\ driver[d].pc = "send" /\ ~Takes(driver[d].snap)
  /\ SentInVain(d) /\ UNCHANGED <<fails, chat>>

-----------------------------------------------------------------------------
(* Telegram and WeChat: replies of turns.                                   *)

Message(t, kind) == [turn |-> t, kind |-> kind]
Reply(t) == << Message(t, "reply") >>
            \o (IF t \in WithImage THEN << Message(t, "image") >> ELSE << >>)

IsText == platform # "feishu"
TextStep == UNCHANGED <<platform, fails, restarts, cardVars>>

Doing(works) == turn.n <= Len(turn.works) /\ turn.works[turn.n] \in works
NextWork == turn' = [turn EXCEPT !.n = @ + 1, !.pc = "runs"]

\* send_turn_reply: a reply that equals the last one is skipped
SendTurnReply(t) == IF last = TextOf[t] THEN << >> ELSE Reply(t)

Enqueue(messages) == /\ queue' = queue \o messages
                     /\ queued' = queued \cup Range(messages)

\* item/completed of an agentMessage
ReplyCompleted ==
  /\ IsText /\ Doing({"turn"}) /\ turn.pc = "runs"
  /\ Enqueue(SendTurnReply(turn.n)) /\ last' = TextOf[turn.n]
  /\ turn' = [turn EXCEPT !.pc = "said"]
  /\ TextStep
  /\ UNCHANGED <<worker, token, recovery, listener, active, expired, sent, again, dropped>>

\* turn/completed carries the reply again; then send_turn_completed_mark
TurnCompleted ==
  /\ IsText /\ Doing({"turn"})
  /\ \E carries \in BOOLEAN :
       /\ last' = IF carries THEN TextOf[turn.n] ELSE last
       /\ Enqueue((IF carries THEN SendTurnReply(turn.n) ELSE << >>) \o << Message(turn.n, "mark") >>)
  /\ NextWork
  /\ TextStep
  /\ UNCHANGED <<worker, token, recovery, listener, active, expired, sent, again, dropped>>

\* what is queued for an item: a picture is a message without a text, or a text
\* if there is no file; nothing if the image cache cannot be written
ItemMessages(n) ==
  LET text == << Message(n, "item") >>
      image == << Message(n, "image") >>
  IN  CASE turn.works[n] = "userMessage" -> {text, << >>}
        [] turn.works[n] = "picture" -> {image, text, << >>}
        [] OTHER -> {text \o (IF n \in WithImage THEN image ELSE << >>), << >>}

\* seeded fault: an item is sent as often as it is told
SendItemAgain(n) == ItemMessages(n)

\* send_text_im_codex_item: what was remembered of the item is skipped
SendItem(n) == IF turn.pc = "said" THEN {<< >>} ELSE ItemMessages(n)

\* every item is told twice: what is skipped is all the same as not told
TextItemCompleted ==
  /\ IsText /\ Doing(Items)
  /\ \E messages \in SendItem(turn.n) : Enqueue(messages)
  /\ IF turn.pc = "said" THEN NextWork ELSE turn' = [turn EXCEPT !.pc = "said"]
  /\ TextStep
  /\ UNCHANGED <<last, worker, token, recovery, listener, active, expired, sent, again, dropped>>

\* enqueue_approval
ApprovalQueued ==
  /\ Doing({"approval"})
  /\ Enqueue(<< Message(turn.n, "approval") >>) /\ NextWork
  /\ TextStep
  /\ UNCHANGED <<last, worker, token, recovery, listener, active, expired, sent, again, dropped>>

(* The worker: run_worker.                                                  *)

WorkerStep == /\ TextStep
              /\ UNCHANGED <<turn, last, listener, active, expired, queued>>
Rest == worker' = Idle

WorkerTake ==
  /\ worker.pc = "idle" /\ queue # << >>
  /\ queue' = Tail(queue)
  /\ IF active THEN /\ worker' = [Idle EXCEPT !.m = Head(queue),
                                    !.pc = IF platform = "wechat" THEN "look" ELSE "send"]
                    /\ UNCHANGED dropped
     ELSE dropped' = dropped \cup {Head(queue)} /\ UNCHANGED worker
  /\ WorkerStep /\ UNCHANGED <<token, recovery, sent, again>>

IsImage == worker.m.kind = "image"

\* defer_wechat_outbound_if_waiting looks at the recovery state, then at the token
WorkerLook ==
  /\ worker.pc = "look"
  /\ worker' = [worker EXCEPT !.pc = IF recovery.awaiting THEN (IF IsImage THEN "defer" ELSE "read")
                                     ELSE "token"]
  /\ WorkerStep /\ UNCHANGED <<queue, token, recovery, sent, again, dropped>>

WorkerToken ==
  /\ worker.pc = "token"
  /\ worker' = [worker EXCEPT !.pc = IF token = "none" /\ IsImage THEN "defer" ELSE "read"]
  /\ WorkerStep /\ UNCHANGED <<queue, token, recovery, sent, again, dropped>>

\* seeded fault: the message is not kept
DeferNothing ==
  /\ worker.pc = "defer"
  /\ recovery' = [recovery EXCEPT !.awaiting = TRUE]
  /\ Rest
  /\ WorkerStep /\ UNCHANGED <<queue, token, sent, again, dropped>>

\* queue_wechat_pending_outbound
Defer ==
  /\ worker.pc = "defer"
  /\ recovery' = [awaiting |-> TRUE, pending |-> Append(recovery.pending, worker.m)]
  /\ Rest
  /\ WorkerStep /\ UNCHANGED <<queue, token, sent, again, dropped>>

\* the adapter reads the token it sends with
WorkerRead ==
  /\ worker.pc = "read"
  /\ worker' = [worker EXCEPT !.pc = "send", !.token = token]
  /\ WorkerStep /\ UNCHANGED <<queue, token, recovery, sent, again, dropped>>

Deliver ==
  /\ worker.pc \in {"send", "resend"}
  /\ platform = "wechat" => worker.token # "stale" /\ (IsImage => worker.token = "fresh")
  /\ sent' = sent \cup {worker.m}
  /\ again' = again \cup (sent \cap {worker.m})
  /\ Rest
  /\ WorkerStep /\ UNCHANGED <<queue, token, recovery, dropped>>

\* for an image of Telegram there may be a text instead
HasFallback == /\ platform = "telegram" /\ IsImage /\ worker.pc = "send"
               /\ turn.works[worker.m.turn] # "mcpToolCall"

\* an error that does not speak of the context token
WorkerFails ==
  /\ worker.pc \in {"send", "resend"} /\ fails < MaxFail
  /\ fails' = fails + 1
  /\ IF HasFallback THEN worker' = [worker EXCEPT !.pc = "resend"] /\ UNCHANGED dropped
     ELSE dropped' = dropped \cup {worker.m} /\ Rest
  /\ UNCHANGED <<platform, restarts, cardVars, turn, last, queue, queued, token, recovery, listener,
                 active, expired, sent, again>>

\* is_wechat_context_token_error
Refused ==
  /\ worker.pc \in {"send", "resend"} /\ platform = "wechat" /\ worker.token # "fresh"
  /\ worker' = [worker EXCEPT !.pc = IF @ = "send" THEN "forget" ELSE "forgetagain"]
  /\ WorkerStep /\ UNCHANGED <<queue, token, recovery, sent, again, dropped>>

\* forget_wechat_context_token, whichever token is there by now; a short text
\* is tried once more without one
Forget ==
  /\ worker.pc \in {"forget", "forgetagain"}
  /\ token' = "none"
  /\ worker' = IF worker.pc = "forget" /\ ~IsImage /\ ~(worker.m.turn \in Long /\ worker.m.kind = "reply")
               THEN [worker EXCEPT !.pc = "resend", !.token = "none"]
               ELSE [worker EXCEPT !.pc = "defer"]
  /\ WorkerStep /\ UNCHANGED <<queue, recovery, sent, again, dropped>>

(* The user.                                                                *)

\* a message with a context token: remember_context_token, then
\* replay_wechat_pending_for_peer
UserWrites ==
  /\ platform = "wechat" /\ listener = "polls"
  /\ token' = "fresh" /\ listener' = "replays"
  /\ TextStep
  /\ UNCHANGED <<turn, last, queue, queued, worker, recovery, active, expired, sent, again, dropped>>

Replay ==
  /\ listener = "replays"
  /\ listener' = "polls"
  /\ recovery' = [awaiting |-> FALSE, pending |-> << >>]
  /\ queue' = queue \o recovery.pending
  /\ TextStep
  /\ UNCHANGED <<turn, last, queued, worker, token, active, expired, sent, again, dropped>>

TokenExpires ==
  /\ token = "fresh" /\ expired < MaxExpire
  /\ token' = "stale" /\ expired' = expired + 1
  /\ TextStep
  /\ UNCHANGED <<turn, last, queue, queued, worker, recovery, listener, active, sent, again, dropped>>

AccountDisabled ==
  /\ IsText /\ active /\ restarts < MaxRestart
  /\ active' = FALSE /\ restarts' = restarts + 1
  /\ UNCHANGED <<platform, fails, cardVars>>
  /\ UNCHANGED <<turn, last, queue, queued, worker, token, recovery, listener, expired, sent, again, dropped>>

-----------------------------------------------------------------------------
(* Another bridge generation: the cards are cleared, the queue and its      *)
(* worker are gone with the bridge; drivers go on, and so does what is      *)
(* pending.                                                                 *)
Restart ==
  /\ restarts < MaxRestart
  /\ restarts' = restarts + 1
  /\ card' = NoCard
  /\ queue' = << >> /\ worker' = Idle /\ listener' = "polls" /\ active' = TRUE
  /\ dropped' = dropped \cup Range(queue) \cup ({worker.m} \ {NoMessage})
  /\ UNCHANGED <<platform, fails, item, driver, chat, turn, last, queued, token, recovery, expired, sent, again>>

CardStep(d) == Claim(d) \/ Skip(d) \/ Wait(d) \/ SendCard(d) \/ SendCardRefused(d)
QueueStep == \/ WorkerTake \/ WorkerLook \/ WorkerToken \/ Defer \/ WorkerRead
             \/ Deliver \/ Refused \/ Forget
Next == \/ ItemStarted \/ ItemUpdated
        \/ AgentMessageDelta \/ ReasoningDelta \/ PlanDelta \/ OutputDelta \/ ToolProgress
        \/ ItemCompleted \/ PictureCompleted \/ OtherItemCompleted
        \/ \E d \in Drivers : CardStep(d) \/ SendCardFails(d)
        \/ ReplyCompleted \/ TurnCompleted \/ TextItemCompleted \/ ApprovalQueued \/ QueueStep \/ WorkerFails
        \/ UserWrites \/ Replay \/ TokenExpires \/ AccountDisabled \/ Restart

(* Tasks that are ready run; the user writes again and again, and WeChat    *)
(* accepts in the end a text that is sent without a token again and again.  *)
Fairness == /\ \A d \in Drivers : WF_vars(CardStep(d))
            /\ WF_vars(QueueStep) /\ SF_vars(Deliver)
            /\ WF_vars(UserWrites) /\ WF_vars(Replay)
Spec == Init /\ [][Next]_vars
FairSpec == Spec /\ Fairness

-----------------------------------------------------------------------------
(* Properties.                                                              *)

(* A card never shows less than it did (drive_streaming_card_state takes    *)
(* its snapshots under the lock and sends them one after the other).        *)
CardNeverGoesBack ==
  [][restarts = 0 /\ chat'.posts = chat.posts => chat'.shown >= chat.shown]_vars

(* A card of CardKit whose answer was lost: each retry repeats the sequence *)
(* that Feishu has taken (feishu/runtime.rs:450, 628-633).                  *)
Stuck == card.posted /\ ~Takes(card)

(* Once an item has a message, all that its deltas and its end say is shown *)
(* in the end, or the first summary, through pauses and overlapping drivers *)
(* and through failures and timeouts of the sends; but for a CardKit card   *)
(* that took an update without the answer arriving, which stays as it is.   *)
CardCatchesUp == card.posted ~> (restarts > 0 \/ chat.shown = item.said \/ Stuck)

(* A message is delivered at most once, though both item/completed and      *)
(* turn/completed carry a reply, and whatever WeChat refused is replayed.   *)
DeliveredOnce == again = {}

(* If the user keeps writing, whatever was queued reaches the chat or is    *)
(* given up with an error in the end: what is pending does not go round in  *)
(* circles between a token that is forgotten and a replay.                  *)
AllIsSettled == []<>(queued \subseteq sent \cup dropped)
=============================================================================
