------------------------------ MODULE Approvals ------------------------------
(***************************************************************************)
(* Pending approvals of the IM side (im_runtime.rs, im/core/approval.rs,   *)
(* bridge.rs, im/core/outbound.rs).  Codex asks for an approval with a     *)
(* JSON-RPC request; the event router of the bridge files it under its     *)
(* conversation and has the first one of each conversation shown in the    *)
(* chat.  It leaves the queue when a user's reply was sent back, or when   *)
(* Codex says that it is settled; whoever takes it out has the next one    *)
(* shown.  Replies are handled by a task each, next to the router and to   *)
(* the worker that sends prompts.                                          *)
(*                                                                         *)
(* The app-servers are external: requests of two of them may bear one id,  *)
(* an open request may be sent again, notices may be lost.                 *)
(***************************************************************************)
EXTENDS Naturals, Sequences

CONSTANTS Convs,     \* IM conversations
          Requests,  \* approval requests of the app-servers
          Replies,   \* replies of users, each handled once
          ConvOf,    \* the conversation the request's thread is bound to
          IdOf,      \* the JSON-RPC id of a request (request_key)
          PlatformOf, \* the platform of each conversation
          MaxAsks,   \* bound: times a request is sent to the bridge
          MaxWire    \* bound: notices on their way to the router

ASSUME RequestsAssumption == ConvOf \in [Requests -> Convs]
ASSUME PlatformsAssumption == PlatformOf \in [Convs -> {"feishu", "telegram", "wechat"}]
ASSUME BoundsAssumption == MaxAsks \in Nat /\ MaxWire \in Nat

VARIABLES pending,  \* RuntimeState: queues of approvals, keys of all of them
          outbox,   \* prompts on their way to the chat
          chat,     \* prompts shown, refused, and never sent
          router,   \* what codex_event_router is handling
          task,     \* the task that handles each reply
          wire,     \* notices on their way to the router
          app       \* external: how often a request was sent, which are open

vars == <<pending, outbox, chat, router, task, wire, app>>

\* a request as filed for the n-th time
Approvals == [req : Requests, ask : 1..MaxAsks]
Key(a) == IdOf[a.req]
Ids == {IdOf[r] : r \in Requests}

NoId == "none"
NoReply(pc) == [pc |-> pc, id |-> NoId, chosen |-> {}, next |-> {}]
Idle == [pc |-> "idle", next |-> {}]
Notice(kind, a) == [kind |-> kind, approval |-> a]

Init ==
  /\ pending = [queue |-> [c \in Convs |-> << >>], keys |-> {}]
  /\ outbox = << >>
  /\ chat = [shown |-> {}, failed |-> {}, forgotten |-> {}]
  /\ router = Idle
  /\ task = [m \in Replies |-> NoReply("idle")]
  /\ wire = << >>
  /\ app = [asked |-> [r \in Requests |-> 0], open |-> {}]

-----------------------------------------------------------------------------
(* RuntimeState.                                                            *)

\* current_approval, as a set of at most one
Current(c) == {pending.queue[c][i] : i \in DOMAIN pending.queue[c] \cap {1}}
Filed(c) == {pending.queue[c][i] : i \in DOMAIN pending.queue[c]}

\* push_approval
Push(p, c, a) ==
  IF Key(a) \in p.keys THEN p
  ELSE [queue |-> [p.queue EXCEPT ![c] = Append(@, a)], keys |-> p.keys \cup {Key(a)}]

Places(q, id) == {i \in DOMAIN q : Key(q[i]) = id}
Without(q, i) == [j \in 1..(Len(q) - 1) |-> IF j < i THEN q[j] ELSE q[j + 1]]

\* resolve_approval_request_with_context: the approval leaves its queue, of
\* which there is at most one (KeysMatchQueues) ...
Resolve(p, id) ==
  [queue |-> [c \in Convs |->
     LET q == p.queue[c]
     IN  IF Places(q, id) = {} THEN q ELSE Without(q, CHOOSE i \in Places(q, id) : TRUE)],
   keys |-> p.keys \ {id}]

\* seeded fault: was_current is not asked for
NextWhicheverLeft(p, id) ==
  {p.queue[c][i] : c \in {d \in Convs : Places(p.queue[d], id) # {} /\ Len(p.queue[d]) > 1}, i \in {2}}

\* ... and if it was the current one, the next becomes current
NextCurrent(p, id) ==
  {p.queue[c][2] : c \in {d \in Convs : Len(p.queue[d]) > 1 /\ Key(p.queue[d][1]) = id}}

\* enqueue_approval
Enqueued(A) == IF A = {} THEN outbox ELSE Append(outbox, CHOOSE a \in A : TRUE)

-----------------------------------------------------------------------------
(* codex_event_router, one notice after the other.                          *)

\* without a route for its thread an approval is dropped
RouterTake ==
  /\ router.pc = "idle" /\ wire # << >>
  /\ \/ router' = [pc |-> Head(wire).kind, next |-> {Head(wire).approval}]
     \/ Head(wire).kind = "asked" /\ UNCHANGED router
  /\ wire' = Tail(wire)
  /\ UNCHANGED <<pending, outbox, chat, task, app>>

\* the prompt is to be sent now if nothing is pending yet
RouterPush ==
  /\ router.pc = "asked"
  /\ \E a \in router.next :
       LET c == ConvOf[a.req]
           first == pending.queue[c] = << >> /\ Key(a) \notin pending.keys
       IN  /\ pending' = Push(pending, c, a)
           /\ router' = IF first THEN [pc |-> "send", next |-> {a}] ELSE Idle
  /\ UNCHANGED <<outbox, chat, task, wire, app>>

\* serverRequest/resolved
RouterResolve ==
  /\ router.pc = "resolved"
  /\ \E a \in router.next :
       /\ pending' = Resolve(pending, Key(a))
       /\ router' = [pc |-> "send", next |-> NextCurrent(pending, Key(a))]
  /\ UNCHANGED <<outbox, chat, task, wire, app>>

RouterSend ==
  /\ router.pc = "send"
  /\ outbox' = Enqueued(router.next)
  /\ router' = Idle
  /\ UNCHANGED <<pending, chat, task, wire, app>>

\* the outbound worker; a prompt the platform refuses is given up
WorkerSend ==
  /\ outbox # << >>
  /\ \/ chat' = [chat EXCEPT !.shown = @ \cup {Head(outbox)}]
     \/ chat' = [chat EXCEPT !.failed = @ \cup {Head(outbox)}]
  /\ outbox' = Tail(outbox)
  /\ UNCHANGED <<pending, router, task, wire, app>>

-----------------------------------------------------------------------------
(* The handler of one reply.                                                *)

At(m, pc) == task[m].pc = pc
End(m) == task' = [task EXCEPT ![m] = NoReply("done")]
Chosen(m, A) == task' = [task EXCEPT ![m] = [NoReply("answer") EXCEPT !.chosen = A]]

\* a card names the request; so does a button, by its fingerprint
Ways(platform) == CASE platform = "feishu" -> {"card", "text"}
                    [] platform = "telegram" -> {"button", "text"}
                    [] platform = "wechat" -> {"text"}

\* a user reacts to a prompt in the chat
Reply(m) ==
  /\ At(m, "idle")
  /\ \E a \in chat.shown : \E how \in Ways(PlatformOf[ConvOf[a.req]]) :
       task' = [task EXCEPT ![m].pc = how, ![m].id = Key(a), ![m].chosen = {a}]
  /\ UNCHANGED <<pending, outbox, chat, router, wire, app>>

Conv(m) == {ConvOf[a.req] : a \in task[m].chosen}

\* resolve_approval_reply without a request key: the current approval
FindText(m) ==
  /\ At(m, "text")
  /\ \E c \in Conv(m) : IF Current(c) = {} THEN End(m) ELSE Chosen(m, Current(c))
  /\ UNCHANGED <<pending, outbox, chat, router, wire, app>>

\* resolve_approval_button_reply
FindButton(m) ==
  /\ At(m, "button")
  /\ \E c \in Conv(m) :
       IF \E a \in Current(c) : Key(a) = task[m].id THEN Chosen(m, Current(c)) ELSE End(m)
  /\ UNCHANGED <<pending, outbox, chat, router, wire, app>>

\* resolve_approval_reply with a request key: first found, then asked
\* whether it is the current one
FindCard(m) ==
  /\ At(m, "card")
  /\ LET found == {a \in UNION {Filed(c) : c \in Convs} : Key(a) = task[m].id}
     IN  IF found = {} THEN End(m)
         ELSE task' = [task EXCEPT ![m].pc = "check", ![m].chosen = found]
  /\ UNCHANGED <<pending, outbox, chat, router, wire, app>>

CheckCard(m) ==
  /\ At(m, "check")
  /\ IF \E c \in Conv(m) : \E a \in Current(c) : Key(a) = task[m].id
     THEN Chosen(m, task[m].chosen) ELSE End(m)
  /\ UNCHANGED <<pending, outbox, chat, router, wire, app>>

\* send_response_for_client fails or goes through
Answer(m) ==
  /\ At(m, "answer")
  /\ End(m) \/ task' = [task EXCEPT ![m].pc = "resolve"]
  /\ UNCHANGED <<pending, outbox, chat, router, wire, app>>

\* submit_approval_decision; Telegram and WeChat then confirm the reply
TakeOut(m) ==
  /\ At(m, "resolve")
  /\ \E a \in task[m].chosen :
       /\ pending' = Resolve(pending, Key(a))
       /\ task' = [task EXCEPT
            ![m].pc = IF PlatformOf[ConvOf[a.req]] = "feishu" THEN "next" ELSE "confirm",
            ![m].next = NextCurrent(pending, Key(a))]
  /\ UNCHANGED <<outbox, chat, router, wire, app>>

\* a confirmation that cannot be sent ends the handler
Confirm(m) ==
  /\ At(m, "confirm")
  /\ \/ task' = [task EXCEPT ![m].pc = "next"] /\ UNCHANGED chat
     \/ End(m) /\ chat' = [chat EXCEPT !.forgotten = @ \cup task[m].next]
  /\ UNCHANGED <<pending, outbox, router, wire, app>>

\* send_next_approval
SendNext(m) ==
  /\ At(m, "next")
  /\ outbox' = Enqueued(task[m].next)
  /\ End(m)
  /\ UNCHANGED <<pending, chat, router, wire, app>>

-----------------------------------------------------------------------------
(* The app-servers.                                                         *)

AppAsk(r) ==
  /\ Len(wire) < MaxWire /\ app.asked[r] < MaxAsks /\ (app.asked[r] = 0 \/ r \in app.open)
  /\ app' = [asked |-> [app.asked EXCEPT ![r] = @ + 1], open |-> app.open \cup {r}]
  /\ wire' = Append(wire, Notice("asked", [req |-> r, ask |-> app'.asked[r]]))
  /\ UNCHANGED <<pending, outbox, chat, router, task>>

\* answered here or elsewhere, or its turn is over
AppSettle(r) ==
  /\ r \in app.open /\ Len(wire) < MaxWire
  /\ app' = [app EXCEPT !.open = @ \ {r}]
  /\ wire' = Append(wire, Notice("resolved", [req |-> r, ask |-> app.asked[r]]))
  /\ UNCHANGED <<pending, outbox, chat, router, task>>

\* a connection closes, or the bridge lags behind the broadcast; every
\* notice comes to the head
Lost ==
  /\ wire # << >>
  /\ wire' = Tail(wire)
  /\ UNCHANGED <<pending, outbox, chat, router, task, app>>

-----------------------------------------------------------------------------
RouterStep == RouterTake \/ RouterPush \/ RouterResolve \/ RouterSend
ReplyStep(m) ==
  \/ FindText(m) \/ FindButton(m) \/ FindCard(m) \/ CheckCard(m)
  \/ Answer(m) \/ TakeOut(m) \/ Confirm(m) \/ SendNext(m)

Next ==
  \/ RouterStep \/ WorkerSend
  \/ \E m \in Replies : Reply(m) \/ ReplyStep(m)
  \/ \E r \in Requests : AppAsk(r) \/ AppSettle(r)
  \/ Lost

Spec == Init /\ [][Next]_vars
-----------------------------------------------------------------------------
(* Properties.                                                              *)

KeysMatch(p) ==
  /\ \A c \in Convs : \A i \in DOMAIN p.queue[c] : Key(p.queue[c][i]) \in p.keys
  /\ \A id \in p.keys : \E c \in Convs : \E i \in DOMAIN p.queue[c] : Key(p.queue[c][i]) = id
  /\ \A c, d \in Convs : \A i \in DOMAIN p.queue[c] : \A j \in DOMAIN p.queue[d] :
       Key(p.queue[c][i]) = Key(p.queue[d][j]) => c = d /\ i = j

(* The set of pending keys is that of the approvals in the queues, and no   *)
(* key is queued twice: a key left behind would turn every later request    *)
(* with that id into a "replayed" one that nobody is asked about.           *)
KeysMatchQueues == pending.queue \in [Convs -> Seq(Approvals)] /\ KeysMatch(pending)

OnTheWay == (IF router.pc = "send" THEN router.next ELSE {}) \cup UNION {task[m].next : m \in Replies}
Prompted == chat.shown \cup chat.failed \cup {outbox[i] : i \in DOMAIN outbox}

(* Only the current approval of a conversation is shown: a pending one that *)
(* is prompted for, or about to be, is at the head of its queue, with the   *)
(* router and any number of replies taking approvals out.                   *)
OnlyCurrentIsPrompted ==
  \A c \in Convs : \A a \in Filed(c) :
    a \in Prompted \cup OnTheWay => a \in Current(c)

(* Every current approval has been prompted for, or whoever made it current *)
(* is about to: none is overlooked, whether its predecessor was answered    *)
(* here, settled elsewhere, or both at once.  Left out are those forgotten  *)
(* with a confirmation that failed.                                         *)
CurrentIsPrompted ==
  \A c \in Convs : Current(c) \subseteq Prompted \cup OnTheWay \cup chat.forgotten

(* The current approval of a conversation is the one that is shown: none    *)
(* before its turn, and none overlooked.                                    *)
OneIsPrompted == OnlyCurrentIsPrompted /\ CurrentIsPrompted

-----------------------------------------------------------------------------
(* What a document says and the code does not do.                           *)

(* After a reply the next queued prompt is sent (respond_to_pending_approval*)
(* and its siblings): the new current approval is not forgotten.            *)
NextIsPrompted == \A c \in Convs : Current(c) \cap chat.forgotten = {}
=============================================================================
