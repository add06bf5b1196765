------------------------------- MODULE TurnGate -------------------------------
(***************************************************************************)
(* The turn gate of the IM side (im_runtime.rs, im/core/turn.rs): which    *)
(* conversation a Codex thread is bound to, and whether a message may start*)
(* a turn on it.  Every inbound message is handled by a task of its own    *)
(* (bridge.rs); the gate is closed by the task that starts a turn and by   *)
(* "turn/started", and opened by "turn/completed", which is noted twice:   *)
(* by the server-work task of the connection (server_messages.rs) and,     *)
(* after the answer was sent to the chat, by the event router of the       *)
(* bridge (im/events.rs).                                                  *)
(*                                                                         *)
(* The app-server is external.  It answers turn/start before it announces  *)
(* the turn and announces it before it completes it; what it sends for one *)
(* client is worked off in order.                                          *)
(***************************************************************************)
EXTENDS Naturals, Sequences, FiniteSets

CONSTANTS Convs,      \* IM conversations; each is also one remote client
          Threads,    \* Codex threads
          Messages,   \* inbound messages, each handled once
          ConvOf,     \* the conversation a message belongs to
          CommandsOf, \* what it may be: "text", "stop" (/s), "quit" (/q), "resume"
          MaxTurns,   \* bound: turns the app-server starts
          MaxIdle,    \* bound: idle statuses it announces
          MaxAsks,    \* bound: approvals it asks for
          Lossy       \* notices may be lost with a connection

ASSUME MessagesAssumption ==
  /\ ConvOf \in [Messages -> Convs]
  /\ CommandsOf \in [Messages -> SUBSET {"text", "stop", "quit", "resume"}]
ASSUME BoundsAssumption == MaxTurns \in Nat /\ MaxIdle \in Nat /\ MaxAsks \in Nat /\ Lossy \in BOOLEAN

VARIABLES runtime,  \* RuntimeState: routes, gate, origins
          client,   \* current thread and turn of each remote client
          task,     \* the task that handles each message
          wire,     \* notices sent to each client, not yet worked off
          work,     \* what the server-work task of each client is doing
          bridge,   \* the notification broadcast, as the bridge sees it
          router,   \* the notification codex_event_router is handling
          app       \* external: running turns, subscribers of a thread

gateVars == <<runtime, client, task, wire, work, bridge, router, app>>

NoTurn == 0
NoConv == "none"
NoThread == "none"
NoInbound == "none"

Notice(kind, t, k, m) == [kind |-> kind, thread |-> t, turn |-> k, msg |-> m]
Nothing == Notice("idle", NoThread, NoTurn, NoInbound)
\* the router keeps the route it looked up
Routed(n, c) == [notice |-> n, conv |-> c]
NotRouting == Routed(Nothing, NoConv)

GateInit ==
  /\ runtime = [route |-> [t \in Threads |-> NoConv], current |-> [t \in Threads |-> NoTurn],
                starting |-> {}, origin |-> {}, late |-> {}]
  /\ client = [c \in Convs |-> [thread |-> NoThread, turn |-> NoTurn]]
  /\ task = [m \in Messages |-> [pc |-> "idle", command |-> "none", thread |-> NoThread,
                                 turn |-> NoTurn, result |-> "none"]]
  /\ wire = [c \in Convs |-> << >>]
  /\ work = [c \in Convs |-> Nothing]
  /\ bridge = << >>
  /\ router = NotRouting
  /\ app = [running |-> [t \in Threads |-> {}], subs |-> [t \in Threads |-> {}],
            turns |-> 0, idles |-> 0, asks |-> 0]

-----------------------------------------------------------------------------
(* RuntimeState.  late holds the messages received before the latest start  *)
(* or end of a turn on a thread: the two timestamps and received_at_ms.     *)

Received == {m \in Messages : task[m].pc \in {"check", "lookup", "gate"}}

\* mark_turn_started
MarkTurnStarted(r, t, k) ==
  [r EXCEPT !.starting = @ \ {t}, !.current[t] = k, !.late = @ \cup (Received \X {t})]

\* mark_turn_completed: whichever turn the thread has is over
MarkTurnCompleted(r, t, k) ==
  [r EXCEPT !.starting = @ \ {t}, !.current[t] = NoTurn,
            !.origin = @ \ {IF k # NoTurn THEN k ELSE r.current[t]},
            !.late = @ \cup (Received \X {t})]

Bound(r, c) == {t \in Threads : r.route[t] = c}

\* unbind_routes_for_conversation_with_reason
Unbind(r, c) ==
  LET T == Bound(r, c)
  IN  [r EXCEPT !.route = [t \in Threads |-> IF t \in T THEN NoConv ELSE @[t]],
                !.current = [t \in Threads |-> IF t \in T THEN NoTurn ELSE @[t]],
                !.starting = @ \ T,
                !.origin = @ \ {r.current[t] : t \in T},
                !.late = {p \in @ : p[2] \notin T}]

\* bind_thread_to_route
Bind(r, c, t) == [Unbind(r, c) EXCEPT !.route[t] = c]

-----------------------------------------------------------------------------
(* The handler of one message (the flows of Feishu, Telegram and WeChat     *)
(* agree in these steps).                                                   *)

At(m, pc) == task[m].pc = pc
Goto(m, pc) == task' = [task EXCEPT ![m].pc = pc]
End(m, result) == task' = [task EXCEPT ![m].pc = "done", ![m].result = result]
Conv(m) == ConvOf[m]

Receive(m) ==
  /\ At(m, "idle")
  /\ \E x \in CommandsOf[m] :
       task' = [task EXCEPT ![m].pc = IF x = "resume" THEN "resume" ELSE "check", ![m].command = x]
  /\ UNCHANGED <<runtime, client, wire, work, bridge, router, app>>

\* active_turn_for_message: the thread of the conversation with its turn
Active(m) == {t \in Bound(runtime, Conv(m)) : runtime.current[t] # NoTurn}

CheckText(m) ==
  /\ At(m, "check") /\ task[m].command = "text"
  /\ IF Active(m) # {} THEN End(m, "busy") ELSE Goto(m, "lookup")
  /\ UNCHANGED <<runtime, client, wire, work, bridge, router, app>>

CheckStop(m) ==
  /\ At(m, "check") /\ task[m].command \in {"stop", "quit"}
  /\ \/ \E t \in Active(m) :
          task' = [task EXCEPT ![m].pc = "stopping", ![m].thread = t,
                               ![m].turn = runtime.current[t]]
     \/ /\ Active(m) = {}
        /\ IF task[m].command = "stop" THEN End(m, "noturn") ELSE Goto(m, "unbind")
  /\ UNCHANGED <<runtime, client, wire, work, bridge, router, app>>

\* after status_snapshot: live_thread_binding_for_route
Lookup(m) ==
  /\ At(m, "lookup")
  /\ \/ End(m, "disconnected")
     \/ Bound(runtime, Conv(m)) = {} /\ End(m, "nothread")
     \/ \E t \in Bound(runtime, Conv(m)) :
          task' = [task EXCEPT ![m].pc = "gate", ![m].thread = t]
  /\ UNCHANGED <<runtime, client, wire, work, bridge, router, app>>

\* try_mark_turn_starting and message_is_stale_for_latest_turn
Gate(m) ==
  /\ At(m, "gate")
  /\ LET t == task[m].thread
     IN  IF runtime.current[t] # NoTurn \/ t \in runtime.starting
         THEN End(m, "busy") /\ UNCHANGED runtime
         ELSE IF <<m, t>> \in runtime.late
         THEN End(m, "expired") /\ UNCHANGED runtime
         ELSE /\ runtime' = [runtime EXCEPT !.starting = @ \cup {t}]
              /\ Goto(m, "request")
  /\ UNCHANGED <<client, wire, work, bridge, router, app>>

\* start_turn_for_client has the answer
NoteTurn(m) ==
  /\ At(m, "replied")
  /\ client' = [client EXCEPT ![Conv(m)] = [thread |-> task[m].thread, turn |-> task[m].turn]]
  /\ Goto(m, "noted")
  /\ UNCHANGED <<runtime, wire, work, bridge, router, app>>

MarkStarted(m) ==
  /\ At(m, "noted")
  /\ runtime' = [MarkTurnStarted(runtime, task[m].thread, task[m].turn)
                   EXCEPT !.origin = @ \cup {task[m].turn}]
  /\ End(m, "started")
  /\ UNCHANGED <<client, wire, work, bridge, router, app>>

Requesting(m) == At(m, "request") \/ At(m, "asked")

\* seeded faults: the gate is not opened again; there is no timeout
FailOnlyUnasked(m) ==
  /\ At(m, "request")
  /\ runtime' = [runtime EXCEPT !.starting = @ \ {task[m].thread}]
  /\ End(m, "failed")
  /\ UNCHANGED <<client, wire, work, bridge, router, app>>

FailKeepsGate(m) ==
  /\ Requesting(m)
  /\ End(m, "failed")
  /\ UNCHANGED <<runtime, client, wire, work, bridge, router, app>>

\* the request fails: not connected, refused, or timed out
Fail(m) ==
  /\ Requesting(m)
  /\ runtime' = [runtime EXCEPT !.starting = @ \ {task[m].thread}]
  /\ End(m, "failed")
  /\ UNCHANGED <<client, wire, work, bridge, router, app>>

\* "thread not found": the conversation is unbound
Stale(m) ==
  /\ At(m, "request")
  /\ runtime' = Unbind(runtime, Conv(m))
  /\ End(m, "stale")
  /\ UNCHANGED <<client, wire, work, bridge, router, app>>

\* /s and /q wait for the answer to turn/interrupt; /q goes on without it
StopFailed(m) ==
  /\ At(m, "stopping") \/ At(m, "stopasked")
  /\ IF task[m].command = "stop" THEN End(m, "failed") ELSE Goto(m, "stopped")
  /\ UNCHANGED <<runtime, client, wire, work, bridge, router, app>>

\* clear_turn_for_client, clear_thread_for_client
ClearClient(m) ==
  /\ At(m, "stopped")
  /\ LET c == Conv(m)
     IN  client' = IF task[m].command = "stop"
                   THEN [client EXCEPT ![c].turn = IF @ = task[m].turn THEN NoTurn ELSE @]
                   ELSE [client EXCEPT ![c] = IF @.thread = task[m].thread
                                              THEN [thread |-> NoThread, turn |-> NoTurn] ELSE @]
  /\ Goto(m, "cleared")
  /\ UNCHANGED <<runtime, wire, work, bridge, router, app>>

MarkStopped(m) ==
  /\ At(m, "cleared")
  /\ runtime' = MarkTurnCompleted(runtime, task[m].thread, task[m].turn)
  /\ IF task[m].command = "stop" THEN End(m, "stopped") ELSE Goto(m, "unbind")
  /\ UNCHANGED <<client, wire, work, bridge, router, app>>

\* clear_thread_binding
Quit(m) ==
  /\ At(m, "unbind")
  /\ runtime' = Unbind(runtime, Conv(m))
  /\ End(m, "quit")
  /\ UNCHANGED <<client, wire, work, bridge, router, app>>

\* resume_and_bind_thread (create_and_bind_thread with a new thread): the
\* answer makes the thread the client's current one, then it is bound
Resume(m) ==
  /\ At(m, "resume")
  /\ \/ End(m, "failed") /\ UNCHANGED <<client, app>>
     \/ \E t \in Threads :
          /\ client' = [client EXCEPT ![Conv(m)] =
                          IF @.thread = t THEN @ ELSE [thread |-> t, turn |-> NoTurn]]
          /\ app' = [app EXCEPT !.subs[t] = @ \cup {Conv(m)}]
          /\ task' = [task EXCEPT ![m].pc = "bind", ![m].thread = t]
  /\ UNCHANGED <<runtime, wire, work, bridge, router>>

BindThread(m) ==
  /\ At(m, "bind")
  /\ runtime' = Bind(runtime, Conv(m), task[m].thread)
  /\ End(m, "bound")
  /\ UNCHANGED <<client, wire, work, bridge, router, app>>

-----------------------------------------------------------------------------
(* The external app-server.                                                 *)

Send(w, cs, n) == [c \in Convs |-> IF c \in cs THEN Append(w[c], n) ELSE w[c]]

AppStart(m) ==
  /\ At(m, "request") /\ app.turns < MaxTurns
  /\ LET t == task[m].thread
         k == app.turns + 1
     IN  /\ app' = [app EXCEPT !.turns = k, !.running[t] = @ \cup {k},
                               !.subs[t] = @ \cup {Conv(m)}]
         /\ wire' = Send(Send(wire, {Conv(m)}, Notice("reply", t, k, m)),
                         app'.subs[t], Notice("started", t, k, NoInbound))
  /\ Goto(m, "asked")
  /\ UNCHANGED <<runtime, client, work, bridge, router>>

AppComplete(t) ==
  /\ \E k \in app.running[t] :
       /\ app' = [app EXCEPT !.running[t] = @ \ {k}]
       /\ wire' = Send(wire, app.subs[t], Notice("completed", t, k, NoInbound))
  /\ UNCHANGED <<runtime, client, task, work, bridge, router>>

\* thread/status/changed to idle, notLoaded or systemError
AppIdle(t) ==
  /\ app.running[t] = {} /\ app.turns > 0 /\ app.idles < MaxIdle
  /\ app' = [app EXCEPT !.idles = @ + 1]
  /\ wire' = Send(wire, app.subs[t], Notice("status", t, NoTurn, NoInbound))
  /\ UNCHANGED <<runtime, client, task, work, bridge, router>>

\* a server request that asks for an approval
AppAsk(t) ==
  /\ app.running[t] # {} /\ app.asks < MaxAsks
  /\ app' = [app EXCEPT !.asks = @ + 1]
  /\ wire' = Send(wire, app.subs[t], Notice("approval", t, NoTurn, NoInbound))
  /\ UNCHANGED <<runtime, client, task, work, bridge, router>>

AppInterrupt(m) ==
  /\ At(m, "stopping")
  /\ LET t == task[m].thread
         k == task[m].turn
         answered == Send(wire, {Conv(m)}, Notice("reply", t, k, m))
     IN  /\ wire' = IF k \in app.running[t]
                    THEN Send(answered, app.subs[t], Notice("completed", t, k, NoInbound))
                    ELSE answered
         /\ app' = [app EXCEPT !.running[t] = @ \ {k}]
  /\ Goto(m, "stopasked")
  /\ UNCHANGED <<runtime, client, work, bridge, router>>

\* a connection closes: what was sent on it and not worked off is gone
Lost(c) ==
  /\ Lossy /\ (wire[c] # << >> \/ work[c] # Nothing)
  /\ wire' = [wire EXCEPT ![c] = << >>]
  /\ work' = [work EXCEPT ![c] = Nothing]
  /\ UNCHANGED <<runtime, client, task, bridge, router, app>>

-----------------------------------------------------------------------------
(* The server-work task of a client: observe_app_server_message.            *)

\* should_track_notification_thread_for_client
Tracked(c, t) ==
  \/ runtime.route[t] = c
  \/ client[c].thread = t
  \/ \E m \in Messages : /\ ConvOf[m] = c /\ task[m].thread = t
                         /\ task[m].pc \in {"request", "asked", "stopping", "stopasked"}

Next1(c, kind) == work[c] = Nothing /\ wire[c] # << >> /\ Head(wire[c]).kind = kind
Taken(c) == wire' = [wire EXCEPT ![c] = Tail(@)]

\* the answer of a request still pending; that to turn/start names the
\* client's current turn
TakeReply(c) ==
  /\ Next1(c, "reply") /\ Taken(c)
  /\ LET n == Head(wire[c])
     IN  IF At(n.msg, "asked")
         THEN /\ task' = [task EXCEPT ![n.msg].pc = "replied", ![n.msg].turn = n.turn]
              /\ client' = [client EXCEPT ![c] = [thread |-> n.thread, turn |-> n.turn]]
         ELSE /\ IF At(n.msg, "stopasked") THEN Goto(n.msg, "stopped") ELSE UNCHANGED task
              /\ UNCHANGED client
  /\ UNCHANGED <<runtime, work, bridge, router, app>>

\* the thread is not the client's, or the connection is not the selected one
Ignore(c) ==
  /\ work[c] = Nothing /\ wire[c] # << >> /\ Head(wire[c]).kind # "reply"
  /\ Lossy \/ ~Tracked(c, Head(wire[c]).thread)
  /\ Taken(c)
  /\ UNCHANGED <<runtime, client, task, work, bridge, router, app>>

TakeStarted(c) ==
  /\ Next1(c, "started") /\ Tracked(c, Head(wire[c]).thread) /\ Taken(c)
  /\ LET n == Head(wire[c])
     IN  /\ client' = [client EXCEPT ![c] = [thread |-> n.thread, turn |-> n.turn]]
         /\ bridge' = Append(bridge, n)
  /\ UNCHANGED <<runtime, task, work, router, app>>

TakeCompleted(c) ==
  /\ Next1(c, "completed") /\ Tracked(c, Head(wire[c]).thread) /\ Taken(c)
  /\ LET n == Head(wire[c])
     IN  /\ runtime' = MarkTurnCompleted(runtime, n.thread, n.turn)
         /\ client' = [client EXCEPT ![c].turn =
                         IF client[c].thread = n.thread THEN NoTurn ELSE @]
         /\ bridge' = Append(bridge, n)
  /\ UNCHANGED <<task, work, router, app>>

TakeApproval(c) ==
  /\ Next1(c, "approval") /\ Tracked(c, Head(wire[c]).thread) /\ Taken(c)
  /\ bridge' = Append(bridge, Head(wire[c]))
  /\ UNCHANGED <<runtime, client, task, work, router, app>>

\* observe_thread_status_changed: mark, take the client's turn, mark again
TakeStatus(c) ==
  /\ Next1(c, "status") /\ Tracked(c, Head(wire[c]).thread) /\ Taken(c)
  /\ runtime' = MarkTurnCompleted(runtime, Head(wire[c]).thread, NoTurn)
  /\ work' = [work EXCEPT ![c] = Head(wire[c])]
  /\ UNCHANGED <<client, task, bridge, router, app>>

StatusTakesTurn(c) ==
  /\ work[c].kind = "status"
  /\ IF client[c].thread = work[c].thread /\ client[c].turn # NoTurn
     THEN /\ client' = [client EXCEPT ![c].turn = NoTurn]
          /\ work' = [work EXCEPT ![c].kind = "again", ![c].turn = client[c].turn]
     ELSE work' = [work EXCEPT ![c] = Nothing] /\ UNCHANGED client
  /\ UNCHANGED <<runtime, task, wire, bridge, router, app>>

StatusMarksAgain(c) ==
  /\ work[c].kind = "again"
  /\ runtime' = MarkTurnCompleted(runtime, work[c].thread, work[c].turn)
  /\ work' = [work EXCEPT ![c] = Nothing]
  /\ UNCHANGED <<client, task, wire, bridge, router, app>>

-----------------------------------------------------------------------------
(* codex_event_router: handle_codex_notification, one after the other.      *)

\* route_for_codex_output, route_for_thread: without a route only
\* turn/completed is of interest
RouterTake ==
  /\ router = NotRouting /\ bridge # << >>
  /\ LET n == Head(bridge)
         c == runtime.route[n.thread]
     IN  router' = IF c = NoConv /\ n.kind # "completed" THEN NotRouting ELSE Routed(n, c)
  /\ bridge' = Tail(bridge)
  /\ UNCHANGED <<runtime, client, task, wire, work, app>>

RouterHas(kind) == router.notice.kind = kind
RouterDone ==
  /\ router' = NotRouting
  /\ UNCHANGED <<client, task, wire, work, bridge, app>>

RouterStarted ==
  /\ RouterHas("started")
  /\ runtime' = MarkTurnStarted(runtime, router.notice.thread, router.notice.turn)
  /\ RouterDone

\* marked after the answer was sent to the chat
RouterCompleted ==
  /\ RouterHas("completed")
  /\ runtime' = MarkTurnCompleted(runtime, router.notice.thread, router.notice.turn)
  /\ RouterDone

\* the route is bound again before the approval is queued
RouterApproval ==
  /\ RouterHas("approval")
  /\ runtime' = [runtime EXCEPT !.route[router.notice.thread] = router.conv]
  /\ RouterDone

-----------------------------------------------------------------------------
HandlerStep(m) ==
  \/ CheckText(m) \/ CheckStop(m) \/ Lookup(m) \/ Gate(m) \/ NoteTurn(m) \/ MarkStarted(m)
  \/ Fail(m) \/ Stale(m) \/ StopFailed(m) \/ ClearClient(m) \/ MarkStopped(m) \/ Quit(m)
  \/ Resume(m) \/ BindThread(m)
WorkStep(c) ==
  \/ TakeReply(c) \/ Ignore(c) \/ TakeStarted(c) \/ TakeCompleted(c)
  \/ TakeApproval(c) \/ TakeStatus(c) \/ StatusTakesTurn(c) \/ StatusMarksAgain(c)

GateNext ==
  \/ \E m \in Messages : Receive(m) \/ HandlerStep(m) \/ AppStart(m) \/ AppInterrupt(m)
  \/ \E t \in Threads : AppComplete(t) \/ AppIdle(t) \/ AppAsk(t)
  \/ \E c \in Convs : WorkStep(c) \/ Lost(c)
  \/ RouterTake \/ RouterStarted \/ RouterCompleted \/ RouterApproval

GateSpec == GateInit /\ [][GateNext]_gateVars
\* tokio polls ready tasks and the timers of requests fire
GateFairness == \A m \in Messages : WF_gateVars(HandlerStep(m))

-----------------------------------------------------------------------------
(* Properties.                                                              *)

(* A task in the middle of a start or a stop knows its thread and turn, the *)
(* gate names turns of the app-server only, and a thread's turn is its own. *)
GateTypeOK ==
  /\ runtime.route \in [Threads -> Convs \cup {NoConv}]
  /\ runtime.current \in [Threads -> 0..app.turns]
  /\ runtime.starting \subseteq Threads /\ runtime.origin \subseteq 1..app.turns
  /\ \A m \in Messages :
       /\ task[m].pc \in {"gate", "request", "asked", "stopping", "bind"} => task[m].thread \in Threads
       /\ task[m].pc \in {"replied", "noted", "stopping", "stopped", "cleared"} => task[m].turn \in 1..app.turns
  /\ \A c \in Convs : client[c].thread \in Threads \cup {NoThread} /\ client[c].turn \in 0..app.turns

Starting(m) == task[m].pc \in {"request", "asked", "replied", "noted"}

(* A thread marked as starting has a task that is starting a turn on it and *)
(* will take the mark back: no sequence of completions, stops, bindings and *)
(* concurrent messages leaves the mark behind.  The one exception is a      *)
(* start refused with "thread not found", which unbinds the conversation    *)
(* and relies on the thread still being bound to it.                        *)
StartingIsOwned ==
  \A t \in runtime.starting :
    \E m \in Messages : task[m].thread = t /\ (Starting(m) \/ task[m].result = "stale")

(* A start comes to an end: the mark does not block a thread for good.      *)
StartingEnds ==
  \A t \in Threads :
    t \in runtime.starting ~>
      t \notin runtime.starting \/ \E m \in Messages : task[m].thread = t /\ task[m].result = "stale"

-----------------------------------------------------------------------------
(* What a test and a document say and the code does not do.                 *)

(* While one turn/start on a thread waits for its answer, the gate lets no  *)
(* other through (try_mark_turn_starting).                                  *)
ParallelStartsBlocked ==
  \A m, n \in Messages : m # n /\ Requesting(m) /\ Requesting(n) => task[m].thread # task[n].thread

(* A conversation is bound to at most one thread, whatever it resumes and   *)
(* quits at the same time (bind_route, bind_thread_to_route): otherwise     *)
(* live_thread_binding_for_route would pick one in map order.               *)
OneThreadPerConversation == \A c \in Convs : Cardinality(Bound(runtime, c)) <= 1
=============================================================================
