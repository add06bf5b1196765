---------------------------- MODULE RemoteControl ----------------------------
(***************************************************************************)
(* The remote-control backend of codexhub at work: WebSocket sessions with *)
(* their server-work queues (websocket.rs, server_work.rs,                 *)
(* server_messages.rs), requests of the IM side and of session discovery   *)
(* (session_api.rs, outbound.rs), the replay of pending requests           *)
(* (remote_control_backend.rs) and client recovery (recovery.rs), all over *)
(* the registry of RemoteConnections.                                      *)
(*                                                                         *)
(* One action is one critical section of RemoteControlState.inner together *)
(* with the code up to the next await that matters: the tokio tasks        *)
(* interleave between actions.  The app-server at the far end of each      *)
(* WebSocket is external: it knows the streams that were initialized on    *)
(* that socket, answers in any order, and may forget a stream.             *)
(***************************************************************************)
EXTENDS RemoteConnections, FiniteSets

CONSTANTS Callers,     \* requests; each is issued once
          KeyOf,       \* the client key each request is for
          Targeted,    \* requests that name a connection (session discovery)
          Idempotent,  \* requests should_retry_request_after_reinitialize admits
          Slots,       \* bound: recoveries started in one run
          QueueCap,    \* capacity of a server-work queue
          Cancellable  \* requests whose task may be aborted

Tasks == Callers \cup Slots \cup Epochs

ASSUME TasksAssumption == /\ Callers \cap Epochs = {} /\ Slots \cap Epochs = {}
                          /\ Callers \cap Slots = {}
ASSUME RequestsAssumption == /\ KeyOf \in [Callers -> Keys]
                             /\ \A c \in Callers \ Targeted : KeyOf[c] \in ImKeys
                             /\ Targeted \subseteq Callers
                             /\ Idempotent \subseteq Callers
                             /\ Cancellable \subseteq Callers
ASSUME QueueAssumption == QueueCap \in Nat \ {0}

VARIABLES pend,    \* union of the clients' pending maps
          up,      \* epochs whose socket tasks still run
          task,    \* the asynchronous call each task is in
          worker,  \* what each connection's server-work task is doing
          queue,   \* server-work items read but not yet processed
          app,     \* external: streams each app-server has a client for
          inbox,   \* external: messages each app-server has yet to answer
          reached  \* app-servers (by epoch) that got each request

vars == <<remote, pend, up, task, worker, queue, app, inbox, reached>>

(* The n-th id a task draws from REMOTE_REQUEST_ID is named after the task. *)
Ids == [by : Tasks, n : Nat \ {0}]
NoId == [by |-> 0, n |-> 0]
Entries == [key : Keys, id : Ids, epoch : Epochs, init : BOOLEAN]

(* pc of a task                                                             *)
(*   idle recwait ready resolve ensure decide init initsend initwait        *)
(*   reserve send wait retrywait       the steps of a request               *)
(*   reset recinit finish resub force  the steps of a recovery              *)
(*   done                              ended; "result" says how             *)
(*   ping                              the reader of a socket, pinging      *)
(* key is the resolved client key, ikey the one being initialized, n the    *)
(* number of ids drawn; "second" marks the retry of a request and the       *)
(* resubscribe phase of a recovery.                                         *)
IdleTask == [pc |-> "idle", key |-> NoKey, ikey |-> NoKey, epoch |-> None,
             stream |-> RootStream, n |-> 0, second |-> FALSE, result |-> "none"]

IdleWorker == [pc |-> "idle", key |-> NoKey, stream |-> RootStream,
               ua |-> "unknown", id |-> NoId, todo |-> {}]

ControlInit ==
  /\ RegistryInit
  /\ pend = {} /\ up = {}
  /\ task = [t \in Tasks |-> IF t \in Callers THEN [IdleTask EXCEPT !.key = KeyOf[t]]
                             ELSE IdleTask]
  /\ worker = [e \in Epochs |-> IdleWorker]
  /\ queue = [e \in Epochs |-> << >>]
  /\ app = [e \in Epochs |-> {}]
  /\ inbox = [e \in Epochs |-> {}]
  /\ reached = [c \in Callers |-> {}]

At(t, pc) == task[t].pc = pc
Goto(t, pc) == task' = [task EXCEPT ![t].pc = pc]
\* the call returns: its locals are gone
Ended(result) == [IdleTask EXCEPT !.pc = "done", !.result = result]
End(t, result) == task' = [task EXCEPT ![t] = Ended(result)]

CurrentId(t) == [by |-> t, n |-> task[t].n]
NextId(t) == [by |-> t, n |-> task[t].n + 1]
PendingAt(k, id) == {p \in pend : p.key = k /\ p.id = id}

\* a send on e reaches the socket writer
SendOk(e) == HasTx(remote, e) /\ e \in up

\* the app-server on e gets message id on stream s; a new initialize makes it
\* start the stream afresh, other messages of unknown streams are ignored
Deliver(e, s, id, init) ==
  /\ app' = [app EXCEPT ![e] = IF init THEN @ \cup {s} ELSE @]
  /\ inbox' = [inbox EXCEPT ![e] =
       IF init THEN {m \in @ : m.stream # s} \cup {[id |-> id, stream |-> s, init |-> TRUE]}
       ELSE IF s \in app[e] THEN @ \cup {[id |-> id, stream |-> s, init |-> FALSE]}
       ELSE @]

\* an app-server drops a repeated seq id of a stream it knows, so that only
\* the connections a request got to are recorded
Reach(t, e, s) ==
  reached' = IF t \in Callers /\ s \in app[e]
             THEN [reached EXCEPT ![t] = @ \cup {e}] ELSE reached

\* response_tx.send(result) for the ids in a set, if their receivers still live
Answered(ids, result) ==
  [t \in Tasks |->
     IF CurrentId(t) \in ids /\ task[t].pc \in {"send", "wait"} /\ task[t].result = "none"
     THEN [task[t] EXCEPT !.result = result] ELSE task[t]]

-----------------------------------------------------------------------------
(* A WebSocket session: open, lose, clean up.                               *)

SocketOpen ==
  /\ Open
  /\ LET e == remote'.next
     IN  /\ up' = up \cup {e}
         /\ task' = [task EXCEPT ![e] = [IdleTask EXCEPT !.pc = "ensure",
                                          !.key = remote'.dkey[e], !.epoch = e]]
  /\ UNCHANGED <<pend, worker, queue, app, inbox, reached>>

\* reader and writer exist once the connection's own initialize is sent; the
\* reader reads nothing while it pings
Running(e) == e \in up /\ At(e, "done")

DropSocket(e) ==
  /\ up' = up \ {e}
  /\ app' = [app EXCEPT ![e] = {}]
  /\ inbox' = [inbox EXCEPT ![e] = {}]

\* the reader or the writer ends, for whatever reason: the peer closed, a
\* heartbeat went unanswered, the work queue was full
SocketLost(e) ==
  /\ e \in up /\ (At(e, "done") \/ At(e, "ping"))
  /\ DropSocket(e)
  /\ UNCHANGED <<remote, pend, task, worker, queue, reached>>

\* server_work_task.abort() takes effect at an await of the task, which may
\* come after the cleanup below; a response sender it holds is dropped
WorkerAbort(e) ==
  /\ e \notin up
  /\ worker[e] # IdleWorker \/ queue[e] # << >>
  /\ worker' = [worker EXCEPT ![e] = IdleWorker]
  /\ queue' = [queue EXCEPT ![e] = << >>]
  /\ task' = IF worker[e].pc = "answer" THEN Answered({worker[e].id}, "closed") ELSE task
  /\ UNCHANGED <<remote, pend, up, app, inbox, reached>>

\* seeded faults: initialize entries stay; the legacy summary is not synchronized
SocketCleanupKeepsInitialize(e) ==
  /\ e \in remote.live \ up
  /\ remote' = CloseConnection(remote, e)
  /\ UNCHANGED <<pend, up, task, worker, queue, app, inbox, reached>>

SocketCleanupWithoutSync(e) ==
  /\ e \in remote.live \ up
  /\ pend' = {p \in pend : ~(p.init /\ p.epoch = e)}
  /\ remote' = [remote EXCEPT !.live = @ \ {e}]
  /\ UNCHANGED <<up, task, worker, queue, app, inbox, reached>>

SocketCleanup(e) ==
  /\ e \in remote.live \ up
  /\ pend' = {p \in pend : ~(p.init /\ p.epoch = e)}
  /\ remote' = CloseConnection(remote, e)
  /\ UNCHANGED <<up, task, worker, queue, app, inbox, reached>>

\* a frame that carries no work: mark_remote_ws_inbound or mark_remote_ws_pong
SocketFrame(e) ==
  /\ Running(e)
  /\ remote' = TouchConnection(remote, e)
  /\ UNCHANGED <<pend, up, task, worker, queue, app, inbox, reached>>

\* the reader's ping tick picks its targets; only default clients can be moved
\* away before they are marked, so the others are left out
AppPingTarget(e) ==
  /\ Running(e)
  /\ \E k \in remote.known \cap DefaultKeys :
       remote.cinit[k] /\ task' = [task EXCEPT ![e].pc = "ping", ![e].key = k]
  /\ UNCHANGED <<remote, pend, up, worker, queue, app, inbox, reached>>

\* mark_remote_app_ping makes sure of the client again; with its socket gone
\* the reader may be aborted before it
AppPingMark(e) ==
  /\ At(e, "ping")
  /\ \/ remote' = IF Exists(remote, e) THEN UseClient(remote, task[e].key) ELSE remote
     \/ e \notin up /\ UNCHANGED remote
  /\ End(e, "initialized")
  /\ UNCHANGED <<pend, up, worker, queue, app, inbox, reached>>

StatusSnapshot ==
  /\ remote' = SyncLegacy(Prune(remote))
  /\ UNCHANGED <<pend, up, task, worker, queue, app, inbox, reached>>

-----------------------------------------------------------------------------
(* Steps of a request, most of them shared with the initialization of a     *)
(* connection and with recovery.                                            *)

\* wait_for_recovery_if_needed
Begin(c) ==
  /\ c \in Callers \ Targeted /\ At(c, "idle")
  /\ Goto(c, IF task[c].key \in remote.known /\ remote.recovering[task[c].key]
             THEN "recwait" ELSE "ready")
  /\ UNCHANGED <<remote, pend, up, worker, queue, app, inbox, reached>>

\* discovery_connection_candidates_locked
Candidates(r) ==
  IF r.live = {} THEN IF r.connected /\ r.initialized THEN {r.epoch} ELSE {}
  ELSE {e \in r.live : r.init[e]}

BeginTargeted(c) ==
  /\ c \in Targeted /\ At(c, "idle")
  /\ \/ Candidates(remote) = {} /\ End(c, "failed")
     \/ \E e \in Candidates(remote) :
          task' = [task EXCEPT ![c].pc = "resolve", ![c].epoch = e]
  /\ UNCHANGED <<remote, pend, up, worker, queue, app, inbox, reached>>

Resolve(t) ==
  /\ At(t, "resolve")
  /\ task' = [task EXCEPT ![t].pc = "ensure",
                          ![t].key = ResolveOn(remote, task[t].epoch, @)]
  /\ UNCHANGED <<remote, pend, up, worker, queue, app, inbox, reached>>

\* the polling loop of wait_for_remote_control_initialized and what follows it
WaitNext == [recwait |-> "ready", initwait |-> "reserve", retrywait |-> "idle",
             recinit |-> "finish"]
Waiting(t) == task[t].pc \in DOMAIN WaitNext
Initialized(k) == remote.connected /\ k \in remote.known /\ remote.cinit[k]

WaitOver(t) ==
  /\ Waiting(t) /\ Initialized(task[t].key)
  /\ Goto(t, WaitNext[task[t].pc])
  /\ UNCHANGED <<remote, pend, up, worker, queue, app, inbox, reached>>

\* disconnected, or REMOTE_CONTROL_REINITIALIZE_RETRY_TIMEOUT is up
WaitFailed(t) ==
  /\ Waiting(t) /\ ~Initialized(task[t].key)
  /\ IF At(t, "recinit") THEN Goto(t, "force") ELSE End(t, "failed")
  /\ UNCHANGED <<remote, pend, up, worker, queue, app, inbox, reached>>

\* ensure_remote_control_client_ready, first section
Ready(c) ==
  /\ At(c, "ready")
  /\ IF ~remote.connected THEN End(c, "failed") /\ UNCHANGED remote
     ELSE /\ remote' = SyncLegacy(remote)
          /\ IF remote'.active = None THEN End(c, "failed")
             ELSE task' = [task EXCEPT ![c].pc = "ensure", ![c].epoch = remote'.active]
  /\ UNCHANGED <<pend, up, worker, queue, app, inbox, reached>>

\* where a task goes once its client is, or is being, initialized
AfterInit(t) ==
  IF t \in Epochs THEN "done"
  ELSE IF t \in Slots THEN (IF task[t].second THEN "reserve" ELSE "recinit")
  ELSE IF t \in Targeted THEN "reserve" ELSE "initwait"

\* ensure_remote_control_client_initialized returns
InitStepDone(t) ==
  IF AfterInit(t) = "done" THEN End(t, "initialized")
  ELSE task' = [task EXCEPT ![t].pc = AfterInit(t), ![t].ikey = NoKey,
                            ![t].stream = RootStream]

Initializing(k, e) == \E p \in pend : p.init /\ p.key = k /\ p.epoch = e
UsableOn(r, k, e) == r.cinit[k] /\ (r.live = {} \/ (e \in r.live /\ r.init[e]))

\* ensure_remote_control_client_initialized: the key is resolved in a section of
\* its own, before the one that decides
Ensure(t) ==
  /\ At(t, "ensure")
  /\ task' = [task EXCEPT ![t].pc = "decide",
                          ![t].ikey = ResolveOn(remote, task[t].epoch, task[t].key)]
  /\ UNCHANGED <<remote, pend, up, worker, queue, app, inbox, reached>>

Decide(t) ==
  /\ At(t, "decide")
  /\ LET e == task[t].epoch
         k == task[t].ikey
         r == EnsureClient(remote, k)
     IN  IF ~Exists(remote, e)
         THEN InitStepDone(t) /\ UNCHANGED remote
         ELSE IF Initializing(k, e) \/ UsableOn(r, k, e)
         THEN InitStepDone(t) /\ remote' = r
         ELSE Goto(t, "init") /\ remote' = SyncIfDefault(r, k)
  /\ UNCHANGED <<pend, up, worker, queue, app, inbox, reached>>

\* send_initialize_for_client_on_connection: reserve, then send
InitReserve(t) ==
  /\ At(t, "init")
  /\ LET k == task[t].ikey
         r == EnsureClient(remote, k)
     IN  /\ remote' = SyncIfDefault(r, k)
         /\ pend' = pend \cup {[key |-> k, id |-> NextId(t), epoch |-> task[t].epoch,
                                init |-> TRUE]}
         /\ task' = [task EXCEPT ![t].pc = "initsend", ![t].n = @ + 1,
                                 ![t].stream = r.cstream[k]]
  /\ UNCHANGED <<up, worker, queue, app, inbox, reached>>

InitSend(t) ==
  /\ At(t, "initsend") /\ SendOk(task[t].epoch)
  /\ Deliver(task[t].epoch, task[t].stream, CurrentId(t), TRUE)
  /\ InitStepDone(t)
  /\ UNCHANGED <<remote, pend, up, worker, queue, reached>>

InitSendFailed(t) ==
  /\ At(t, "initsend") /\ ~SendOk(task[t].epoch)
  /\ pend' = pend \ PendingAt(task[t].ikey, CurrentId(t))
  /\ remote' = SyncIfDefault(remote, task[t].ikey)
  /\ End(t, "failed")
  /\ UNCHANGED <<up, worker, queue, app, inbox, reached>>

\* the section of request_once_with_timeout_for_client_inner that files the
\* request; "stale" is a heartbeat found overdue at this moment
OnConnection(t) == t \in Targeted \cup Slots
ReserveEpoch(t, r) == IF OnConnection(t) THEN task[t].epoch ELSE r.active
MayReserve(t, r, e) ==
  IF OnConnection(t) THEN Exists(r, e) /\ (r.live # {} => r.init[e])
  ELSE e # None

Reserve(t) ==
  /\ At(t, "reserve")
  /\ LET r0 == IF OnConnection(t) THEN remote ELSE SyncLegacy(remote)
         e  == ReserveEpoch(t, r0)
         k  == task[t].key
         r  == EnsureClient(r0, k)
     IN  \/ /\ remote' = r0 /\ End(t, "failed") /\ UNCHANGED pend  \* gone, or stale
         \/ /\ MayReserve(t, r0, e) /\ ~r.cinit[k]
            /\ remote' = r /\ End(t, "failed") /\ UNCHANGED pend
         \/ /\ MayReserve(t, r0, e) /\ r.cinit[k]
            /\ remote' = SyncIfDefault(r, k)
            /\ pend' = pend \cup {[key |-> k, id |-> NextId(t), epoch |-> e, init |-> FALSE]}
            /\ task' = [task EXCEPT ![t].pc = "send", ![t].n = @ + 1, ![t].epoch = e,
                                    ![t].stream = r.cstream[k]]
  /\ UNCHANGED <<up, worker, queue, app, inbox, reached>>

Send(t) ==
  /\ At(t, "send") /\ SendOk(task[t].epoch)
  /\ Deliver(task[t].epoch, task[t].stream, CurrentId(t), FALSE)
  /\ Reach(t, task[t].epoch, task[t].stream)
  /\ task' = [task EXCEPT ![t].pc = "wait", ![t].stream = RootStream]
  /\ UNCHANGED <<remote, pend, up, worker, queue>>

\* seeded fault: there is no timeout
GiveUpOnlyOnSend(t) ==
  /\ At(t, "send") /\ ~SendOk(task[t].epoch)
  /\ pend' = pend \ PendingAt(task[t].key, CurrentId(t))
  /\ remote' = SyncIfDefault(remote, task[t].key)
  /\ End(t, "failed")
  /\ UNCHANGED <<up, worker, queue, app, inbox, reached>>

\* forget the request: a failed send, and the timeout of an unanswered one
GiveUp(t) ==
  /\ \/ At(t, "send") /\ ~SendOk(task[t].epoch)
     \/ At(t, "wait") /\ task[t].result = "none"
  /\ pend' = pend \ PendingAt(task[t].key, CurrentId(t))
  /\ remote' = SyncIfDefault(remote, task[t].key)
  /\ End(t, "failed")
  /\ UNCHANGED <<up, worker, queue, app, inbox, reached>>

\* the response channel yields; request_with_timeout_for_client may try again
MayRetry(t) == t \in Idempotent \ Targeted /\ ~task[t].second /\ task[t].result = "reinit"

Receive(t) ==
  /\ At(t, "wait") /\ task[t].result # "none" /\ ~MayRetry(t)
  /\ End(t, task[t].result)
  /\ UNCHANGED <<remote, pend, up, worker, queue, app, inbox, reached>>

Retry(t) ==
  /\ At(t, "wait") /\ MayRetry(t)
  /\ task' = [task EXCEPT ![t].pc = "retrywait", ![t].second = TRUE, ![t].result = "none"]
  /\ UNCHANGED <<remote, pend, up, worker, queue, app, inbox, reached>>

\* the task that runs the request is aborted (stop_bridge_task): its future is
\* dropped where it stands, the pending entry stays
Cancel(c) ==
  /\ c \in Cancellable /\ task[c].pc \notin {"idle", "done"}
  /\ End(c, "cancelled")
  /\ UNCHANGED <<remote, pend, up, worker, queue, app, inbox, reached>>

-----------------------------------------------------------------------------
(* The external app-server, and the reader that queues what it sends.       *)

Room(e) == Len(queue[e]) < QueueCap

\* an answer arrives: mark_remote_ws_inbound, then the item is queued
AppAnswer(e) ==
  /\ Running(e) /\ Room(e)
  /\ \E m \in inbox[e], ua \in OpenKinds :
       /\ (~m.init \/ remote.kind[e] # "unknown") => ua = remote.kind[e]
       /\ inbox' = [inbox EXCEPT ![e] = @ \ {m}]
       /\ queue' = [queue EXCEPT ![e] =
            Append(@, [pong |-> FALSE, id |-> m.id, stream |-> m.stream, ua |-> ua])]
  /\ remote' = TouchConnection(remote, e)
  /\ UNCHANGED <<pend, up, task, worker, app, reached>>

AppForget(e) ==
  /\ Running(e) /\ Slots # {}
  /\ \E s \in app[e] :
       /\ app' = [app EXCEPT ![e] = @ \ {s}]
       /\ inbox' = [inbox EXCEPT ![e] = {m \in @ : m.stream # s}]
  /\ UNCHANGED <<remote, pend, up, task, worker, queue, reached>>

\* bound: no more "unknown" pongs than there are recoveries left to start
PongsQueued == UNION {{<<e, i>> : i \in {j \in DOMAIN queue[e] : queue[e][j].pong}} : e \in Epochs}
PongAllowed == Cardinality(PongsQueued) < Cardinality({x \in Slots : At(x, "idle")})

\* the ping of an initialized client (they go out on every connection) is
\* answered "unknown": record_remote_app_pong asks for a reinitialize
AppPongUnknown(e) ==
  /\ Running(e) /\ Room(e) /\ PongAllowed
  /\ \E k \in remote.known :
       LET s == remote.cstream[k]
       IN  /\ remote.cinit[k]
           /\ s \notin app[e] \/ \E m \in inbox[e] : m.init /\ m.stream = s
           /\ queue' = [queue EXCEPT ![e] =
                Append(@, [pong |-> TRUE, id |-> NoId, stream |-> s, ua |-> "unknown"])]
           /\ remote' = RecordPong(remote, e, k)
  /\ UNCHANGED <<pend, up, task, worker, app, inbox, reached>>

-----------------------------------------------------------------------------
(* The server-work task: one item at a time.                                *)

\* HashMap order decides among the clients that share a stream
LookedUp(s) == IF KeysForStream(remote, s) = {} THEN {NoKey} ELSE KeysForStream(remote, s)

\* run_remote_server_work_queue takes an answer: the pending entry is removed;
\* with an error for an initialize nothing else happens
TakeAnswer(e) ==
  /\ worker[e].pc = "idle" /\ queue[e] # << >>
  /\ LET item == Head(queue[e])
     IN  /\ ~item.pong
         /\ \E k \in LookedUp(item.stream), refused \in BOOLEAN :
              LET hits == PendingAt(k, item.id)
                  init == \E p \in hits : p.init
              IN  /\ pend' = pend \ hits
                  /\ remote' = IF k = Default THEN SyncDefault(remote) ELSE remote
                  /\ worker' = [worker EXCEPT ![e] =
                       IF hits = {} \/ (init /\ refused) THEN IdleWorker
                       ELSE IF init
                       THEN [IdleWorker EXCEPT !.pc = "flags", !.key = k, !.ua = item.ua,
                                               !.stream = item.stream]
                       ELSE [IdleWorker EXCEPT !.pc = "answer", !.id = item.id]]
  /\ queue' = [queue EXCEPT ![e] = Tail(@)]
  /\ UNCHANGED <<up, task, app, inbox, reached>>

\* handle_remote_app_pong_after_ack, start_remote_control_client_recovery
TakePong(e) ==
  /\ worker[e].pc = "idle" /\ queue[e] # << >>
  /\ LET item == Head(queue[e])
     IN  /\ item.pong
         /\ \E k \in LookedUp(item.stream) :
              IF k = NoKey \/ ~Exists(remote, e) \/ remote.recovering[k]
              THEN UNCHANGED <<remote, task>>
              ELSE \E x \in Slots :
                     /\ At(x, "idle")
                     /\ remote' = BeginRecovery(remote, k)
                     /\ task' = [task EXCEPT ![x].pc = "reset", ![x].key = k, ![x].epoch = e]
  /\ queue' = [queue EXCEPT ![e] = Tail(@)]
  /\ UNCHANGED <<pend, up, worker, app, inbox, reached>>

\* the connection and the client are marked initialized; the client may move
\* to the key of its kind, with its pending map
WorkerFlags(e) ==
  /\ worker[e].pc = "flags"
  /\ LET w  == worker[e]
         k2 == ResultKey(remote, e, w.key, w.stream, w.ua)
     IN  /\ remote' = InitializeResult(remote, e, w.key, w.stream, w.ua)
         /\ pend' = {IF p.key = w.key THEN [p EXCEPT !.key = k2] ELSE p : p \in pend}
         /\ worker' = [worker EXCEPT ![e].pc = "initialized", ![e].key = k2]
  /\ UNCHANGED <<up, task, queue, app, inbox, reached>>

\* send_initialized_for_stream; an error skips the replay
WorkerInitialized(e) ==
  /\ worker[e].pc = "initialized"
  /\ \E k \in LookedUp(worker[e].stream) :
       /\ remote' = SyncIfDefault(remote, k)
       /\ worker' = [worker EXCEPT ![e] =
            IF k # NoKey /\ SendOk(e) /\ worker[e].key # NoKey
            THEN [@ EXCEPT !.pc = "snapshot"] ELSE IdleWorker]
  /\ UNCHANGED <<pend, up, task, queue, app, inbox, reached>>

\* replay_pending_requests: copy the envelopes, then send them one by one
ToReplay(e, k) ==
  IF k \in remote.known /\ Exists(remote, e) /\ remote.cinit[k]
  THEN {p.id : p \in {q \in pend : q.key = k /\ ~q.init}} ELSE {}

WorkerSnapshot(e) ==
  /\ worker[e].pc = "snapshot"
  /\ LET ids == ToReplay(e, worker[e].key)
     IN  worker' = [worker EXCEPT ![e] =
           IF ids = {} THEN IdleWorker
           ELSE [@ EXCEPT !.pc = "replay", !.todo = ids, !.stream = remote.cstream[worker[e].key]]]
  /\ UNCHANGED <<remote, pend, up, task, queue, app, inbox, reached>>

WorkerReplay(e) ==
  /\ worker[e].pc = "replay"
  /\ IF ~SendOk(e)
     THEN worker' = [worker EXCEPT ![e] = IdleWorker] /\ UNCHANGED <<app, inbox, reached>>
     ELSE \E id \in worker[e].todo :
            /\ Deliver(e, worker[e].stream, id, FALSE)
            /\ Reach(id.by, e, worker[e].stream)
            /\ worker' = IF worker[e].todo = {id} THEN [worker EXCEPT ![e] = IdleWorker]
                         ELSE [worker EXCEPT ![e].todo = @ \ {id}]
  /\ UNCHANGED <<remote, pend, up, task, queue>>

WorkerAnswer(e) ==
  /\ worker[e].pc = "answer"
  /\ task' = Answered({worker[e].id}, "answered")
  /\ worker' = [worker EXCEPT ![e] = IdleWorker]
  /\ UNCHANGED <<remote, pend, up, queue, app, inbox, reached>>

-----------------------------------------------------------------------------
(* Recovery of one client: run_remote_control_client_recovery.              *)

\* seeded fault: the requests are not told
RecoveryResetSilently(x) ==
  /\ At(x, "reset")
  /\ Exists(remote, task[x].epoch)
  /\ remote' = ResetClient(remote, task[x].key)
  /\ pend' = {p \in pend : p.key # task[x].key}
  /\ task' = [task EXCEPT ![x].pc = "init", ![x].ikey = task[x].key]
  /\ UNCHANGED <<up, worker, queue, app, inbox, reached>>

\* reset_remote_control_client_for_key: every request in flight is refused
RecoveryReset(x) ==
  /\ At(x, "reset")
  /\ LET k == task[x].key
     IN  IF ~Exists(remote, task[x].epoch)
         THEN Goto(x, "recinit") /\ UNCHANGED <<remote, pend>>
         ELSE /\ remote' = ResetClient(remote, k)
              /\ pend' = {p \in pend : p.key # k}
              /\ task' = [Answered({p.id : p \in {q \in pend : q.key = k /\ ~q.init}}, "reinit")
                            EXCEPT ![x].pc = "init", ![x].ikey = k]
  /\ UNCHANGED <<up, worker, queue, app, inbox, reached>>

\* finish_remote_control_client_recovery
RecoveryFinish(x) ==
  /\ At(x, "finish")
  /\ IF Exists(remote, task[x].epoch) /\ task[x].key \in remote.known
     THEN remote' = EndRecovery(remote, task[x].key) /\ Goto(x, "resub")
     ELSE UNCHANGED remote /\ End(x, "failed")
  /\ UNCHANGED <<pend, up, worker, queue, app, inbox, reached>>

\* resubscribe_bound_threads_after_recovery: thread/resume for a bound thread,
\* if there is one (one stands for all)
RecoveryResubscribe(x) ==
  /\ At(x, "resub")
  /\ \/ End(x, "answered")
     \/ /\ Exists(remote, task[x].epoch)
        /\ task[x].key \in remote.known /\ remote.cinit[task[x].key]
        /\ task' = [task EXCEPT ![x].pc = "resolve", ![x].second = TRUE]
  /\ UNCHANGED <<remote, pend, up, worker, queue, app, inbox, reached>>

\* force_remote_control_ws_reconnect: the writer closes the socket
RecoveryForce(x) ==
  /\ At(x, "force")
  /\ End(x, "failed")
  /\ IF SendOk(task[x].epoch) THEN DropSocket(task[x].epoch)
     ELSE UNCHANGED <<up, app, inbox>>
  /\ UNCHANGED <<remote, pend, worker, queue, reached>>

-----------------------------------------------------------------------------
TaskStep(t) ==
  \/ Resolve(t) \/ WaitOver(t) \/ WaitFailed(t) \/ Ensure(t) \/ Decide(t)
  \/ InitReserve(t) \/ InitSend(t) \/ InitSendFailed(t)
  \/ Reserve(t) \/ Send(t) \/ GiveUp(t) \/ Receive(t) \/ Retry(t)
CallerStep(c) == Begin(c) \/ BeginTargeted(c) \/ Ready(c)
RecoveryStep(x) == RecoveryReset(x) \/ RecoveryFinish(x) \/ RecoveryResubscribe(x)
                     \/ RecoveryForce(x)
WorkerStep(e) == TakeAnswer(e) \/ TakePong(e) \/ WorkerFlags(e) \/ WorkerInitialized(e)
                   \/ WorkerSnapshot(e) \/ WorkerReplay(e) \/ WorkerAnswer(e)
SocketStep(e) == SocketLost(e) \/ WorkerAbort(e) \/ SocketCleanup(e) \/ SocketFrame(e)
                   \/ AppPingTarget(e) \/ AppPingMark(e)
AppStep(e) == AppAnswer(e) \/ AppForget(e) \/ AppPongUnknown(e)

ControlNext ==
  \/ SocketOpen \/ StatusSnapshot
  \/ \E t \in Tasks : TaskStep(t)
  \/ \E c \in Callers : CallerStep(c) \/ Cancel(c)
  \/ \E x \in Slots : RecoveryStep(x)
  \/ \E e \in Epochs : WorkerStep(e) \/ SocketStep(e) \/ AppStep(e)

ControlSpec == ControlInit /\ [][ControlNext]_vars

-----------------------------------------------------------------------------
(* Properties.                                                              *)

(* Types.  Results are those of the call, of its response channel, or none. *)
Pcs == {"idle", "recwait", "ready", "resolve", "ensure", "decide", "init",
        "initsend", "initwait", "reserve", "send", "wait", "retrywait", "reset",
        "recinit", "finish", "resub", "force", "done", "ping"}
Results == {"none", "answered", "initialized", "failed", "reinit", "closed", "cancelled"}
MaybeKeys == Keys \cup {NoKey}
TaskType == [pc : Pcs, key : MaybeKeys, ikey : MaybeKeys, epoch : Epochs \cup {None},
             stream : Streams, n : Nat, second : BOOLEAN, result : Results]
WorkerType == [pc : {"idle", "flags", "initialized", "snapshot", "replay", "answer"},
               key : MaybeKeys, stream : Streams, ua : Kinds, id : Ids \cup {NoId},
               todo : SUBSET Ids]
ItemType == [pong : BOOLEAN, id : Ids \cup {NoId}, stream : Streams, ua : Kinds]
MessageType == [id : Ids, stream : Streams, init : BOOLEAN]

InFlight(t) == task[t].pc \in {"send", "wait"} /\ task[t].result = "none"

(* A request in flight can always still be answered: its entry is in the    *)
(* pending map of some client, or the worker that took the entry out has    *)
(* not yet passed the answer on.  No interleaving of answers, recoveries,   *)
(* moves of a client to another key and lost sockets makes a caller wait    *)
(* for an answer nobody can give it.                                        *)
RequestNotLost ==
  \A t \in Callers \cup Slots : InFlight(t) =>
    \/ \E p \in pend : p.id = CurrentId(t) /\ ~p.init
    \/ \E e \in Epochs : worker[e].pc = "answer" /\ worker[e].id = CurrentId(t)

(* The keys default clients are moved to (migrate_source_default_client_key_ *)
(* locked): the pending map of a client moves with it, while the task that  *)
(* waits for an entry keeps the key it resolved.                            *)
MovedKeys == IF "unknown" \in OpenKinds THEN OpenKinds \ {"unknown"} ELSE {}
LeftBehind(p) == task[p.id.by].result = "failed" /\ p.key \in MovedKeys

(* Nothing stays in the pending maps once its request has returned, so that *)
(* replay_pending_requests never sends a request nobody waits for.  There   *)
(* are two exceptions: a request whose task was aborted, and one that       *)
(* failed after its client had moved to another key.                        *)
NoOrphanRequest ==
  \A p \in pend : ~p.init =>
    \/ p.id = CurrentId(p.id.by) /\ task[p.id.by].pc \in {"send", "wait"}
    \/ task[p.id.by].result = "cancelled" \/ LeftBehind(p)

(* The pending maps hold just what somebody waits for.                      *)
RequestsAreTracked == RequestNotLost /\ NoOrphanRequest

(* An initialize filed for a connection that is gone is about to be removed *)
(* by the task that filed it: the cleanup of a connection and a late        *)
(* send_initialize race, and a leftover would make ensure_remote_control_   *)
(* client_initialized skip a client for good.  The exceptions are those of  *)
(* the requests: the task was aborted, or the client had moved.             *)
NoStaleInitialize ==
  \A p \in pend : p.init /\ p.epoch \notin remote.live =>
    \/ At(p.id.by, "initsend") /\ p.id = CurrentId(p.id.by)
    \/ task[p.id.by].result = "cancelled" \/ LeftBehind(p)

(* The initialize a new connection sends for its own default client cannot  *)
(* fail: run_websocket would return early (the "?" on                       *)
(* initialize_remote_clients_for_connection) and leave a connection without *)
(* tasks in the map for good.                                               *)
OwnInitializeIsSent == \A e \in Epochs : task[e].result # "failed"

-----------------------------------------------------------------------------
(* Fairness: tokio polls a task that is ready, timers fire, and the mutex   *)
(* is fair.  Nothing is assumed of the app-servers, the sockets or the      *)
(* workers: they may stop at any point.                                     *)
TaskFairness ==
  /\ \A t \in Tasks : WF_vars(TaskStep(t))
  /\ \A c \in Callers : WF_vars(CallerStep(c))
  /\ \A x \in Slots : WF_vars(RecoveryStep(x))

FairControlSpec == ControlSpec /\ TaskFairness

(* Every request and every recovery that is started returns, whatever the   *)
(* sockets and the app-servers do: no wait in it is left without a timer,   *)
(* and its retry after a reinitialize does not start over for ever.         *)
EveryCallReturns ==
  \A t \in Callers \cup Slots : task[t].pc # "idle" ~> task[t].pc = "done"

-----------------------------------------------------------------------------
(* What the documents say and the code does not do.                         *)

(* Virtual clients share the client id and are told apart by their stream   *)
(* ids (ensure_client_state_locked derives them from the legacy stream).    *)
ClientsHaveDistinctStreams ==
  \A j, k \in remote.known : j # k => remote.cstream[j] # remote.cstream[k]

(* A request that must not be repeated reaches one app-server session       *)
(* (replay_pending_requests sends again whatever is pending).               *)
NonIdempotentSentOnce == \A c \in Callers \ Idempotent : Cardinality(reached[c]) <= 1

(* A request goes to a connection on which its client was initialized       *)
(* (ensure_remote_control_client_initialized trusts the client's own flag). *)
SentToInitializedClient ==
  \A c \in Callers : At(c, "send") /\ SendOk(task[c].epoch) =>
                       task[c].stream \in app[task[c].epoch]
=============================================================================
