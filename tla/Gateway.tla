------------------------------ MODULE Gateway ------------------------------
(***************************************************************************)
(* The AI gateway: HTTP handlers that route each request to one of several *)
(* upstream providers, and the log that keeps a row per request.           *)
(*                                                                         *)
(* A handler copies the configuration, chooses a provider under the lock   *)
(* of the routing state (circuit breaker, session stickiness, priority),   *)
(* queues its log row, talks to the provider, reports the outcome to the   *)
(* breaker and answers; a streamed answer goes on after the handler has    *)
(* returned, watched by ResponsesSseLogStream.  The client may leave at    *)
(* every await, which drops the handler or the stream where it stands.     *)
(* Log writes go through a bounded queue to one writer thread; a write     *)
(* that finds the queue full is dropped.  Writes of columns other than the *)
(* status (sizes, bodies, the time to the first token) are left out.       *)
(***************************************************************************)
EXTENDS Integers, Sequences, FiniteSets, TLC

CONSTANTS Requests,       \* the requests that are made
          Providers,      \* the configured upstream providers
          Responses,      \* those of type openai_responses
          Sessions,       \* the sessions that name themselves
          NoSession,      \* a request without a session id
          NoRoute,        \* a request that was not routed
          Weight,         \* the priority of each provider
          Hash,           \* the HRW score of a provider for a session
          Threshold,      \* FAILURE_THRESHOLD
          Cooldown,       \* COOLDOWN, in ticks
          Ttl,            \* BINDING_TTL, in ticks
          Capacity,       \* WRITE_QUEUE_CAPACITY
          Retries,        \* UPSTREAM_TRANSPORT_MAX_RETRIES
          MaxClock, MaxEvent   \* bounds of the runs

\* streamed and unary answers, streams with an internal web search, alpha searches
Kinds == {"stream", "unary", "internal", "search"}

ASSUME GatewayAssumption ==
  /\ IsFiniteSet(Requests) /\ Responses \subseteq Providers
  /\ NoSession \notin Sessions /\ NoRoute \notin Providers
  /\ Threshold \in Nat \ {0} /\ Capacity \in Nat \ {0} /\ Retries \in Nat
  /\ Cooldown \in Nat /\ Ttl \in Nat

VARIABLES config,    \* [enabled: providers switched on, log: whether requests are logged]
          req,       \* the state of each handler and of its streamed answer
          health,    \* GatewayRoutingState.health
          bindings,  \* GatewayRoutingState.bindings; NoRoute: no entry
          clock,
          queue,     \* the write queue of the request log
          rows,      \* the table: "none", "running" or the final status of each row
          lost,      \* requests one of whose log writes never reached the table
          reader,    \* list_recent / get_detail: [pc, owed]
          cleaner,   \* run_maintenance: "idle", "locked", "sent"
          used       \* configuration changes, failed writes, listings and cleanups so far

log  == <<queue, rows, lost>>
vars == <<config, req, health, bindings, clock, queue, rows, lost, reader, cleaner, used>>

(***************************************************************************)
(* Initial state.                                                          *)
(***************************************************************************)
Final == {"completed", "failed", "cancelled"}

\* A request as it arrives; pc "done" from the start: it is never made.
Fresh(k, s) ==
         [pc |-> IF k = "none" THEN "done" ELSE "new", kind |-> k, session |-> s, conf |-> {}, logged |-> FALSE,
          route |-> NoRoute, tries |-> 0, retried |-> FALSE, result |-> "none",
          end |-> "open"]

Init ==
  /\ config \in [enabled : SUBSET Providers, log : BOOLEAN]
  /\ \E kind \in [Requests -> Kinds \cup {"none"}], session \in [Requests -> Sessions \cup {NoSession}] :
       req = [r \in Requests |-> Fresh(kind[r], session[r])]
  /\ health = [p \in Providers |-> [failures |-> 0, until |-> 0]]
  /\ bindings = [s \in Sessions |-> [route |-> NoRoute, at |-> 0]]
  /\ clock \in 0..MaxClock
  /\ queue = <<>> /\ rows = [r \in Requests |-> "none"] /\ lost = {}
  /\ reader = [pc |-> "idle", owed |-> {}] /\ cleaner = "idle"
  /\ used \in 0..MaxEvent

At(r, pcs) == req[r].pc \in pcs

(***************************************************************************)
(* The write queue: try_send drops what finds it full.                     *)
(***************************************************************************)
Insert(r) == [op |-> "insert", row |-> r, status |-> "running"]
Update(r, status) == [op |-> "update", row |-> r, status |-> status]

Enqueue(r, command) ==
  CASE ~req[r].logged -> UNCHANGED <<queue, lost>>
    [] req[r].logged /\ Len(queue) < Capacity ->
         queue' = Append(queue, command) /\ UNCHANGED lost
    [] OTHER ->
         /\ UNCHANGED queue
         /\ lost' = lost \cup {r}

(***************************************************************************)
(* Routing.                                                                *)
(***************************************************************************)
Blacklisted(p) == clock < health[p].until

Bound(s) ==
  IF s \in Sessions /\ bindings[s].route # NoRoute /\ clock - bindings[s].at <= Ttl
  THEN bindings[s].route ELSE NoRoute

\* /alpha/search and /responses/compact only go to providers of the OpenAI type.
Candidates(r) == IF req[r].kind = "search" THEN req[r].conf \cap Responses ELSE req[r].conf
Healthy(r) == {p \in Candidates(r) : ~Blacklisted(p)}

Before(s, p, q) ==
  \/ Weight[p] > Weight[q]
  \/ Weight[p] = Weight[q] /\ Hash[s, p] > Hash[s, q]

SelectByPriority(s, pool) == CHOOSE p \in pool : \A q \in pool \ {p} : Before(s, p, q)

Resolve(r) ==
  LET s == req[r].session
      pool == IF Healthy(r) = {} THEN Candidates(r) ELSE Healthy(r)
  IN IF Bound(s) \in Healthy(r) THEN Bound(s) ELSE SelectByPriority(s, pool)

EvictStale ==
  [s \in Sessions |-> IF Bound(s) = NoRoute THEN [route |-> NoRoute, at |-> 0] ELSE bindings[s]]

(***************************************************************************)
(* The handlers.                                                           *)
(***************************************************************************)
Copy(r) ==   \* the configuration is cloned under its lock and used to the end
  /\ At(r, {"new"})
  /\ req' = [req EXCEPT ![r].pc = "route", ![r].conf = config.enabled, ![r].logged = config.log]
  /\ UNCHANGED <<config, health, bindings, clock, log, reader, cleaner, used>>

\* Up to the next await: the choice, the binding, the log row and the
\* upstream request.  Tools or a body that do not parse are refused by the
\* handler; one the dialect refuses comes back as a bad request, and one that
\* cannot be built as a failure of the upstream, though it was never sent.
\* An internal search is built by a task of its own and answered at once.
Route(r) ==
  /\ At(r, {"route"}) /\ Candidates(r) # {}
  /\ LET p == Resolve(r)
         internal == req[r].kind = "internal"
     IN
       /\ bindings' = IF req[r].session \in Sessions
                      THEN [EvictStale EXCEPT ![req[r].session] = [route |-> p, at |-> clock]]
                      ELSE EvictStale
       /\ \E next \in {"go", "refused", "bad"} \cup (IF internal THEN {} ELSE {"unbuilt"}) :
            req' = [req EXCEPT ![r].route = p, ![r].conf = {},
                      ![r].pc = CASE next = "refused" -> "fail"
                                  [] next = "go" /\ ~internal -> "send"
                                  [] OTHER -> "record",
                      ![r].result = CASE next = "unbuilt" -> "unbuilt"
                                      [] next = "go" -> IF internal THEN "ok" ELSE "none"
                                      [] OTHER -> "bad"]
  /\ Enqueue(r, Insert(r))
  /\ UNCHANGED <<config, health, clock, rows, reader, cleaner, used>>

RouteNowhere(r) ==   \* no enabled provider serves the model
  /\ At(r, {"route"}) /\ Candidates(r) = {}
  /\ bindings' = EvictStale
  /\ Enqueue(r, Insert(r))
  /\ req' = [req EXCEPT ![r].pc = "fail", ![r].conf = {}, ![r].result = "bad"]
  /\ UNCHANGED <<config, health, clock, rows, reader, cleaner, used>>

Sent(r, pc, result) ==
  req' = [req EXCEPT ![r].pc = pc, ![r].result = result, ![r].tries = 0, ![r].retried = FALSE]

TransportFails(r) ==
  /\ At(r, {"send"})
  /\ IF req[r].tries < Retries
     THEN req' = [req EXCEPT ![r].tries = @ + 1]
     ELSE Sent(r, "record", "down")
  /\ UNCHANGED <<config, health, bindings, clock, log, reader, cleaner, used>>

Refuses(r) ==   \* 400, with encrypted content of another provider: sent once more without it
  /\ At(r, {"send"}) /\ ~req[r].retried /\ req[r].route \in Responses
  /\ req[r].kind \in {"stream", "unary"}
  /\ req' = [req EXCEPT ![r].tries = 0, ![r].retried = TRUE]
  /\ UNCHANGED <<config, health, bindings, clock, log, reader, cleaner, used>>

TimesOut(r) ==
  /\ At(r, {"send", "body"})
  /\ Sent(r, "record", "down")
  /\ UNCHANGED <<config, health, bindings, clock, log, reader, cleaner, used>>

\* The response headers arrive.  An alpha search hands every answer on.
Answers(r) ==
  /\ At(r, {"send"})
  /\ \E answer \in {"ok", "bad", "down"} :
       Sent(r, IF req[r].kind = "search" \/ (req[r].kind = "unary" /\ answer = "ok")
               THEN "body" ELSE "record", answer)
  /\ UNCHANGED <<config, health, bindings, clock, log, reader, cleaner, used>>

Body(r) ==   \* the whole answer is read; its status goes to the log before the outcome is recorded
  /\ At(r, {"body"})
  /\ \E status \in IF req[r].result = "ok" THEN {"completed", "failed"} ELSE {"failed"} :
       /\ req' = [req EXCEPT ![r].pc = "record", ![r].end = status]
       /\ Enqueue(r, Update(r, status))
  /\ UNCHANGED <<config, health, bindings, clock, rows, reader, cleaner, used>>

\* classify_outcome and GatewayRoutingState.record_success, record_failure
RefusalCounts(result) == CASE result = "ok" -> "success" [] OTHER -> "failure"   \* seeded fault

Failures == {"down", "unbuilt"}   \* 5xx, 429, 408 and no answer; GatewayError::upstream

Outcome(result) ==
  CASE result = "ok" -> "success" [] result \in Failures -> "failure" [] OTHER -> "ignored"

Judge(h, outcome) ==
  CASE outcome = "success" -> [failures |-> 0, until |-> 0]
    [] outcome = "failure" -> [failures |-> h.failures + 1,
                               until |-> IF h.failures + 1 >= Threshold
                                         THEN clock + Cooldown ELSE h.until]
    [] OTHER -> h

AfterRecord(r) ==
  CASE req[r].end # "open" -> "done"
    [] req[r].end = "open" /\ req[r].result = "ok" -> "stream"
    [] OTHER -> "fail"

Record(r) ==
  /\ At(r, {"record"})
  /\ health' = [health EXCEPT ![req[r].route] = Judge(@, Outcome(req[r].result))]
  /\ req' = [req EXCEPT ![r].pc = AfterRecord(r)]
  /\ UNCHANGED <<config, bindings, clock, log, reader, cleaner, used>>

Fail(r) ==   \* update_failed_log
  /\ At(r, {"fail"})
  /\ req' = [req EXCEPT ![r].pc = "done", ![r].end = "failed"]
  /\ Enqueue(r, Update(r, "failed"))
  /\ UNCHANGED <<config, health, bindings, clock, rows, reader, cleaner, used>>

(***************************************************************************)
(* The streamed answer, seen by ResponsesSseLogStream.  The upstream is    *)
(* taken to send one terminal event at most.                               *)
(***************************************************************************)
Terminal(r) ==   \* response.completed, .incomplete or .failed
  /\ At(r, {"stream"}) /\ req[r].end = "open"
  /\ \E status \in {"completed", "failed"} :
       req' = [req EXCEPT ![r].end = status] /\ Enqueue(r, Update(r, status))
  /\ UNCHANGED <<config, health, bindings, clock, rows, reader, cleaner, used>>

\* Seeded fault: the drop does not ask whether the stream had completed.
ClosesAgain(r, pc, status) == req' = [req EXCEPT ![r].pc = pc] /\ Enqueue(r, Update(r, status))

\* The stream is over: what is still open ends with the given status.
Closes(r, pc, status) ==
  IF req[r].end = "open"
  THEN req' = [req EXCEPT ![r].pc = pc, ![r].end = status] /\ Enqueue(r, Update(r, status))
  ELSE req' = [req EXCEPT ![r].pc = pc] /\ UNCHANGED <<queue, lost>>

StreamEnds(r) ==   \* the upstream closes or breaks the stream
  /\ At(r, {"stream"})
  /\ Closes(r, "done", "failed")
  /\ UNCHANGED <<config, health, bindings, clock, rows, reader, cleaner, used>>

\* Dropping the handler drops the stream with it, if it has one already.
DropsStream(r) == \/ req[r].pc = "stream"
                  \/ req[r].pc = "record" /\ req[r].result = "ok"

\* Seeded fault: a dropped stream leaves its row as it is.
LeaveSilently(r) ==
  /\ At(r, {"route", "send", "body", "record", "stream"})
  /\ req' = [req EXCEPT ![r].pc = "gone",
                        ![r].end = IF DropsStream(r) THEN "cancelled" ELSE req[r].end]
  /\ UNCHANGED <<config, health, bindings, clock, log, reader, cleaner, used>>

Leave(r) ==   \* the client disconnects at an await of the handler, or while the answer streams
  /\ At(r, {"route", "send", "body", "record", "stream"})
  /\ IF DropsStream(r) THEN Closes(r, "gone", "cancelled")
     ELSE Sent(r, "gone", req[r].result) /\ UNCHANGED <<queue, lost>>
  /\ UNCHANGED <<config, health, bindings, clock, rows, reader, cleaner, used>>

(***************************************************************************)
(* The writer thread, the readers and the maintenance of the log.          *)
(***************************************************************************)
Apply(command) ==
  CASE command.op = "insert" -> [rows EXCEPT ![command.row] = "running"]
    [] command.op = "update" /\ rows[command.row] # "none" ->
         [rows EXCEPT ![command.row] = command.status]
    [] OTHER -> rows

Write ==
  /\ queue # <<>> /\ Head(queue).op \in {"insert", "update"}
  /\ rows' = Apply(Head(queue))
  /\ queue' = Tail(queue)
  /\ UNCHANGED <<config, req, health, bindings, clock, lost, reader, cleaner, used>>

WriteFails ==   \* the database is busy or cannot be opened: a warning, and the write is gone
  /\ queue # <<>> /\ Head(queue).op \in {"insert", "update"}
  /\ used < MaxEvent
  /\ queue' = Tail(queue)
  /\ lost' = lost \cup {Head(queue).row}
  /\ used' = used + 1
  /\ UNCHANGED <<config, req, health, bindings, clock, rows, reader, cleaner>>

\* Final writes accepted so far: a listing that starts now shows them.
Accepted == {r \in Requests : req[r].logged /\ req[r].end # "open" /\ r \notin lost}

Ask ==   \* refused while maintenance is active or another reader holds its mutex
  /\ reader.pc = "idle" /\ cleaner = "idle" /\ used < MaxEvent
  /\ reader' = [pc |-> "locked", owed |-> Accepted]
  /\ used' = used + 1
  /\ UNCHANGED <<config, req, health, bindings, clock, log, cleaner>>

Flush ==   \* a blocking send: waits for room
  /\ reader.pc = "locked" /\ Len(queue) < Capacity
  /\ queue' = Append(queue, [op |-> "barrier"])
  /\ reader' = [reader EXCEPT !.pc = "waiting"]
  /\ UNCHANGED <<config, req, health, bindings, clock, rows, lost, cleaner, used>>

Barrier ==
  /\ queue # <<>> /\ Head(queue).op = "barrier"
  /\ queue' = Tail(queue)
  /\ reader' = [reader EXCEPT !.pc = "reading"]
  /\ UNCHANGED <<config, req, health, bindings, clock, rows, lost, cleaner, used>>

Read ==
  /\ reader.pc = "reading"
  /\ reader' = [pc |-> "idle", owed |-> {}]
  /\ UNCHANGED <<config, req, health, bindings, clock, log, cleaner, used>>

Clean ==   \* delete_all or delete_older_than takes the mutex
  /\ cleaner = "idle" /\ reader.pc = "idle" /\ used < MaxEvent
  /\ cleaner' = "locked"
  /\ used' = used + 1
  /\ UNCHANGED <<config, req, health, bindings, clock, log, reader>>

SendClean ==
  /\ cleaner = "locked" /\ Len(queue) < Capacity
  /\ \E old \in {Requests, {r \in Requests : At(r, {"done", "gone"})}} : queue' = Append(queue, [op |-> "clean", old |-> old])
  /\ cleaner' = "sent"
  /\ UNCHANGED <<config, req, health, bindings, clock, rows, lost, reader, used>>

RunClean ==
  /\ queue # <<>> /\ Head(queue).op = "clean"
  /\ rows' = [r \in Requests |-> IF r \in Head(queue).old THEN "none" ELSE rows[r]]
  /\ queue' = Tail(queue)
  /\ cleaner' = "idle"
  /\ UNCHANGED <<config, req, health, bindings, clock, lost, reader, used>>

(***************************************************************************)
(* The environment.                                                        *)
(***************************************************************************)
Configure ==
  /\ used < MaxEvent
  /\ \E p \in Providers :
       config' = [config EXCEPT !.enabled = IF p \in @ THEN @ \ {p} ELSE @ \cup {p}]
  /\ used' = used + 1
  /\ UNCHANGED <<req, health, bindings, clock, log, reader, cleaner>>

Tick ==
  /\ clock < MaxClock
  /\ clock' = clock + 1
  /\ UNCHANGED <<config, req, health, bindings, log, reader, cleaner, used>>

\* Every await of a handler, and every streamed answer, comes to an end some day.
Ends(r) == Copy(r) \/ Route(r) \/ RouteNowhere(r)
        \/ TimesOut(r) \/ Answers(r) \/ Body(r) \/ Record(r) \/ Fail(r) \/ StreamEnds(r)
Handler(r) == Ends(r) \/ TransportFails(r) \/ Refuses(r) \/ Terminal(r) \/ Leave(r)
Writer == Write \/ Barrier \/ RunClean
Reader == Ask \/ Flush \/ Read
Cleaner == Clean \/ SendClean

Finished == \A r \in Requests : At(r, {"done", "gone"})
Idle == Finished /\ queue = <<>> /\ reader.pc = "idle" /\ cleaner = "idle" /\ UNCHANGED vars

Next ==
  \/ \E r \in Requests : Handler(r)
  \/ Writer \/ WriteFails \/ Reader \/ Cleaner
  \/ Configure \/ Tick
  \/ Idle

Fairness == WF_vars(Writer) /\ WF_vars(Flush \/ Read \/ SendClean)
         /\ \A r \in Requests : WF_vars(Ends(r))

Spec == Init /\ [][Next]_vars /\ Fairness

(***************************************************************************)
(* Properties.                                                             *)
(***************************************************************************)
Statuses == {"running"} \cup Final

TypeOK ==
  /\ config \in [enabled : SUBSET Providers, log : BOOLEAN]
  /\ \A r \in Requests : /\ req[r].pc \in {"new", "route", "send", "body", "record",
                                          "fail", "stream", "done", "gone"}
                         /\ req[r].end \in {"open"} \cup Final
  /\ rows \in [Requests -> {"none"} \cup Statuses]
  /\ Len(queue) <= Capacity

(* A final status in the table is the end its request really came to, first *)
(* and for good: neither the end of the stream, nor the drop of a stream    *)
(* whose terminal event was seen, nor a failure noted by the handler writes *)
(* over it (request_log.rs:1246-1320, handler.rs:1214).                     *)
RowMatchesEnd == \A r \in Requests : rows[r] \in Final => rows[r] = req[r].end

(* A listing shows the end of every request that had ended when the listing *)
(* was asked for, unless a write of it was dropped or failed: the barrier   *)
(* goes through the same queue (request_log.rs:307).                        *)
ListingIsCurrent ==
  reader.pc = "reading" =>
    \A r \in reader.owed \ lost : rows[r] \in {req[r].end, "none"}

(* The log is true to the requests: a final row and a listing both tell the *)
(* end that the request came to (request_log.rs, handler.rs).               *)
LogIsTrue == RowMatchesEnd /\ ListingIsCurrent

(* A provider is shut out only after Threshold requests routed to it failed *)
(* at the provider or could not be built for it: the gateway tells the      *)
(* second as an upstream failure too, although nothing was sent.  What the  *)
(* client caused, a bad request or one the provider refuses, does not count *)
(* (routing_state.rs:54, handler.rs:737-770, openai_responses.rs:216).      *)
BlacklistIsEarned ==
  \A p \in Providers :
    Blacklisted(p) =>
      Cardinality({r \in Requests : req[r].route = p /\ req[r].result \in Failures}) >= Threshold

(* The client left before there was an answer or a stream to be dropped:    *)
(* nobody finishes the row of that request (handler.rs:430-672).            *)
Abandoned(r) == req[r].pc = "gone" /\ req[r].end = "open"

(* The row of a request does not stay "running": it gets its final status,  *)
(* unless a write was lost or the client left before the answer began.      *)
LogSettles ==
  \A r \in Requests :
    rows[r] = "running" ~> (rows[r] # "running" \/ r \in lost \/ Abandoned(r))
=============================================================================
