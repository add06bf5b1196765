---------------------------- MODULE Gateway_proofs ----------------------------
(***************************************************************************)
(* Proofs about the gateway's request log and circuit breaker, for any     *)
(* requests, sessions, providers and limits.                               *)
(***************************************************************************)
EXTENDS Gateway, FiniteSetTheorems, TLAPS

-----------------------------------------------------------------------------
(* The inductive invariant.                                                 *)

Pcs == {"new", "route", "send", "body", "record", "fail", "stream", "done", "gone"}
Results == {"none", "ok", "bad", "down", "unbuilt"}
Names == Sessions \cup {NoSession}

\* what a priority choice may come to, on a pool without a first provider too
Choices == {SelectByPriority(s, pool) : s \in Names, pool \in SUBSET Providers}

States == [pc : Pcs, kind : Kinds \cup {"none"}, session : Names, conf : SUBSET Providers,
           logged : BOOLEAN, route : Providers \cup {NoRoute} \cup Choices, tries : Nat,
           retried : BOOLEAN, result : Results, end : {"open"} \cup Final]

Commands == [op : {"insert"}, row : Requests, status : {"running"}]
            \cup [op : {"update"}, row : Requests, status : Final]
            \cup [op : {"barrier"}] \cup [op : {"clean"}, old : SUBSET Requests]

Types ==
  /\ config \in [enabled : SUBSET Providers, log : BOOLEAN]
  /\ req \in [Requests -> States]
  /\ health \in [Providers -> [failures : Nat, until : Nat]] /\ clock \in Nat
  /\ queue \in Seq(Commands) /\ rows \in [Requests -> {"none"} \cup Statuses]

\* a request has no end before it was answered or given up
NotEnded(q) == q.pc \in {"new", "route", "send", "body", "fail"} => q.end = "open"
EndsAreLate == \A r \in Requests : NotEnded(req[r])

\* what is written is the end the request came to
QueueMatchesEnd ==
  \A i \in DOMAIN queue : queue[i].op = "update" => queue[i].status = req[queue[i].row].end

\* the breaker counts failures it was told of, each request once
Told(p) == {r \in Requests : /\ req[r].route = p /\ req[r].result \in Failures
                             /\ req[r].pc \in {"fail", "done", "gone"}}
FailuresWereTold ==
  \A p \in Providers :
    /\ health[p].until = 0 \/ health[p].failures >= Threshold
    /\ health[p].failures <= Cardinality(Told(p))

IInv == Types /\ EndsAreLate /\ QueueMatchesEnd /\ RowMatchesEnd /\ FailuresWereTold

-----------------------------------------------------------------------------
(* Commands and handlers.                                                   *)

(* An insert or an update names a request, an update a final status. *)
LEMMA CommandFields ==
  ASSUME NEW c \in Commands
  PROVE  /\ c.op = "update" => c.row \in Requests /\ c.status \in Final
         /\ c.op = "insert" => c.row \in Requests
         /\ c.op = "clean" => c.old \subseteq Requests
  BY DEF Commands

(* The commands handlers send are commands. *)
LEMMA CommandsAreTyped ==
  ASSUME NEW r \in Requests
  PROVE  /\ Insert(r) \in Commands /\ Insert(r).op = "insert"
         /\ \A s \in Final : /\ Update(r, s) \in Commands /\ Update(r, s).op = "update"
                             /\ Update(r, s).row = r /\ Update(r, s).status = s
         /\ [op |-> "barrier"] \in Commands
         /\ \A old \in SUBSET Requests : [op |-> "clean", old |-> old] \in Commands
  BY DEF Commands, Insert, Update

(* Enqueue leaves the queue alone or appends the command (request_log.rs, try_send). *)
LEMMA EnqueueAppends ==
  ASSUME NEW r \in Requests, NEW c, Enqueue(r, c)
  PROVE  queue' = queue \/ queue' = Append(queue, c)
<1>1. CASE ~req[r].logged
  BY <1>1 DEF Enqueue
<1>2. CASE req[r].logged /\ Len(queue) < Capacity
  BY <1>2 DEF Enqueue
<1>3. CASE req[r].logged /\ ~(Len(queue) < Capacity)
  BY <1>3 DEF Enqueue
<1> QED BY <1>1, <1>2, <1>3

(* What no handler touches. *)
Untouched == UNCHANGED <<config, health, clock, rows>>

(* One handler's step: its request becomes q, its queue says at most what q came to. *)
HandlerStep(r, q) ==
  /\ q \in States /\ req' = [req EXCEPT ![r] = q]
  /\ NotEnded(q) /\ (req[r].end = "open" \/ q.end = req[r].end)
  /\ \/ queue' = queue \/ queue' = Append(queue, Insert(r))
     \/ q.end \in Final /\ queue' = Append(queue, Update(r, q.end))
  /\ req[r].pc \in {"fail", "done", "gone"} =>
       /\ q.pc \in {"fail", "done", "gone"}
       /\ q.route = req[r].route /\ q.result = req[r].result

(* A handler's step keeps the types. *)
LEMMA HandlerTypes ==
  ASSUME Types, NEW r \in Requests, NEW q, HandlerStep(r, q)
  PROVE  req' \in [Requests -> States] /\ queue' \in Seq(Commands)
<1>1. req' \in [Requests -> States]
  BY DEF Types, HandlerStep
<1>2. queue' \in Seq(Commands)
  <2>1. CASE queue' = queue
    BY <2>1 DEF Types
  <2>2. CASE queue' = Append(queue, Insert(r))
    BY <2>2, CommandsAreTyped DEF Types
  <2>3. CASE q.end \in Final /\ queue' = Append(queue, Update(r, q.end))
    BY <2>3, CommandsAreTyped DEF Types
  <2> QED BY <2>1, <2>2, <2>3 DEF HandlerStep
<1> QED BY <1>1, <1>2

(* No end changes once there is one. *)
LEMMA HandlerEnds ==
  ASSUME Types, EndsAreLate, NEW r \in Requests, NEW q, HandlerStep(r, q)
  PROVE  /\ EndsAreLate'
         /\ \A s \in Requests : req[s].end \in Final => req'[s].end = req[s].end
<1>1. \A s \in Requests : req'[s] = IF s = r THEN q ELSE req[s]
  BY DEF Types, HandlerStep
<1>2. EndsAreLate'
  <2>1. \A s \in Requests : NotEnded(req'[s])
    BY <1>1 DEF HandlerStep, EndsAreLate
  <2> QED BY <2>1 DEF EndsAreLate, NotEnded
<1>3. \A s \in Requests : req[s].end \in Final => req'[s].end = req[s].end
  BY <1>1 DEF HandlerStep, Final
<1> QED BY <1>2, <1>3

(* What is queued and written still is the end its request came to. *)
LEMMA HandlerWrites ==
  ASSUME Types, EndsAreLate, QueueMatchesEnd, RowMatchesEnd, rows' = rows,
         NEW r \in Requests, NEW q, HandlerStep(r, q)
  PROVE  QueueMatchesEnd' /\ RowMatchesEnd'
<1>1. \A s \in Requests : req[s].end \in Final => req'[s].end = req[s].end
  BY HandlerEnds
<1>2. RowMatchesEnd'
  BY <1>1 DEF RowMatchesEnd
<1>3. \A i \in DOMAIN queue : queue[i].op = "update" => queue[i].status = req'[queue[i].row].end
  <2> SUFFICES ASSUME NEW i \in DOMAIN queue, queue[i].op = "update"
               PROVE  queue[i].status = req'[queue[i].row].end
    OBVIOUS
  <2>1. queue[i] \in Commands
    BY DEF Types
  <2>2. queue[i].row \in Requests /\ queue[i].status \in Final
    BY <2>1, CommandFields
  <2> QED BY <1>1, <2>2 DEF QueueMatchesEnd
<1>4. req'[r] = q
  BY DEF Types, HandlerStep
<1>5. ASSUME NEW c \in Commands, queue' = Append(queue, c),
             c.op = "update" => c.status = req'[c.row].end
      PROVE  QueueMatchesEnd'
  <2>1. queue \in Seq(Commands)
    BY DEF Types
  <2>2. \A i \in DOMAIN queue' : queue'[i] = c \/ (i \in DOMAIN queue /\ queue'[i] = queue[i])
    BY <1>5, <2>1
  <2> QED BY <1>3, <1>5, <2>2 DEF QueueMatchesEnd
<1>6. CASE queue' = queue
  <2>1. \A i \in DOMAIN queue' : queue'[i].op = "update" => queue'[i].status = req'[queue'[i].row].end
    BY <1>3, <1>6
  <2> QED BY <1>2, <2>1 DEF QueueMatchesEnd
<1>7. CASE queue' = Append(queue, Insert(r))
  <2>1. PICK c \in Commands : c = Insert(r) /\ c.op = "insert"
    BY CommandsAreTyped
  <2>2. c.op = "update" => c.status = req'[c.row].end
    BY <2>1
  <2>3. queue' = Append(queue, c)
    BY <1>7, <2>1
  <2> QED BY <1>2, <1>5, <2>2, <2>3
<1>8. CASE q.end \in Final /\ queue' = Append(queue, Update(r, q.end))
  <2>1. PICK c \in Commands : c = Update(r, q.end) /\ c.row = r /\ c.status = q.end
    BY <1>8, CommandsAreTyped
  <2>2. c.status = req'[c.row].end
    BY <1>4, <2>1
  <2>3. queue' = Append(queue, c)
    BY <1>8, <2>1
  <2> QED BY <1>2, <1>5, <2>2, <2>3
<1> QED BY <1>6, <1>7, <1>8 DEF HandlerStep

(* What the breaker was told of stays told of. *)
LEMMA HandlerTold ==
  ASSUME Types, NEW r \in Requests, NEW q, HandlerStep(r, q), NEW p
  PROVE  Told(p) \subseteq Told(p)'
<1>1. \A s \in Requests : req'[s] = IF s = r THEN q ELSE req[s]
  BY DEF Types, HandlerStep
<1> QED BY <1>1 DEF HandlerStep, Told

(* A larger set of failures is no obstacle, while the breaker's counts stand. *)
LEMMA CountsStand ==
  ASSUME FailuresWereTold, UNCHANGED health, \A p \in Providers : Told(p) \subseteq Told(p)',
         Types
  PROVE  FailuresWereTold'
<1>1. ASSUME NEW p \in Providers
      PROVE  /\ health'[p].until = 0 \/ health'[p].failures >= Threshold
             /\ health'[p].failures <= Cardinality(Told(p)')
  <2>1. IsFiniteSet(Told(p)') /\ IsFiniteSet(Told(p))
    BY GatewayAssumption, FS_Subset DEF Told
  <2>2. Cardinality(Told(p)) <= Cardinality(Told(p)')
    BY <2>1, FS_Subset
  <2>3. Cardinality(Told(p)) \in Nat /\ Cardinality(Told(p)') \in Nat
    BY <2>1, FS_CardinalityType
  <2>4. health[p].failures \in Nat
    BY DEF Types
  <2> QED BY <2>2, <2>3, <2>4 DEF FailuresWereTold
<1> QED BY <1>1 DEF FailuresWereTold

(* Every handler's step but Record keeps the invariant. *)
LEMMA HandlerKeeps ==
  ASSUME IInv, Untouched, NEW r \in Requests, NEW q, HandlerStep(r, q)
  PROVE  IInv'
<1> USE DEF IInv
<1>1. Types'
  BY HandlerTypes DEF Types, Untouched
<1>2. EndsAreLate' /\ QueueMatchesEnd' /\ RowMatchesEnd'
  BY HandlerEnds, HandlerWrites DEF Untouched
<1>3. FailuresWereTold'
  BY HandlerTold, CountsStand DEF Untouched
<1> QED BY <1>1, <1>2, <1>3

-----------------------------------------------------------------------------
(* The steps of a handler, one by one.                                      *)

(* The configuration is copied (handler.rs). *)
LEMMA CopyKeeps ==
  ASSUME IInv, NEW r \in Requests, Copy(r)
  PROVE  IInv'
<1>1. PICK q : q = [req[r] EXCEPT !.pc = "route", !.conf = config.enabled, !.logged = config.log]
  OBVIOUS
<1>2. req[r] \in States /\ config \in [enabled : SUBSET Providers, log : BOOLEAN] /\ NotEnded(req[r])
  BY DEF IInv, Types, EndsAreLate
<1>3. req[r].pc = "new" /\ req' = [req EXCEPT ![r] = q] /\ queue' = queue /\ Untouched
  BY <1>1, <1>2 DEF Copy, At, Untouched, log
<1>4. q \in States /\ q.pc = "route" /\ q.end = req[r].end
  BY <1>1, <1>2 DEF States, Pcs
<1>5. HandlerStep(r, q)
  BY <1>2, <1>3, <1>4 DEF HandlerStep, NotEnded
<1> QED BY <1>3, <1>5, HandlerKeeps

(* Whatever is chosen, the route is one of the choices. *)
LEMMA RouteIsChosen ==
  ASSUME Types, NEW r \in Requests
  PROVE  Resolve(r) \in Providers \cup Choices
<1>1. req[r] \in States
  BY DEF Types
<1>2. req[r].session \in Names /\ Candidates(r) \in SUBSET Providers
  BY <1>1 DEF States, Candidates
<1>3. Healthy(r) \in SUBSET Providers
  BY <1>2 DEF Healthy
<1>4. CASE Bound(req[r].session) \in Healthy(r)
  BY <1>3, <1>4 DEF Resolve
<1>5. CASE Bound(req[r].session) \notin Healthy(r)
  <2>1. PICK pool \in SUBSET Providers : Resolve(r) = SelectByPriority(req[r].session, pool)
    BY <1>2, <1>3, <1>5 DEF Resolve
  <2> QED BY <1>2, <2>1 DEF Choices
<1> QED BY <1>4, <1>5

(* What a routed request goes on with (handler.rs). *)
LEMMA RouteSends ==
  ASSUME NEW r, Route(r)
  PROVE  \E pc \in {"fail", "record", "send"}, result \in Results :
           req' = [req EXCEPT ![r].route = Resolve(r), ![r].conf = {}, ![r].pc = pc, ![r].result = result]
<1>1. PICK p : p = Resolve(r)
  OBVIOUS
<1>2. PICK internal \in BOOLEAN, next \in {"go", "refused", "bad", "unbuilt"} :
        req' = [req EXCEPT ![r].route = p, ![r].conf = {},
                      ![r].pc = CASE next = "refused" -> "fail"
                                  [] next = "go" /\ ~internal -> "send"
                                  [] OTHER -> "record",
                      ![r].result = CASE next = "unbuilt" -> "unbuilt"
                                      [] next = "go" -> IF internal THEN "ok" ELSE "none"
                                      [] OTHER -> "bad"]
  BY <1>1 DEF Route
<1>3. PICK pc : pc = CASE next = "refused" -> "fail"
                       [] next = "go" /\ ~internal -> "send"
                       [] OTHER -> "record"
  OBVIOUS
<1>4. PICK result : result = CASE next = "unbuilt" -> "unbuilt"
                               [] next = "go" -> IF internal THEN "ok" ELSE "none"
                               [] OTHER -> "bad"
  OBVIOUS
<1>5. pc \in {"fail", "record", "send"} /\ result \in Results
  BY <1>3, <1>4 DEF Results
<1> QED BY <1>1, <1>2, <1>3, <1>4, <1>5

(* A provider is chosen and the row is queued (handler.rs, routing_state.rs). *)
LEMMA RouteKeeps ==
  ASSUME IInv, NEW r \in Requests, Route(r)
  PROVE  IInv'
<1>1. PICK p : p = Resolve(r)
  OBVIOUS
<1>2. PICK pc \in {"fail", "record", "send"}, result \in Results :
        req' = [req EXCEPT ![r].route = p, ![r].conf = {}, ![r].pc = pc, ![r].result = result]
  BY <1>1, RouteSends
<1>3. PICK q : q = [req[r] EXCEPT !.route = p, !.conf = {}, !.pc = pc, !.result = result]
  OBVIOUS
<1>4. req[r] \in States /\ NotEnded(req[r]) /\ p \in Providers \cup Choices
  BY <1>1, RouteIsChosen DEF IInv, Types, EndsAreLate
<1>5. req[r].pc = "route" /\ Untouched
  BY DEF Route, At, Untouched
<1>6. req' = [req EXCEPT ![r] = q]
  BY <1>2, <1>3, <1>4
<1>7. q \in States /\ q.pc = pc /\ q.end = req[r].end
  BY <1>3, <1>4 DEF States, Pcs, Results
<1>8. queue' = queue \/ queue' = Append(queue, Insert(r))
  BY EnqueueAppends DEF Route
<1>9. HandlerStep(r, q)
  BY <1>4, <1>5, <1>6, <1>7, <1>8 DEF HandlerStep, NotEnded
<1> QED BY <1>5, <1>9, HandlerKeeps

(* No provider serves the model (handler.rs). *)
LEMMA RouteNowhereKeeps ==
  ASSUME IInv, NEW r \in Requests, RouteNowhere(r)
  PROVE  IInv'
<1>1. PICK q : q = [req[r] EXCEPT !.pc = "fail", !.conf = {}, !.result = "bad"]
  OBVIOUS
<1>2. req[r] \in States /\ NotEnded(req[r])
  BY DEF IInv, Types, EndsAreLate
<1>3. req[r].pc = "route" /\ req' = [req EXCEPT ![r] = q] /\ Untouched
  BY <1>1, <1>2 DEF RouteNowhere, At, Untouched
<1>4. q \in States /\ q.pc = "fail" /\ q.end = req[r].end
  BY <1>1, <1>2 DEF States, Pcs, Results
<1>5. queue' = queue \/ queue' = Append(queue, Insert(r))
  BY EnqueueAppends DEF RouteNowhere
<1>6. HandlerStep(r, q)
  BY <1>2, <1>3, <1>4, <1>5 DEF HandlerStep, NotEnded
<1> QED BY <1>3, <1>6, HandlerKeeps

(* A request that waits for its provider is sent on, or to be recorded, or is left. *)
LEMMA SentSteps ==
  ASSUME IInv, NEW r \in Requests, NEW pc \in {"body", "record", "gone"}, NEW result \in Results,
         Sent(r, pc, result), queue' = queue,
         req[r].pc \in {"route", "send", "body", "record", "stream"},
         pc = "body" => req[r].pc = "send"
  PROVE  \E q : HandlerStep(r, q)
<1>1. PICK q : q = [req[r] EXCEPT !.pc = pc, !.result = result, !.tries = 0, !.retried = FALSE]
  OBVIOUS
<1>2. req[r] \in States /\ NotEnded(req[r])
  BY DEF IInv, Types, EndsAreLate
<1>3. req' = [req EXCEPT ![r] = q]
  BY <1>1, <1>2 DEF Sent
<1>4. q \in States /\ q.pc = pc /\ q.end = req[r].end
  BY <1>1, <1>2 DEF States, Pcs
<1>5. HandlerStep(r, q)
  BY <1>2, <1>3, <1>4 DEF HandlerStep, NotEnded
<1> QED BY <1>5

(* The transport fails and is tried again, or is given up (upstream.rs). *)
LEMMA TransportFailsKeeps ==
  ASSUME IInv, NEW r \in Requests, TransportFails(r)
  PROVE  IInv'
<1>1. req[r] \in States /\ NotEnded(req[r])
  BY DEF IInv, Types, EndsAreLate
<1>2. req[r].pc = "send" /\ queue' = queue /\ Untouched
  BY DEF TransportFails, At, Untouched, log
<1>3. CASE req[r].tries < Retries
  <2>1. PICK q : q = [req[r] EXCEPT !.tries = req[r].tries + 1]
    OBVIOUS
  <2>2. req' = [req EXCEPT ![r] = q]
    BY <1>1, <1>3, <2>1 DEF TransportFails
  <2>3. q \in States /\ q.pc = "send" /\ q.end = req[r].end
    BY <1>1, <1>2, <2>1 DEF States
  <2>4. HandlerStep(r, q)
    BY <1>1, <1>2, <2>2, <2>3 DEF HandlerStep, NotEnded
  <2> QED BY <1>2, <2>4, HandlerKeeps
<1>4. CASE ~(req[r].tries < Retries)
  <2>1. Sent(r, "record", "down") /\ "down" \in Results
    BY <1>4 DEF TransportFails, Results
  <2> QED BY <1>2, <2>1, SentSteps, HandlerKeeps
<1> QED BY <1>3, <1>4

(* A refused request is sent once more (handler.rs). *)
LEMMA RefusesKeeps ==
  ASSUME IInv, NEW r \in Requests, Refuses(r)
  PROVE  IInv'
<1>1. PICK q : q = [req[r] EXCEPT !.tries = 0, !.retried = TRUE]
  OBVIOUS
<1>2. req[r] \in States /\ NotEnded(req[r])
  BY DEF IInv, Types, EndsAreLate
<1>3. req[r].pc = "send" /\ req' = [req EXCEPT ![r] = q] /\ queue' = queue /\ Untouched
  BY <1>1, <1>2 DEF Refuses, At, Untouched, log
<1>4. q \in States /\ q.pc = "send" /\ q.end = req[r].end
  BY <1>1, <1>2, <1>3 DEF States
<1>5. HandlerStep(r, q)
  BY <1>2, <1>3, <1>4 DEF HandlerStep, NotEnded
<1> QED BY <1>3, <1>5, HandlerKeeps

(* The provider does not answer in time (upstream.rs). *)
LEMMA TimesOutKeeps ==
  ASSUME IInv, NEW r \in Requests, TimesOut(r)
  PROVE  IInv'
<1>1. req[r].pc \in {"send", "body"} /\ queue' = queue /\ Untouched
  BY DEF TimesOut, At, Untouched, log
<1>2. Sent(r, "record", "down") /\ "down" \in Results
  BY DEF TimesOut, Results
<1> QED BY <1>1, <1>2, SentSteps, HandlerKeeps

(* The response headers arrive (handler.rs). *)
LEMMA AnswersKeeps ==
  ASSUME IInv, NEW r \in Requests, Answers(r)
  PROVE  IInv'
<1>1. req[r].pc = "send" /\ queue' = queue /\ Untouched
  BY DEF Answers, At, Untouched, log
<1>2. PICK pc \in {"body", "record"}, answer \in Results : Sent(r, pc, answer)
  BY DEF Answers, Results
<1> QED BY <1>1, <1>2, SentSteps, HandlerKeeps

(* An unary answer is read to its end (handler.rs). *)
LEMMA BodyKeeps ==
  ASSUME IInv, NEW r \in Requests, Body(r)
  PROVE  IInv'
<1>1. PICK status \in Final :
        /\ req' = [req EXCEPT ![r].pc = "record", ![r].end = status]
        /\ Enqueue(r, Update(r, status))
  BY DEF Body, Final
<1>2. PICK q : q = [req[r] EXCEPT !.pc = "record", !.end = status]
  OBVIOUS
<1>3. req[r] \in States /\ NotEnded(req[r])
  BY DEF IInv, Types, EndsAreLate
<1>4. req[r].pc = "body" /\ Untouched
  BY DEF Body, At, Untouched
<1>5. req' = [req EXCEPT ![r] = q]
  BY <1>1, <1>2, <1>3
<1>6. q \in States /\ q.pc = "record" /\ q.end = status
  BY <1>2, <1>3 DEF States, Pcs, Final
<1>7. queue' = queue \/ queue' = Append(queue, Update(r, status))
  BY <1>1, EnqueueAppends
<1>8. HandlerStep(r, q)
  BY <1>3, <1>4, <1>5, <1>6, <1>7 DEF HandlerStep, NotEnded
<1> QED BY <1>4, <1>8, HandlerKeeps

(* The handler notes a failure of its own (handler.rs, update_failed_log). *)
LEMMA FailKeeps ==
  ASSUME IInv, NEW r \in Requests, Fail(r)
  PROVE  IInv'
<1>1. PICK q : q = [req[r] EXCEPT !.pc = "done", !.end = "failed"]
  OBVIOUS
<1>2. req[r] \in States /\ NotEnded(req[r])
  BY DEF IInv, Types, EndsAreLate
<1>3. req[r].pc = "fail" /\ req' = [req EXCEPT ![r] = q] /\ Untouched
  BY <1>1, <1>2 DEF Fail, At, Untouched
<1>4. q \in States /\ q.pc = "done" /\ q.end = "failed" /\ q.end \in Final
      /\ q.route = req[r].route /\ q.result = req[r].result
  BY <1>1, <1>2 DEF States, Pcs, Final
<1>5. queue' = queue \/ queue' = Append(queue, Update(r, q.end))
  BY <1>4, EnqueueAppends DEF Fail
<1>6. HandlerStep(r, q)
  BY <1>2, <1>3, <1>4, <1>5 DEF HandlerStep, NotEnded
<1> QED BY <1>3, <1>6, HandlerKeeps

(* The stream shows its terminal event (handler.rs, ResponsesSseLogStream). *)
LEMMA TerminalKeeps ==
  ASSUME IInv, NEW r \in Requests, Terminal(r)
  PROVE  IInv'
<1>1. PICK status \in Final :
        req' = [req EXCEPT ![r].end = status] /\ Enqueue(r, Update(r, status))
  BY DEF Terminal, Final
<1>2. PICK q : q = [req[r] EXCEPT !.end = status]
  OBVIOUS
<1>3. req[r] \in States
  BY DEF IInv, Types
<1>4. req[r].pc = "stream" /\ req[r].end = "open" /\ Untouched
  BY DEF Terminal, At, Untouched
<1>5. req' = [req EXCEPT ![r] = q]
  BY <1>1, <1>2, <1>3
<1>6. q \in States /\ q.pc = "stream" /\ q.end = status
  BY <1>2, <1>3, <1>4 DEF States, Final
<1>7. queue' = queue \/ queue' = Append(queue, Update(r, status))
  BY <1>1, EnqueueAppends
<1>8. HandlerStep(r, q)
  BY <1>4, <1>5, <1>6, <1>7 DEF HandlerStep, NotEnded
<1> QED BY <1>4, <1>8, HandlerKeeps

(* What closes a stream ends what is still open, and nothing else. *)
LEMMA ClosesSteps ==
  ASSUME IInv, NEW r \in Requests, NEW pc \in {"done", "gone"}, NEW status \in Final,
         Closes(r, pc, status), req[r].pc \in {"record", "stream"}
  PROVE  \E q : HandlerStep(r, q)
<1>1. req[r] \in States
  BY DEF IInv, Types
<1>2. CASE req[r].end = "open"
  <2>1. PICK q : q = [req[r] EXCEPT !.pc = pc, !.end = status]
    OBVIOUS
  <2>2. req' = [req EXCEPT ![r].pc = pc, ![r].end = status]
        /\ Enqueue(r, Update(r, status))
    BY <1>2 DEF Closes
  <2>3. req' = [req EXCEPT ![r] = q]
    BY <1>1, <2>1, <2>2
  <2>4. q \in States /\ q.pc = pc /\ q.end = status
    BY <1>1, <2>1 DEF States, Pcs, Final
  <2>5. queue' = queue \/ queue' = Append(queue, Update(r, status))
    BY <2>2, EnqueueAppends
  <2> QED BY <1>2, <2>3, <2>4, <2>5 DEF HandlerStep, NotEnded
<1>3. CASE req[r].end # "open"
  <2>1. PICK q : q = [req[r] EXCEPT !.pc = pc]
    OBVIOUS
  <2>2. req' = [req EXCEPT ![r].pc = pc] /\ queue' = queue
    BY <1>3 DEF Closes
  <2>3. req' = [req EXCEPT ![r] = q]
    BY <1>1, <2>1, <2>2
  <2>4. q \in States /\ q.pc = pc /\ q.end = req[r].end
    BY <1>1, <2>1 DEF States, Pcs
  <2> QED BY <2>2, <2>3, <2>4 DEF HandlerStep, NotEnded
<1> QED BY <1>2, <1>3

(* The upstream closes or breaks the stream. *)
LEMMA StreamEndsKeeps ==
  ASSUME IInv, NEW r \in Requests, StreamEnds(r)
  PROVE  IInv'
<1>1. req[r].pc = "stream" /\ Closes(r, "done", "failed") /\ Untouched
  BY DEF StreamEnds, At, Untouched
<1>2. \E q : HandlerStep(r, q)
  BY <1>1, ClosesSteps DEF Final
<1> QED BY <1>1, <1>2, HandlerKeeps

(* The client leaves. *)
LEMMA LeaveKeeps ==
  ASSUME IInv, NEW r \in Requests, Leave(r)
  PROVE  IInv'
<1>1. req[r].pc \in {"route", "send", "body", "record", "stream"} /\ Untouched
  BY DEF Leave, At, Untouched
<1>2. CASE DropsStream(r)
  <2>1. Closes(r, "gone", "cancelled") /\ req[r].pc \in {"record", "stream"}
    BY <1>2 DEF Leave, DropsStream
  <2>2. \E q : HandlerStep(r, q)
    BY <2>1, ClosesSteps DEF Final
  <2> QED BY <1>1, <2>2, HandlerKeeps
<1>3. CASE ~DropsStream(r)
  <2>1. Sent(r, "gone", req[r].result) /\ queue' = queue
    BY <1>3 DEF Leave
  <2>2. req[r] \in States /\ req[r].result \in Results
    BY DEF IInv, Types, States
  <2>3. \E q : HandlerStep(r, q)
    BY <1>1, <2>1, <2>2, SentSteps
  <2> QED BY <1>1, <2>3, HandlerKeeps
<1> QED BY <1>2, <1>3

(* The outcome is recorded: one failure more for one request more (routing_state.rs). *)
LEMMA RecordKeeps ==
  ASSUME IInv, NEW r \in Requests, Record(r)
  PROVE  IInv'
<1>1. PICK q : q = [req[r] EXCEPT !.pc = AfterRecord(r)]
  OBVIOUS
<1>2. PICK route : route = req[r].route
  OBVIOUS
<1>3. PICK outcome \in {"success", "failure", "ignored"} :
        /\ health' = [health EXCEPT ![route] = Judge(health[route], outcome)]
        /\ outcome = "failure" => req[r].result \in Failures
  <2>1. PICK outcome : outcome = Outcome(req[r].result)
    OBVIOUS
  <2>2. outcome \in {"success", "failure", "ignored"} /\ (outcome = "failure" => req[r].result \in Failures)
    BY <2>1 DEF Outcome
  <2>3. health' = [health EXCEPT ![route] = Judge(health[route], outcome)]
    BY <1>2, <2>1 DEF Record
  <2> QED BY <2>2, <2>3
<1>4. req[r] \in States /\ req[r].pc = "record" /\ queue' = queue /\ UNCHANGED <<config, clock, rows>>
  BY DEF IInv, Types, Record, At, log
<1>5. req' = [req EXCEPT ![r] = q]
  <2>1. req' = [req EXCEPT ![r].pc = AfterRecord(r)]
    BY DEF Record
  <2> QED BY <1>1, <2>1
<1>6. AfterRecord(r) \in {"done", "stream", "fail"} /\ (AfterRecord(r) = "fail" => req[r].end = "open")
      /\ (req[r].result \in Failures => AfterRecord(r) \in {"done", "fail"})
  BY DEF AfterRecord, Failures
<1>7. q \in States /\ q.pc = AfterRecord(r) /\ q.end = req[r].end
      /\ q.route = route /\ q.result = req[r].result
  BY <1>1, <1>2, <1>4, <1>6 DEF States, Pcs
<1>8. HandlerStep(r, q)
  BY <1>4, <1>5, <1>6, <1>7 DEF HandlerStep, NotEnded
<1>9. health' \in [Providers -> [failures : Nat, until : Nat]]
  <2>1. health \in [Providers -> [failures : Nat, until : Nat]] /\ clock \in Nat
    BY DEF IInv, Types
  <2>2. ASSUME route \in Providers
        PROVE  Judge(health[route], outcome) \in [failures : Nat, until : Nat]
    <3>1. health[route] \in [failures : Nat, until : Nat]
      BY <2>1, <2>2
    <3>2. CASE outcome = "success"
      BY <3>2 DEF Judge
    <3>3. CASE outcome = "failure"
      <4>1. (IF health[route].failures + 1 >= Threshold THEN clock + Cooldown ELSE health[route].until) \in Nat
        BY <2>1, <3>1, GatewayAssumption
      <4> QED BY <3>1, <3>3, <4>1 DEF Judge
    <3>4. CASE outcome = "ignored"
      BY <3>1, <3>4 DEF Judge
    <3> QED BY <3>2, <3>3, <3>4
  <2> QED BY <1>3, <2>1, <2>2
<1>10. Types'
  BY <1>4, <1>8, <1>9, HandlerTypes DEF IInv, Types
<1>11. EndsAreLate' /\ QueueMatchesEnd' /\ RowMatchesEnd'
  BY <1>4, <1>8, HandlerEnds, HandlerWrites DEF IInv
<1>12. \A p \in Providers : Told(p) \subseteq Told(p)' /\ IsFiniteSet(Told(p)') /\ IsFiniteSet(Told(p))
  <2>1. \A p \in Providers : Told(p) \subseteq Told(p)'
    BY <1>8, HandlerTold DEF IInv
  <2>2. \A p \in Providers : IsFiniteSet(Told(p))
    BY GatewayAssumption, FS_Subset DEF Told
  <2>3. \A p \in Providers : IsFiniteSet(Told(p)')
    BY GatewayAssumption, FS_Subset DEF Told
  <2> QED BY <2>1, <2>2, <2>3
<1>13. FailuresWereTold'
  <2>1. ASSUME NEW p \in Providers
        PROVE  /\ health'[p].until = 0 \/ health'[p].failures >= Threshold
               /\ health'[p].failures <= Cardinality(Told(p)')
    <3>1. /\ health[p].until = 0 \/ health[p].failures >= Threshold
          /\ health[p].failures <= Cardinality(Told(p))
          /\ health[p] \in [failures : Nat, until : Nat]
      BY DEF IInv, FailuresWereTold, Types
    <3>2. Cardinality(Told(p)) \in Nat /\ Cardinality(Told(p)') \in Nat
          /\ Cardinality(Told(p)) <= Cardinality(Told(p)')
      BY <1>12, FS_Subset, FS_CardinalityType
    <3>3. CASE p # route \/ outcome = "ignored"
      <4>1. health'[p] = health[p]
        BY <1>3, <3>3 DEF Judge, IInv, Types
      <4> QED BY <3>1, <3>2, <4>1
    <3>4. CASE p = route /\ outcome = "success"
      <4>1. health'[p] = [failures |-> 0, until |-> 0]
        BY <1>3, <3>4 DEF Judge, IInv, Types
      <4> QED BY <3>2, <4>1
    <3>5. CASE p = route /\ outcome = "failure"
      <4>1. health'[p] = [failures |-> health[p].failures + 1,
                          until |-> IF health[p].failures + 1 >= Threshold
                                    THEN clock + Cooldown ELSE health[p].until]
        BY <1>3, <3>5 DEF Judge, IInv, Types
      <4>2. r \notin Told(p)
        BY <1>4 DEF Told
      <4>3. r \in Told(p)'
        <5>1. req'[r] = q
          BY <1>5 DEF IInv, Types
        <5>2. q.pc \in {"fail", "done", "gone"} /\ q.route = p /\ q.result \in Failures
          BY <1>3, <1>6, <1>7, <3>5
        <5> QED BY <5>1, <5>2 DEF Told
      <4>4. Cardinality(Told(p) \cup {r}) = Cardinality(Told(p)) + 1
            /\ IsFiniteSet(Told(p) \cup {r})
        BY <1>12, <4>2, FS_AddElement
      <4>5. Cardinality(Told(p) \cup {r}) <= Cardinality(Told(p)')
        <5>1. Told(p) \cup {r} \subseteq Told(p)'
          BY <1>12, <4>3
        <5> QED BY <1>12, <5>1, FS_Subset
      <4>6. health[p].failures + 1 <= Cardinality(Told(p)')
        BY <3>1, <3>2, <4>4, <4>5
      <4>7. health'[p].failures = health[p].failures + 1
        BY <4>1
      <4>8. health'[p].until = 0 \/ health'[p].failures >= Threshold
        <5>1. CASE health[p].failures + 1 >= Threshold
          BY <4>7, <5>1
        <5>2. CASE ~(health[p].failures + 1 >= Threshold)
          <6>1. health'[p].until = health[p].until
            BY <4>1, <5>2
          <6>2. health[p].until = 0
            BY <3>1, <5>2, GatewayAssumption
          <6> QED BY <6>1, <6>2
        <5> QED BY <5>1, <5>2
      <4> QED BY <4>6, <4>7, <4>8
    <3> QED BY <3>3, <3>4, <3>5
  <2> QED BY <2>1 DEF FailuresWereTold
<1> QED BY <1>10, <1>11, <1>13 DEF IInv

-----------------------------------------------------------------------------
(* The writer, the readers and the maintenance.                             *)

(* What no step of the log's own touches. *)
HandlersStand == UNCHANGED <<config, req, health>>

(* While the requests and the breaker stand, so do the counts and the ends. *)
LEMMA HandlersStandKeeps ==
  ASSUME IInv, HandlersStand
  PROVE  EndsAreLate' /\ FailuresWereTold'
<1>1. EndsAreLate'
  BY DEF IInv, HandlersStand, EndsAreLate, NotEnded
<1>2. FailuresWereTold'
  BY DEF IInv, HandlersStand, FailuresWereTold, Told
<1> QED BY <1>1, <1>2

(* Taking the first command off leaves the rest as they were. *)
LEMMA QueueTail ==
  ASSUME IInv, req' = req, queue # <<>>, queue' = Tail(queue)
  PROVE  /\ queue' \in Seq(Commands) /\ QueueMatchesEnd'
         /\ Head(queue) = queue[1] /\ 1 \in DOMAIN queue /\ Head(queue) \in Commands
<1>1. queue \in Seq(Commands) /\ Len(queue) >= 1
  BY DEF IInv, Types
<1>2. queue' \in Seq(Commands) /\ Head(queue) = queue[1] /\ 1 \in DOMAIN queue /\ Head(queue) \in Commands
  BY <1>1
<1>3. \A i \in DOMAIN queue' : i + 1 \in DOMAIN queue /\ queue'[i] = queue[i + 1]
  BY <1>1
<1>4. QueueMatchesEnd'
  BY <1>3 DEF IInv, QueueMatchesEnd
<1> QED BY <1>2, <1>4

(* A command of the log's own is appended. *)
LEMMA QueueAppend ==
  ASSUME IInv, req' = req, NEW c \in Commands, c.op # "update", queue' = Append(queue, c)
  PROVE  queue' \in Seq(Commands) /\ QueueMatchesEnd'
<1>1. queue \in Seq(Commands)
  BY DEF IInv, Types
<1>2. queue' \in Seq(Commands)
      /\ \A i \in DOMAIN queue' : queue'[i] = c \/ (i \in DOMAIN queue /\ queue'[i] = queue[i])
  BY <1>1
<1>3. QueueMatchesEnd'
  BY <1>2 DEF IInv, QueueMatchesEnd
<1> QED BY <1>2, <1>3

(* An insert or an update is written (request_log.rs). *)
LEMMA WriteKeeps ==
  ASSUME IInv, Write
  PROVE  IInv'
<1>1. HandlersStand /\ queue # <<>> /\ queue' = Tail(queue) /\ req' = req /\ clock' = clock
  BY DEF Write, HandlersStand
<1>2. PICK c : c = Head(queue)
  OBVIOUS
<1>3. c \in Commands /\ (c.op = "update" => c.status = req[c.row].end)
  BY <1>1, <1>2, QueueTail DEF IInv, QueueMatchesEnd
<1>4. \/ rows' = rows
      \/ c.op = "insert" /\ rows' = [rows EXCEPT ![c.row] = "running"]
      \/ c.op = "update" /\ rows' = [rows EXCEPT ![c.row] = c.status]
  <2>1. rows' = Apply(c)
    BY <1>2 DEF Write
  <2>2. CASE c.op = "insert"
    BY <2>1, <2>2 DEF Apply
  <2>3. CASE c.op = "update" /\ rows[c.row] # "none"
    BY <2>1, <2>3 DEF Apply
  <2>4. CASE ~(c.op = "insert") /\ ~(c.op = "update" /\ rows[c.row] # "none")
    BY <2>1, <2>4 DEF Apply
  <2> QED BY <2>2, <2>3, <2>4
<1>5. rows \in [Requests -> {"none"} \cup Statuses]
  BY DEF IInv, Types
<1>6. rows' \in [Requests -> {"none"} \cup Statuses] /\ RowMatchesEnd'
  <2>1. CASE rows' = rows
    BY <1>1, <1>5, <2>1 DEF IInv, RowMatchesEnd
  <2>2. CASE c.op = "insert" /\ rows' = [rows EXCEPT ![c.row] = "running"]
    BY <1>1, <1>5, <2>2 DEF IInv, RowMatchesEnd, Statuses, Final
  <2>3. CASE c.op = "update" /\ rows' = [rows EXCEPT ![c.row] = c.status]
    <3>1. c.row \in Requests /\ c.status \in Final /\ c.status = req[c.row].end
      BY <1>3, <2>3, CommandFields
    <3> QED BY <1>1, <1>5, <2>3, <3>1 DEF IInv, RowMatchesEnd, Statuses
  <2> QED BY <1>4, <2>1, <2>2, <2>3
<1>7. queue' \in Seq(Commands) /\ QueueMatchesEnd'
  BY <1>1, QueueTail
<1>8. Types'
  BY <1>1, <1>6, <1>7 DEF IInv, Types, HandlersStand
<1> QED BY <1>1, <1>6, <1>7, <1>8, HandlersStandKeeps DEF IInv

(* A write fails (request_log.rs), or a barrier is reached. *)
LEMMA DropKeeps ==
  ASSUME IInv, WriteFails \/ Barrier
  PROVE  IInv'
<1>1. HandlersStand /\ queue # <<>> /\ queue' = Tail(queue) /\ UNCHANGED <<req, rows, clock>>
  BY DEF WriteFails, Barrier, HandlersStand
<1>2. queue' \in Seq(Commands) /\ QueueMatchesEnd'
  BY <1>1, QueueTail
<1>3. Types' /\ RowMatchesEnd'
  BY <1>1, <1>2 DEF IInv, Types, HandlersStand, RowMatchesEnd
<1> QED BY <1>1, <1>2, <1>3, HandlersStandKeeps DEF IInv

(* Rows are deleted (request_log.rs, delete_all and delete_older_than). *)
LEMMA RunCleanKeeps ==
  ASSUME IInv, RunClean
  PROVE  IInv'
<1>1. HandlersStand /\ queue # <<>> /\ queue' = Tail(queue) /\ UNCHANGED <<req, clock>>
  BY DEF RunClean, HandlersStand
<1>2. queue' \in Seq(Commands) /\ QueueMatchesEnd'
  BY <1>1, QueueTail
<1>3. PICK old : rows' = [r \in Requests |-> IF r \in old THEN "none" ELSE rows[r]]
  BY DEF RunClean
<1>4. rows' \in [Requests -> {"none"} \cup Statuses] /\ RowMatchesEnd'
  BY <1>1, <1>3 DEF IInv, Types, RowMatchesEnd, Final
<1>5. Types'
  BY <1>1, <1>2, <1>4 DEF IInv, Types, HandlersStand
<1> QED BY <1>1, <1>2, <1>4, <1>5, HandlersStandKeeps DEF IInv

(* A reader asks for a barrier, the maintenance for a deletion. *)
LEMMA AskingKeeps ==
  ASSUME IInv, Flush \/ SendClean
  PROVE  IInv'
<1>1. HandlersStand /\ UNCHANGED <<req, rows, clock>>
  BY DEF Flush, SendClean, HandlersStand
<1>2. PICK c \in Commands : c.op # "update" /\ queue' = Append(queue, c)
  <2>1. CASE Flush
    <3>1. queue' = Append(queue, [op |-> "barrier"])
      BY <2>1 DEF Flush
    <3>2. PICK c : c = [op |-> "barrier"]
      OBVIOUS
    <3>3. c \in Commands /\ c.op = "barrier"
      BY <3>2 DEF Commands
    <3> QED BY <3>1, <3>2, <3>3
  <2>2. CASE SendClean
    <3>1. PICK old \in {Requests, {r \in Requests : At(r, {"done", "gone"})}} :
            queue' = Append(queue, [op |-> "clean", old |-> old])
      BY <2>2 DEF SendClean
    <3>2. PICK c : c = [op |-> "clean", old |-> old]
      OBVIOUS
    <3>3. c \in Commands /\ c.op = "clean"
      <4>1. old \in SUBSET Requests
        OBVIOUS
      <4> QED BY <3>2, <4>1 DEF Commands
    <3> QED BY <3>1, <3>2, <3>3
  <2> QED BY <2>1, <2>2
<1>3. queue' \in Seq(Commands) /\ QueueMatchesEnd'
  BY <1>1, <1>2, QueueAppend
<1>4. Types' /\ RowMatchesEnd'
  BY <1>1, <1>3 DEF IInv, Types, HandlersStand, RowMatchesEnd
<1> QED BY <1>1, <1>3, <1>4, HandlersStandKeeps DEF IInv

(* The rest leaves requests, queue and table alone. *)
LEMMA OthersKeep ==
  ASSUME IInv, Ask \/ Read \/ Clean \/ Configure \/ Tick \/ UNCHANGED vars
  PROVE  IInv'
<1>1. UNCHANGED <<req, health, queue, rows>>
  BY DEF Ask, Read, Clean, Configure, Tick, vars, log
<1>2. config' \in [enabled : SUBSET Providers, log : BOOLEAN]
  <2>1. config \in [enabled : SUBSET Providers, log : BOOLEAN]
    BY DEF IInv, Types
  <2>2. CASE config' = config
    BY <2>1, <2>2
  <2>3. CASE Configure
    <3>1. PICK p \in Providers : config' = [config EXCEPT !.enabled =
              IF p \in config.enabled THEN config.enabled \ {p} ELSE config.enabled \cup {p}]
      BY <2>3 DEF Configure
    <3> QED BY <2>1, <3>1
  <2> QED BY <2>2, <2>3 DEF Ask, Read, Clean, Tick, vars
<1>3. clock' \in Nat
  BY DEF IInv, Types, Ask, Read, Clean, Configure, Tick, vars
<1>4. Types'
  BY <1>1, <1>2, <1>3 DEF IInv, Types
<1>5. EndsAreLate' /\ QueueMatchesEnd' /\ RowMatchesEnd' /\ FailuresWereTold'
  BY <1>1 DEF IInv, EndsAreLate, NotEnded, QueueMatchesEnd, RowMatchesEnd, FailuresWereTold, Told
<1> QED BY <1>4, <1>5 DEF IInv

-----------------------------------------------------------------------------
(* The barrier of a listing.                                                *)

Inserts(i, r) == queue[i].op = "insert" /\ queue[i].row = r
Updates(i, r) == queue[i].op = "update" /\ queue[i].row = r

\* the table no longer says that r runs, and will not say so again
Shown(r) == rows[r] # "running" /\ \A i \in DOMAIN queue : ~Inserts(i, r)

\* the end of r is queued before place n, behind its insert
Coming(r, n) ==
  \E i \in DOMAIN queue : /\ i < n /\ Updates(i, r)
                          /\ \A j \in DOMAIN queue : Inserts(j, r) => j < i

Over(r) == req[r].logged /\ req[r].end # "open"

\* the end of a logged request has been written or is queued
EndsArrive == \A r \in Requests \ lost : Over(r) => Shown(r) \/ Coming(r, Len(queue) + 1)

ReaderTypes == reader \in [pc : {"idle", "locked", "waiting", "reading"}, owed : SUBSET Requests]
OwedAreOver == \A r \in reader.owed : Over(r)

\* there is one barrier at most, and what it answers for stands before it
BarrierIsBehind ==
  \A b \in DOMAIN queue : queue[b].op = "barrier" =>
    /\ reader.pc = "waiting"
    /\ \A r \in reader.owed \ lost : Shown(r) \/ Coming(r, b)
    /\ \A c \in DOMAIN queue : queue[c].op = "barrier" => c = b

ReadingIsShown == reader.pc = "reading" => \A r \in reader.owed \ lost : Shown(r)

BarrierInv == ReaderTypes /\ EndsArrive /\ OwedAreOver /\ BarrierIsBehind /\ ReadingIsShown

(* A command behind the others changes nothing for a request it does not    *)
(* insert.                                                                  *)
LEMMA AppendShows ==
  ASSUME queue \in Seq(Commands), NEW c, queue' = Append(queue, c), rows' = rows,
         NEW r, ~(c.op = "insert" /\ c.row = r)
  PROVE  /\ Shown(r) => Shown(r)'
         /\ \A n : Coming(r, n) => Coming(r, n)'
<1>1. /\ \A i \in DOMAIN queue : i \in DOMAIN queue' /\ queue'[i] = queue[i]
      /\ \A i \in DOMAIN queue' : i \in DOMAIN queue \/ queue'[i] = c
  OBVIOUS
<1>2. \A i \in DOMAIN queue : (Inserts(i, r)' <=> Inserts(i, r)) /\ (Updates(i, r)' <=> Updates(i, r))
  BY <1>1 DEF Inserts, Updates
<1>3. \A i \in DOMAIN queue' : Inserts(i, r)' => i \in DOMAIN queue /\ Inserts(i, r)
  BY <1>1, <1>2 DEF Inserts
<1>4. Shown(r) => Shown(r)'
  BY <1>3 DEF Shown
<1>5. \A n : Coming(r, n) => Coming(r, n)'
  BY <1>1, <1>2, <1>3 DEF Coming
<1> QED BY <1>4, <1>5

(* Taking the first command off: what it wrote, the table shows.            *)
LEMMA TailShows ==
  ASSUME queue \in Seq(Commands), queue # <<>>, queue' = Tail(queue), NEW r,
         rows'[r] = "running" => Inserts(1, r) \/ (rows[r] = "running" /\ ~Updates(1, r))
  PROVE  /\ Shown(r) => Shown(r)'
         /\ \A n \in Nat : Coming(r, n + 1) => Shown(r)' \/ Coming(r, n)'
<1>1. /\ 1 \in DOMAIN queue
      /\ \A i \in DOMAIN queue' : i \in Nat /\ i + 1 \in DOMAIN queue /\ queue'[i] = queue[i + 1]
      /\ \A i \in DOMAIN queue : i = 1 \/ (i - 1 \in DOMAIN queue' /\ queue'[i - 1] = queue[i] /\ i \in Nat)
  OBVIOUS
<1>2. \A i \in DOMAIN queue' : (Inserts(i, r)' <=> Inserts(i + 1, r)) /\ (Updates(i, r)' <=> Updates(i + 1, r))
  BY <1>1 DEF Inserts, Updates
<1>3. Shown(r) => Shown(r)'
  BY <1>1, <1>2 DEF Shown
<1>4. ASSUME NEW n \in Nat, Coming(r, n + 1)
      PROVE  Shown(r)' \/ Coming(r, n)'
  <2>1. PICK i \in DOMAIN queue : /\ i < n + 1 /\ Updates(i, r)
                                  /\ \A j \in DOMAIN queue : Inserts(j, r) => j < i
    BY <1>4 DEF Coming
  <2>2. CASE i = 1
    <3>1. \A j \in DOMAIN queue : ~Inserts(j, r)
      BY <2>1, <2>2
    <3>2. rows'[r] # "running"
      BY <1>1, <2>1, <2>2, <3>1
    <3> QED BY <1>1, <1>2, <3>1, <3>2 DEF Shown
  <2>3. CASE i # 1
    <3>1. i - 1 \in DOMAIN queue' /\ i \in Nat /\ (i - 1) + 1 = i
      BY <1>1, <2>3
    <3>2. i - 1 < n /\ Updates(i - 1, r)'
      BY <1>2, <2>1, <3>1
    <3>3. \A j \in DOMAIN queue' : Inserts(j, r)' => j < i - 1
      BY <1>1, <1>2, <2>1, <3>1
    <3> QED BY <3>1, <3>2, <3>3 DEF Coming
  <2> QED BY <2>2, <2>3
<1> QED BY <1>3, <1>4

(* What a handler does to the log (handler.rs, request_log.rs try_send): it *)
(* says nothing, or its word is lost, or an insert while the request has no *)
(* end, or the end.                                                         *)
LogStep(r) ==
  /\ UNCHANGED <<rows, reader>>
  /\ \A s \in Requests : /\ Over(s) => Over(s)'
                         /\ s # r => (Over(s)' => Over(s))
  /\ \/ UNCHANGED <<queue, lost>> /\ (Over(r)' => Over(r))
     \/ queue' = queue /\ lost' = lost \cup {r}
     \/ queue' = Append(queue, Insert(r)) /\ lost' = lost /\ ~Over(r)'
     \/ lost' = lost /\ \E status \in Final : queue' = Append(queue, Update(r, status))

(* An append that inserts nothing which is over, and is no barrier.         *)
LEMMA AppendKeepsBarriers ==
  ASSUME IInv, BarrierInv, UNCHANGED <<rows, reader>>, lost \subseteq lost',
         \A s \in Requests : Over(s) => Over(s)',
         NEW c \in Commands, queue' = Append(queue, c), c.op # "barrier",
         \A s \in Requests : c.op = "insert" /\ c.row = s => ~Over(s),
         \A s \in Requests : Over(s)' /\ ~Over(s) => c.op = "update" /\ c.row = s
  PROVE  BarrierInv'
<1>1. /\ queue \in Seq(Commands) /\ Len(queue) \in Nat /\ Len(queue') = Len(queue) + 1
      /\ \A i \in DOMAIN queue : i \in DOMAIN queue' /\ queue'[i] = queue[i] /\ i < Len(queue) + 1
      /\ \A i \in DOMAIN queue' : i \in DOMAIN queue \/ (i = Len(queue) + 1 /\ queue'[i] = c)
      /\ Len(queue) + 1 \in DOMAIN queue' /\ queue'[Len(queue) + 1] = c
  BY DEF IInv, Types
<1>2. \A s \in Requests : Over(s) =>
        /\ Shown(s) => Shown(s)'
        /\ \A n : Coming(s, n) => Coming(s, n)'
  BY <1>1, AppendShows
<1>3. ReaderTypes' /\ OwedAreOver'
  BY DEF BarrierInv, ReaderTypes, OwedAreOver
<1>4. reader.owed \subseteq Requests /\ \A s \in reader.owed : Over(s)
  BY DEF BarrierInv, ReaderTypes, OwedAreOver
<1>5. \A s \in Requests, n \in Nat : Coming(s, n) => Coming(s, n + 1)
  <2>1. \A i \in DOMAIN queue : i \in Nat
    BY <1>1
  <2> QED BY <2>1 DEF Coming
<1>6. EndsArrive'
  <2>0. PICK n \in Nat : n = Len(queue) + 1
    BY <1>1
  <2> SUFFICES ASSUME NEW s \in Requests, s \notin lost', Over(s)'
               PROVE  Shown(s)' \/ Coming(s, n + 1)'
    BY <1>1, <2>0 DEF EndsArrive
  <2>1. CASE Over(s)
    <3>1. Shown(s) \/ Coming(s, n)
      BY <2>0, <2>1 DEF BarrierInv, EndsArrive
    <3> QED BY <1>2, <1>5, <2>1, <3>1
  <2>2. CASE ~Over(s)
    <3>1. c.op = "update" /\ c.row = s
      BY <2>2
    <3>2. n \in DOMAIN queue' /\ queue'[n] = c /\ n < n + 1
      BY <1>1, <2>0
    <3>3. Updates(n, s)'
      BY <3>1, <3>2 DEF Updates
    <3>4. \A j \in DOMAIN queue' : Inserts(j, s)' => j < n
      BY <1>1, <2>0, <3>1 DEF Inserts
    <3> QED BY <3>2, <3>3, <3>4 DEF Coming
  <2> QED BY <2>1, <2>2
<1>7. BarrierIsBehind'
  <2>1. ASSUME NEW b \in DOMAIN queue', queue'[b].op = "barrier"
        PROVE  b \in DOMAIN queue /\ queue[b].op = "barrier"
    BY <1>1, <2>1
  <2>2. ASSUME NEW b \in DOMAIN queue, queue[b].op = "barrier"
        PROVE  /\ reader.pc = "waiting"
               /\ \A s \in reader.owed \ lost' : Shown(s)' \/ Coming(s, b)'
    BY <1>2, <1>4, <2>2 DEF BarrierInv, BarrierIsBehind
  <2>3. \A b, d \in DOMAIN queue : queue[b].op = "barrier" /\ queue[d].op = "barrier" => d = b
    BY DEF BarrierInv, BarrierIsBehind
  <2> QED BY <2>1, <2>2, <2>3 DEF BarrierIsBehind
<1>8. ReadingIsShown'
  BY <1>2, <1>4 DEF BarrierInv, ReadingIsShown
<1> QED BY <1>3, <1>6, <1>7, <1>8 DEF BarrierInv

(* While the queue and the table stand.                                     *)
LEMMA StandKeepsBarriers ==
  ASSUME BarrierInv, UNCHANGED <<rows, reader, queue>>, lost \subseteq lost',
         \A s \in Requests : Over(s) => Over(s)',
         \A s \in Requests \ lost' : Over(s)' => Over(s)
  PROVE  BarrierInv'
<1>1. \A s \in Requests : Shown(s)' <=> Shown(s)
  BY DEF Shown, Inserts
<1>2. \A s \in Requests : \A n : Coming(s, n)' <=> Coming(s, n)
  BY DEF Coming, Inserts, Updates
<1>3. ReaderTypes' /\ OwedAreOver' /\ reader.owed \subseteq Requests
  BY DEF BarrierInv, ReaderTypes, OwedAreOver
<1>4. EndsArrive'
  BY <1>1, <1>2 DEF BarrierInv, EndsArrive
<1>5. BarrierIsBehind' /\ ReadingIsShown'
  BY <1>1, <1>2, <1>3 DEF BarrierInv, BarrierIsBehind, ReadingIsShown
<1> QED BY <1>3, <1>4, <1>5 DEF BarrierInv

LEMMA LogStepKeeps ==
  ASSUME IInv, BarrierInv, NEW r \in Requests, LogStep(r)
  PROVE  BarrierInv'
<1>1. CASE UNCHANGED <<queue, lost>> /\ (Over(r)' => Over(r))
  BY <1>1, StandKeepsBarriers DEF LogStep
<1>2. CASE queue' = queue /\ lost' = lost \cup {r}
  BY <1>2, StandKeepsBarriers DEF LogStep
<1>3. CASE queue' = Append(queue, Insert(r)) /\ lost' = lost /\ ~Over(r)'
  <2>1. PICK c \in Commands : c = Insert(r) /\ c.op = "insert" /\ c.row = r
    BY CommandsAreTyped DEF Insert
  <2>2. ~Over(r)
    BY <1>3 DEF LogStep
  <2> QED BY <1>3, <2>1, <2>2, AppendKeepsBarriers DEF LogStep
<1>4. CASE lost' = lost /\ \E status \in Final : queue' = Append(queue, Update(r, status))
  <2>1. PICK status \in Final : queue' = Append(queue, Update(r, status))
    BY <1>4
  <2>2. PICK c \in Commands : c = Update(r, status) /\ c.op = "update" /\ c.row = r
    BY CommandsAreTyped
  <2> QED BY <1>4, <2>1, <2>2, AppendKeepsBarriers DEF LogStep
<1> QED BY <1>1, <1>2, <1>3, <1>4 DEF LogStep

(* How a word for the log ends (request_log.rs, try_send).                  *)
LEMMA EnqueueLoses ==
  ASSUME NEW r \in Requests, NEW c, Enqueue(r, c)
  PROVE  \/ ~req[r].logged /\ UNCHANGED <<queue, lost>>
         \/ queue' = Append(queue, c) /\ lost' = lost
         \/ queue' = queue /\ lost' = lost \cup {r}
<1>1. CASE ~req[r].logged
  BY <1>1 DEF Enqueue
<1>2. CASE req[r].logged /\ Len(queue) < Capacity
  BY <1>2 DEF Enqueue
<1>3. CASE req[r].logged /\ ~(Len(queue) < Capacity)
  BY <1>3 DEF Enqueue
<1> QED BY <1>1, <1>2, <1>3

(* Every handler's step is one of these (handler.rs).                       *)
LEMMA HandlersLog ==
  ASSUME IInv, NEW r \in Requests, Handler(r)
  PROVE  LogStep(r)
<1>0. /\ req \in [Requests -> States] /\ req[r] \in States
      /\ UNCHANGED <<rows, reader>>
      /\ req[r].pc \in {"new", "route", "send", "body", "fail"} => req[r].end = "open"
  <2>1. UNCHANGED <<rows, reader>>
    BY DEF Handler, Ends, Copy, Route, RouteNowhere, TimesOut, Answers, Body, Record, Fail,
           StreamEnds, TransportFails, Refuses, Terminal, Leave, log
  <2> QED BY <2>1 DEF IInv, Types, EndsAreLate, NotEnded
<1>1. ASSUME NEW q, req' = [req EXCEPT ![r] = q],
             q.logged = req[r].logged \/ req[r].end = "open",
             q.end = req[r].end \/ req[r].end = "open"
      PROVE  \A s \in Requests : (Over(s) => Over(s)') /\ (s # r => (Over(s)' => Over(s)))
  <2>1. \A s \in Requests : req'[s] = IF s = r THEN q ELSE req[s]
    BY <1>0, <1>1
  <2> QED BY <1>1, <2>1 DEF Over
\* the request keeps its end, and nothing is said
<1>2. ASSUME NEW q, req' = [req EXCEPT ![r] = q], UNCHANGED <<queue, lost>>,
             q.end = req[r].end, q.logged = req[r].logged \/ req[r].end = "open"
      PROVE  LogStep(r)
  <2>1. req'[r] = q
    BY <1>0, <1>2
  <2>2. Over(r)' => Over(r)
    BY <1>2, <2>1 DEF Over
  <2> QED BY <1>0, <1>1, <1>2, <2>2 DEF LogStep
\* the request ends and says so
<1>3. ASSUME NEW q, req' = [req EXCEPT ![r] = q], NEW status \in Final, Enqueue(r, Update(r, status)),
             q.logged = req[r].logged, q.end = req[r].end \/ req[r].end = "open"
      PROVE  LogStep(r)
  <2>1. req'[r] = q
    BY <1>0, <1>3
  <2>2. ~req[r].logged => ~Over(r)'
    BY <1>3, <2>1 DEF Over
  <2> QED BY <1>0, <1>1, <1>3, <2>2, EnqueueLoses DEF LogStep
\* the row is begun
<1>4. ASSUME NEW q, req' = [req EXCEPT ![r] = q], Enqueue(r, Insert(r)),
             q.logged = req[r].logged, q.end = "open", req[r].end = "open"
      PROVE  LogStep(r)
  <2>1. req'[r] = q
    BY <1>0, <1>4
  <2>2. ~Over(r)'
    BY <1>4, <2>1 DEF Over
  <2> QED BY <1>0, <1>1, <1>4, <2>2, EnqueueLoses DEF LogStep
<1>5. CASE Copy(r)
  <2>1. PICK q : q = [req[r] EXCEPT !.pc = "route", !.conf = config.enabled, !.logged = config.log]
    OBVIOUS
  <2>2. req' = [req EXCEPT ![r] = q] /\ req[r].pc = "new" /\ UNCHANGED <<queue, lost>>
    BY <1>0, <1>5, <2>1 DEF Copy, At, log
  <2>3. q.end = req[r].end
    BY <1>0, <2>1 DEF States
  <2> QED BY <1>0, <1>2, <2>2, <2>3
<1>6. CASE Route(r) \/ RouteNowhere(r)
  <2>1. req' = [req EXCEPT ![r] = req'[r]] /\ req'[r].logged = req[r].logged /\ req'[r].end = req[r].end
    <3>1. CASE RouteNowhere(r)
      BY <1>0, <3>1 DEF RouteNowhere, States
    <3>2. CASE Route(r)
      <4>1. PICK p : p = Resolve(r)
        OBVIOUS
      <4>2. PICK pc \in {"fail", "record", "send"}, result \in Results :
              req' = [req EXCEPT ![r].route = p, ![r].conf = {}, ![r].pc = pc, ![r].result = result]
        BY <3>2, <4>1, RouteSends
      <4> QED BY <1>0, <4>2 DEF States
    <3> QED BY <1>6, <3>1, <3>2
  <2>2. req[r].pc = "route" /\ Enqueue(r, Insert(r))
    BY <1>6 DEF Route, RouteNowhere, At
  <2> QED BY <1>0, <1>4, <2>1, <2>2
<1>7. CASE TransportFails(r) \/ Refuses(r) \/ TimesOut(r) \/ Answers(r) \/ Record(r)
  <2>1. req' = [req EXCEPT ![r] = req'[r]] /\ req'[r].logged = req[r].logged /\ req'[r].end = req[r].end
    BY <1>0, <1>7 DEF TransportFails, Refuses, TimesOut, Answers, Record, Sent, States
  <2>2. UNCHANGED <<queue, lost>>
    BY <1>7 DEF TransportFails, Refuses, TimesOut, Answers, Record, log
  <2> QED BY <1>2, <2>1, <2>2
<1>8. CASE Body(r) \/ Fail(r) \/ Terminal(r)
  <2>1. PICK status \in Final : Enqueue(r, Update(r, status))
    BY <1>8 DEF Body, Fail, Terminal, Final
  <2>2. req' = [req EXCEPT ![r] = req'[r]] /\ req'[r].logged = req[r].logged
    BY <1>0, <1>8 DEF Body, Fail, Terminal, States
  <2>3. req[r].end = "open"
    BY <1>0, <1>8 DEF Body, Fail, Terminal, At
  <2> QED BY <1>3, <2>1, <2>2, <2>3
<1>9. ASSUME NEW pc, NEW status \in Final, Closes(r, pc, status)
      PROVE  LogStep(r)
  <2>1. req' = [req EXCEPT ![r] = req'[r]] /\ req'[r].logged = req[r].logged
    BY <1>0, <1>9 DEF Closes, States
  <2>2. CASE req[r].end = "open"
    <3>1. Enqueue(r, Update(r, status))
      BY <1>9, <2>2 DEF Closes
    <3> QED BY <1>3, <2>1, <2>2, <3>1
  <2>3. CASE req[r].end # "open"
    <3>1. UNCHANGED <<queue, lost>> /\ req'[r].end = req[r].end
      BY <1>0, <1>9, <2>3 DEF Closes, States
    <3> QED BY <1>2, <2>1, <3>1
  <2> QED BY <2>2, <2>3
<1>10. CASE StreamEnds(r)
  BY <1>9, <1>10 DEF StreamEnds, Final
<1>11. CASE Leave(r)
  <2>1. CASE Closes(r, "gone", "cancelled")
    BY <1>9, <2>1 DEF Final
  <2>2. CASE Sent(r, "gone", req[r].result) /\ UNCHANGED <<queue, lost>>
    <3>1. req' = [req EXCEPT ![r] = req'[r]] /\ req'[r].logged = req[r].logged /\ req'[r].end = req[r].end
      BY <1>0, <2>2 DEF Sent, States
    <3> QED BY <1>2, <2>2, <3>1
  <2> QED BY <1>11, <2>1, <2>2 DEF Leave
<1> QED BY <1>5, <1>6, <1>7, <1>8, <1>10, <1>11 DEF Handler, Ends

(* The first command is taken off; the reader waits on, unless it was its   *)
(* barrier (request_log.rs, the writer thread).                             *)
LEMMA TailKeepsBarriers ==
  ASSUME IInv, BarrierInv, queue # <<>>, queue' = Tail(queue), req' = req, lost \subseteq lost',
         \A r \in Requests \ lost' :
           rows'[r] = "running" => Inserts(1, r) \/ (rows[r] = "running" /\ ~Updates(1, r)),
         \/ reader' = reader /\ queue[1].op # "barrier"
         \/ reader' = [reader EXCEPT !.pc = "reading"] /\ queue[1].op = "barrier"
  PROVE  BarrierInv'
<1>1. /\ queue \in Seq(Commands) /\ 1 \in DOMAIN queue /\ Len(queue) \in Nat
      /\ Len(queue) = Len(queue') + 1 /\ Len(queue') \in Nat
      /\ \A i \in DOMAIN queue' : i \in Nat \ {0} /\ i + 1 \in DOMAIN queue /\ queue'[i] = queue[i + 1]
  BY DEF IInv, Types
<1>2. \A r \in Requests \ lost' :
        /\ Shown(r) => Shown(r)'
        /\ \A n \in Nat : Coming(r, n + 1) => Shown(r)' \/ Coming(r, n)'
  BY <1>1, TailShows
<1>3. /\ reader \in [pc : {"idle", "locked", "waiting", "reading"}, owed : SUBSET Requests]
      /\ ReaderTypes' /\ reader'.owed = reader.owed
  BY DEF BarrierInv, ReaderTypes
<1>4. OwedAreOver'
  BY <1>3 DEF BarrierInv, OwedAreOver, Over
<1>5. EndsArrive'
  <2>0. PICK n \in Nat : n = Len(queue')
    BY <1>1
  <2> SUFFICES ASSUME NEW r \in Requests, r \notin lost', Over(r)'
               PROVE  Shown(r)' \/ Coming(r, n + 1)'
    BY <2>0 DEF EndsArrive
  <2>1. Shown(r) \/ Coming(r, (n + 1) + 1)
    BY <1>1, <2>0 DEF BarrierInv, EndsArrive, Over
  <2> QED BY <1>2, <2>1
<1>6. CASE reader' = reader /\ queue[1].op # "barrier"
  <2>1. ReadingIsShown'
    BY <1>2, <1>3, <1>6 DEF BarrierInv, ReadingIsShown
  <2>2. BarrierIsBehind'
    <3>1. ASSUME NEW b \in DOMAIN queue', queue'[b].op = "barrier"
          PROVE  /\ reader'.pc = "waiting"
                 /\ \A r \in reader'.owed \ lost' : Shown(r)' \/ Coming(r, b)'
                 /\ \A c \in DOMAIN queue' : queue'[c].op = "barrier" => c = b
      <4>1. b \in Nat /\ b + 1 \in DOMAIN queue /\ queue[b + 1].op = "barrier"
        BY <1>1, <3>1
      <4>2. /\ reader.pc = "waiting"
            /\ \A r \in reader.owed \ lost : Shown(r) \/ Coming(r, b + 1)
            /\ \A c \in DOMAIN queue : queue[c].op = "barrier" => c = b + 1
        BY <4>1 DEF BarrierInv, BarrierIsBehind
      <4>3. \A c \in DOMAIN queue' : queue'[c].op = "barrier" => c + 1 = b + 1 /\ c \in Nat
        BY <1>1, <4>2
      <4> QED BY <1>2, <1>3, <1>6, <4>1, <4>2, <4>3
    <3> QED BY <3>1 DEF BarrierIsBehind
  <2> QED BY <1>3, <1>4, <1>5, <2>1, <2>2 DEF BarrierInv
<1>7. CASE reader' = [reader EXCEPT !.pc = "reading"] /\ queue[1].op = "barrier"
  <2>1. /\ \A r \in reader.owed \ lost : Shown(r) \/ Coming(r, 1)
        /\ \A c \in DOMAIN queue : queue[c].op = "barrier" => c = 1
    BY <1>1, <1>7 DEF BarrierInv, BarrierIsBehind
  <2>2. \A r \in Requests : ~Coming(r, 1)
    <3>1. \A i \in DOMAIN queue : i \in Nat /\ i >= 1
      BY <1>1
    <3> QED BY <3>1 DEF Coming
  <2>3. ReadingIsShown'
    BY <1>2, <1>3, <2>1, <2>2 DEF ReadingIsShown
  <2>4. \A b \in DOMAIN queue' : queue'[b].op # "barrier"
    <3> SUFFICES ASSUME NEW b \in DOMAIN queue', queue'[b].op = "barrier" PROVE FALSE
      OBVIOUS
    <3>1. b \in Nat \ {0} /\ b + 1 \in DOMAIN queue /\ queue[b + 1].op = "barrier"
      BY <1>1
    <3>2. b + 1 = 1
      BY <2>1, <3>1
    <3> QED BY <3>1, <3>2
  <2>5. BarrierIsBehind'
    BY <2>4 DEF BarrierIsBehind
  <2> QED BY <1>3, <1>4, <1>5, <2>3, <2>5 DEF BarrierInv
<1> QED BY <1>6, <1>7

(* The writer thread (request_log.rs): it writes, fails to, or deletes.     *)
LEMMA WriterKeepsBarriers ==
  ASSUME IInv, BarrierInv, Writer \/ WriteFails
  PROVE  BarrierInv'
<1>0. /\ queue # <<>> /\ queue' = Tail(queue) /\ Head(queue) = queue[1] /\ queue[1] \in Commands
      /\ req' = req
  <2>1. queue # <<>> /\ queue' = Tail(queue) /\ req' = req
    BY DEF Writer, Write, Barrier, RunClean, WriteFails
  <2> QED BY <2>1, QueueTail
<1>1. CASE Write
  <2>1. PICK c \in Commands : c = queue[1] /\ c.op \in {"insert", "update"}
    BY <1>0, <1>1 DEF Write
  <2>2. rows' = Apply(c)
    BY <1>0, <1>1, <2>1 DEF Write
  <2>3. rows \in [Requests -> {"none"} \cup Statuses]
    BY DEF IInv, Types
  <2>4. ASSUME NEW r \in Requests, rows'[r] = "running"
        PROVE  Inserts(1, r) \/ (rows[r] = "running" /\ ~Updates(1, r))
    <3>1. CASE c.op = "insert"
      <4>1. rows' = [rows EXCEPT ![c.row] = "running"]
        BY <2>2, <3>1 DEF Apply
      <4>2. c.row = r \/ rows[r] = "running"
        BY <2>3, <2>4, <4>1
      <4> QED BY <2>1, <3>1, <4>2 DEF Inserts, Updates
    <3>2. CASE c.op = "update" /\ rows[c.row] # "none"
      <4>1. rows' = [rows EXCEPT ![c.row] = c.status] /\ c.status # "running"
        <5>1. c.status \in Final
          BY <3>2, CommandFields
        <5>2. rows' = [rows EXCEPT ![c.row] = c.status]
          BY <2>2, <3>2 DEF Apply
        <5> QED BY <5>1, <5>2 DEF Final
      <4>2. c.row # r /\ rows[r] = "running"
        BY <2>3, <2>4, <4>1
      <4> QED BY <2>1, <3>2, <4>2 DEF Inserts, Updates
    <3>3. CASE c.op = "update" /\ rows[c.row] = "none"
      <4>1. rows' = rows
        BY <2>2, <3>3 DEF Apply
      <4> QED BY <2>1, <2>4, <3>3, <4>1 DEF Inserts, Updates
    <3> QED BY <2>1, <3>1, <3>2, <3>3
  <2>5. reader' = reader /\ queue[1].op # "barrier" /\ lost' = lost
    BY <1>1, <2>1 DEF Write
  <2> QED BY <1>0, <2>4, <2>5, TailKeepsBarriers
<1>2. CASE WriteFails
  <2>1. /\ rows' = rows /\ reader' = reader /\ lost' = lost \cup {queue[1].row}
        /\ queue[1].op # "barrier"
    BY <1>0, <1>2 DEF WriteFails
  <2>2. \A r \in Requests \ lost' : ~Updates(1, r)
    BY <2>1 DEF Updates
  <2> QED BY <1>0, <2>1, <2>2, TailKeepsBarriers
<1>3. CASE RunClean
  <2>1. /\ queue[1].op = "clean" /\ reader' = reader /\ lost' = lost
        /\ rows' = [r \in Requests |-> IF r \in queue[1].old THEN "none" ELSE rows[r]]
    BY <1>0, <1>3 DEF RunClean
  <2>2. \A r \in Requests : ~Updates(1, r) /\ (rows'[r] = "running" => rows[r] = "running")
    BY <2>1 DEF Updates
  <2> QED BY <1>0, <2>1, <2>2, TailKeepsBarriers
<1>4. CASE Barrier
  <2>1. /\ queue[1].op = "barrier" /\ rows' = rows /\ lost' = lost
        /\ reader' = [reader EXCEPT !.pc = "reading"]
    BY <1>0, <1>4 DEF Barrier
  <2>2. \A r \in Requests : ~Updates(1, r)
    BY <2>1 DEF Updates
  <2> QED BY <1>0, <2>1, <2>2, TailKeepsBarriers
<1> QED BY <1>1, <1>2, <1>3, <1>4 DEF Writer

(* The reader and the maintenance (request_log.rs): what is owed to a       *)
(* listing is over, and has been queued or written, when it sends its       *)
(* barrier.                                                                 *)
LEMMA ReadersKeepBarriers ==
  ASSUME IInv, BarrierInv, Reader \/ Cleaner
  PROVE  BarrierInv'
<1>0. reader \in [pc : {"idle", "locked", "waiting", "reading"}, owed : SUBSET Requests]
  BY DEF BarrierInv, ReaderTypes
<1>1. CASE Flush
  <2>1. PICK c \in Commands : c = [op |-> "barrier"] /\ c.op = "barrier"
    <3>1. PICK c : c = [op |-> "barrier"]
      OBVIOUS
    <3>2. c \in Commands /\ c.op = "barrier"
      BY <3>1 DEF Commands
    <3> QED BY <3>1, <3>2
  <2>2. /\ queue' = Append(queue, c) /\ UNCHANGED <<req, rows, lost>> /\ reader.pc = "locked"
        /\ reader' = [reader EXCEPT !.pc = "waiting"]
    BY <1>1, <2>1 DEF Flush
  <2>3. PICK n \in Nat : n = Len(queue) + 1
    BY DEF IInv, Types
  <2>4. /\ queue \in Seq(Commands) /\ Len(queue') = n /\ n \in DOMAIN queue' /\ queue'[n] = c
        /\ \A i \in DOMAIN queue' : (i \in DOMAIN queue /\ queue'[i] = queue[i]) \/ i = n
    BY <2>2, <2>3 DEF IInv, Types
  <2>5. \A r \in Requests : /\ Shown(r) => Shown(r)'
                            /\ \A m : Coming(r, m) => Coming(r, m)'
    BY <2>1, <2>2, <2>4, AppendShows
  <2>6. ReaderTypes' /\ OwedAreOver' /\ reader'.pc = "waiting" /\ reader'.owed = reader.owed
    BY <1>0, <2>2 DEF BarrierInv, ReaderTypes, OwedAreOver, Over
  <2>7. \A r \in Requests \ lost : Over(r) => Shown(r)' \/ Coming(r, n)'
    BY <2>3, <2>5 DEF BarrierInv, EndsArrive
  <2>8. \A r \in Requests : Coming(r, n)' => Coming(r, n + 1)'
    <3>1. \A i \in DOMAIN queue' : i \in Nat
      BY <2>2, <2>4
    <3> QED BY <2>3, <3>1 DEF Coming
  <2>9. EndsArrive'
    <3> SUFFICES ASSUME NEW r \in Requests, r \notin lost', Over(r)'
                 PROVE  Shown(r)' \/ Coming(r, n + 1)'
      BY <2>4 DEF EndsArrive
    <3> QED BY <2>2, <2>7, <2>8 DEF Over
  <2>10. BarrierIsBehind'
    <3>1. \A b \in DOMAIN queue : queue[b].op # "barrier"
      BY <2>2 DEF BarrierInv, BarrierIsBehind
    <3>2. \A b \in DOMAIN queue' : queue'[b].op = "barrier" => b = n
      BY <2>4, <3>1
    <3>3. \A r \in reader'.owed \ lost' : Shown(r)' \/ Coming(r, n)'
      BY <1>0, <2>2, <2>6, <2>7 DEF BarrierInv, OwedAreOver
    <3> QED BY <2>6, <3>2, <3>3 DEF BarrierIsBehind
  <2>11. ReadingIsShown'
    BY <2>6 DEF ReadingIsShown
  <2> QED BY <2>6, <2>9, <2>10, <2>11 DEF BarrierInv
<1>2. CASE SendClean
  <2>1. PICK old \in SUBSET Requests : queue' = Append(queue, [op |-> "clean", old |-> old])
    BY <1>2 DEF SendClean
  <2>2. PICK c \in Commands : c = [op |-> "clean", old |-> old] /\ c.op = "clean"
    <3>1. PICK c : c = [op |-> "clean", old |-> old]
      OBVIOUS
    <3>2. c \in Commands /\ c.op = "clean"
      BY <3>1 DEF Commands
    <3> QED BY <3>1, <3>2
  <2>3. UNCHANGED <<req, rows, reader, lost>>
    BY <1>2 DEF SendClean
  <2>4. \A r \in Requests : Over(r)' <=> Over(r)
    BY <2>3 DEF Over
  <2> QED BY <2>1, <2>2, <2>3, <2>4, AppendKeepsBarriers
<1>3. CASE Ask \/ Read
  <2>1. UNCHANGED <<req, rows, queue, lost>> /\ reader.pc \in {"idle", "reading"}
    BY <1>3 DEF Ask, Read, log
  <2>2. /\ reader' \in [pc : {"idle", "locked"}, owed : SUBSET Requests]
        /\ \A r \in reader'.owed : Over(r)
    BY <1>3 DEF Ask, Read, Accepted, Over
  <2>3. ReaderTypes' /\ OwedAreOver' /\ ReadingIsShown'
    BY <2>1, <2>2 DEF ReaderTypes, OwedAreOver, ReadingIsShown, Over
  <2>4. EndsArrive'
    BY <2>1 DEF BarrierInv, EndsArrive, Shown, Coming, Inserts, Updates, Over
  <2>5. BarrierIsBehind'
    BY <2>1 DEF BarrierInv, BarrierIsBehind
  <2> QED BY <2>3, <2>4, <2>5 DEF BarrierInv
<1>4. CASE Clean
  <2>1. UNCHANGED <<req, rows, queue, lost, reader>>
    BY <1>4 DEF Clean, log
  <2>2. \A r \in Requests : Over(r)' <=> Over(r)
    BY <2>1 DEF Over
  <2> QED BY <2>1, <2>2, StandKeepsBarriers
<1> QED BY <1>1, <1>2, <1>3, <1>4 DEF Reader, Cleaner

-----------------------------------------------------------------------------
(* The theorems.                                                            *)

(* The invariant holds at first. *)
LEMMA InitIInv ==
  ASSUME Init
  PROVE  IInv
<1>1. PICK kind \in [Requests -> Kinds \cup {"none"}], session \in [Requests -> Sessions \cup {NoSession}] :
        req = [r \in Requests |-> Fresh(kind[r], session[r])]
  BY DEF Init
<1>2. \A k \in Kinds \cup {"none"}, s \in Names :
        Fresh(k, s) \in States /\ Fresh(k, s).end = "open"
  BY DEF Fresh, States, Pcs, Results, Names
<1>3. \A r \in Requests : req[r] \in States /\ req[r].end = "open"
  BY <1>1, <1>2 DEF Names
<1>4. Types
  <2>1. req \in [Requests -> States]
    BY <1>1, <1>3
  <2>2. rows \in [Requests -> {"none"} \cup Statuses] /\ queue \in Seq(Commands)
    BY DEF Init
  <2>3. clock \in Nat
    BY DEF Init
  <2>4. health \in [Providers -> [failures : Nat, until : Nat]]
    BY DEF Init
  <2> QED BY <2>1, <2>2, <2>3, <2>4 DEF Init, Types
<1>5. EndsAreLate /\ QueueMatchesEnd /\ RowMatchesEnd
  BY <1>3 DEF Init, EndsAreLate, NotEnded, QueueMatchesEnd, RowMatchesEnd, Final
<1>6. FailuresWereTold
  <2>1. ASSUME NEW p \in Providers
        PROVE  health[p].until = 0 /\ health[p].failures = 0 /\ Cardinality(Told(p)) \in Nat
    <3>1. IsFiniteSet(Told(p))
      BY GatewayAssumption, FS_Subset DEF Told
    <3> QED BY <3>1, FS_CardinalityType DEF Init
  <2> QED BY <2>1 DEF FailuresWereTold
<1> QED BY <1>4, <1>5, <1>6 DEF IInv

(* Every step keeps the invariant. *)
LEMMA NextIInv ==
  ASSUME IInv, [Next]_vars
  PROVE  IInv'
<1>1. ASSUME NEW r \in Requests, Handler(r)
      PROVE  IInv'
  <2>1. CASE Copy(r) \/ Route(r) \/ RouteNowhere(r)
    BY <2>1, CopyKeeps, RouteKeeps, RouteNowhereKeeps
  <2>2. CASE TimesOut(r) \/ Answers(r) \/ Body(r) \/ Record(r)
    BY <2>2, TimesOutKeeps, AnswersKeeps, BodyKeeps, RecordKeeps
  <2>3. CASE Fail(r) \/ StreamEnds(r) \/ Terminal(r) \/ Leave(r)
    BY <2>3, FailKeeps, StreamEndsKeeps, TerminalKeeps, LeaveKeeps
  <2>4. CASE TransportFails(r) \/ Refuses(r)
    BY <2>4, TransportFailsKeeps, RefusesKeeps
  <2> QED BY <1>1, <2>1, <2>2, <2>3, <2>4 DEF Handler, Ends
<1>2. CASE Writer \/ WriteFails
  BY <1>2, WriteKeeps, DropKeeps, RunCleanKeeps DEF Writer
<1>3. CASE Reader \/ Cleaner
  BY <1>3, AskingKeeps, OthersKeep DEF Reader, Cleaner
<1>4. CASE Configure \/ Tick \/ Idle \/ UNCHANGED vars
  BY <1>4, OthersKeep DEF Idle
<1> QED BY <1>1, <1>2, <1>3, <1>4 DEF Next

(* The log and the breaker stay in step with the requests: the invariant    *)
(* the two theorems below rest on (handler.rs, request_log.rs).             *)
THEOREM TheLogFollowsTheRequests == Spec => []IInv
<1>1. Init => IInv
  BY InitIInv
<1>2. IInv /\ [Next]_vars => IInv'
  BY NextIInv
<1> QED BY <1>1, <1>2, PTL DEF Spec

(* A final status in the table is the end its request really came to: no    *)
(* later write of the handler, of the stream or of its drop changes it, in  *)
(* whatever order the queue is worked off and however much of it is lost    *)
(* (request_log.rs:1246-1320, handler.rs:1214).                             *)
THEOREM RowsMatchEnds == Spec => []RowMatchesEnd
<1>1. IInv => RowMatchesEnd
  BY DEF IInv
<1> QED BY <1>1, TheLogFollowsTheRequests, PTL

(* A listing shows the end of every request that had ended when it was      *)
(* asked for, unless a write of it was dropped or failed: the barrier goes  *)
(* through the queue of the writes, however many handlers, deletions and    *)
(* failures come between (request_log.rs:307).  It needs the stronger       *)
(* BarrierInv: an end is queued behind its insert, and before the barrier.  *)
THEOREM ListingsAreCurrent == Spec => []ListingIsCurrent
<1>1. Init => BarrierInv
  <2> SUFFICES ASSUME Init PROVE BarrierInv
    OBVIOUS
  <2>1. \A r \in Requests : ~Over(r)
    BY DEF Init, Over, Fresh
  <2>2. queue = <<>> /\ DOMAIN queue = {} /\ reader = [pc |-> "idle", owed |-> {}]
    BY DEF Init
  <2> QED BY <2>1, <2>2 DEF BarrierInv, ReaderTypes, EndsArrive, OwedAreOver, BarrierIsBehind, ReadingIsShown
<1>2. IInv /\ BarrierInv /\ [Next]_vars => BarrierInv'
  <2> SUFFICES ASSUME IInv, BarrierInv, [Next]_vars PROVE BarrierInv'
    OBVIOUS
  <2>1. ASSUME NEW r \in Requests, Handler(r) PROVE BarrierInv'
    BY <2>1, HandlersLog, LogStepKeeps
  <2>2. CASE Configure \/ Tick \/ Idle \/ UNCHANGED vars
    <3>1. UNCHANGED <<req, rows, queue, lost, reader>>
      BY <2>2 DEF Configure, Tick, Idle, vars, log
    <3>2. \A r \in Requests : Over(r)' <=> Over(r)
      BY <3>1 DEF Over
    <3> QED BY <3>1, <3>2, StandKeepsBarriers
  <2> QED BY <2>1, <2>2, WriterKeepsBarriers, ReadersKeepBarriers DEF Next
<1>3. IInv /\ BarrierInv => ListingIsCurrent
  <2> SUFFICES ASSUME IInv, BarrierInv, reader.pc = "reading", NEW r \in reader.owed \ lost
               PROVE  rows[r] \in {req[r].end, "none"}
    BY DEF ListingIsCurrent
  <2>1. r \in Requests /\ rows[r] # "running"
    BY DEF BarrierInv, ReaderTypes, ReadingIsShown, Shown
  <2>2. rows[r] \in {"none"} \cup Statuses
    BY <2>1 DEF IInv, Types
  <2> QED BY <2>1, <2>2 DEF IInv, RowMatchesEnd, Statuses
<1> QED BY <1>1, <1>2, <1>3, TheLogFollowsTheRequests, PTL DEF Spec

(* The log is true to the requests: neither a final row nor a listing tells *)
(* an end the request did not come to, or none when there was one           *)
(* (request_log.rs, handler.rs).                                            *)
THEOREM TheLogIsTrue == Spec => []LogIsTrue
<1>1. RowMatchesEnd /\ ListingIsCurrent => LogIsTrue
  BY DEF LogIsTrue
<1> QED BY <1>1, RowsMatchEnds, ListingsAreCurrent, PTL

(* A provider is shut out only after as many requests routed to it failed   *)
(* at the provider, or could not be built for it, as the threshold asks     *)
(* for, whatever the requests, the sessions and the order of their outcomes *)
(* (routing_state.rs:54, handler.rs:737-770).                               *)
THEOREM BlacklistsAreEarned == Spec => []BlacklistIsEarned
<1>1. IInv => BlacklistIsEarned
  <2> SUFFICES ASSUME IInv, NEW p \in Providers, Blacklisted(p)
               PROVE  Cardinality({r \in Requests : req[r].route = p /\ req[r].result \in Failures}) >= Threshold
    BY DEF BlacklistIsEarned
  <2> DEFINE Down == {r \in Requests : req[r].route = p /\ req[r].result \in Failures}
  <2>1. health[p].until # 0
    BY DEF IInv, Types, Blacklisted
  <2>2. health[p].failures >= Threshold /\ health[p].failures <= Cardinality(Told(p))
        /\ health[p].failures \in Nat
    BY <2>1 DEF IInv, FailuresWereTold, Types
  <2>3. IsFiniteSet(Down) /\ IsFiniteSet(Told(p)) /\ Told(p) \subseteq Down
    BY GatewayAssumption, FS_Subset DEF Told
  <2>4. Cardinality(Told(p)) <= Cardinality(Down) /\ Cardinality(Down) \in Nat
        /\ Cardinality(Told(p)) \in Nat
    BY <2>3, FS_Subset, FS_CardinalityType
  <2> QED BY <2>2, <2>4, GatewayAssumption
<1> QED BY <1>1, TheLogFollowsTheRequests, PTL
=============================================================================
