--------------------------- MODULE Rendering_proofs ---------------------------
(***************************************************************************)
(* Proofs about a conversation's turns: which message may start one        *)
(* (TurnGate), and what reaches the conversation of them, messages of a    *)
(* text platform once, and texts of a card in their order (Rendering); and *)
(* that requests carry good tokens (Senders); for every number of          *)
(* conversations, threads, messages, notifications, turns, failures,       *)
(* restarts and senders.                                                   *)
(***************************************************************************)
EXTENDS Rendering, Senders, TurnGate, TLAPS

-----------------------------------------------------------------------------
(* The turn gate: every notice under way names a thread and a turn that     *)
(* exist, and no thread stays marked as starting without a task that takes  *)
(* the mark back, with and without lost notices.                            *)

(* The states of the values the gate is made of, N turns having been        *)
(* started.                                                                 *)
PCs == {"idle", "resume", "check", "lookup", "gate", "request", "asked", "replied", "noted",
        "stopping", "stopasked", "stopped", "cleared", "unbind", "bind", "done"}
Results == {"none", "busy", "disconnected", "nothread", "noturn", "expired", "started", "failed",
            "stale", "stopped", "quit", "bound"}
\* a task at one of these has a thread, at one of those a turn as well
WithThread == {"gate", "request", "asked", "replied", "noted", "stopping", "stopasked",
               "stopped", "cleared", "bind"}
WithTurn == {"replied", "noted", "stopping", "stopasked", "stopped", "cleared"}

Notices(N) ==
  {n \in [kind : {"reply", "started", "completed", "status", "again", "approval"},
          thread : Threads, turn : 0..N, msg : Messages \cup {NoInbound}] :
     n.kind = "reply" => n.msg \in Messages /\ n.turn # NoTurn}
Runtimes(N) ==
  [route : [Threads -> Convs \cup {NoConv}], current : [Threads -> 0..N],
   starting : SUBSET Threads, origin : SUBSET (1..N), late : SUBSET (Messages \X Threads)]
Clients(N) == [Convs -> [thread : Threads \cup {NoThread}, turn : 0..N]]
Tasks(N) ==
  {k \in [pc : PCs, command : {"none", "text", "stop", "quit", "resume"},
          thread : Threads \cup {NoThread}, turn : 0..N, result : Results] :
     /\ k.pc \in WithThread => k.thread \in Threads
     /\ k.pc \in WithTurn => k.turn # NoTurn
     /\ k.result = "stale" => k.pc = "done"}
Apps == [running : [Threads -> SUBSET Nat], subs : [Threads -> SUBSET Convs],
         turns : 0..MaxTurns, idles : Nat, asks : Nat]
Routings(N) == [notice : Notices(N) \cup {Nothing}, conv : Convs \cup {NoConv}]

Types ==
  /\ app \in Apps
  /\ \A t \in Threads : app.running[t] \subseteq 1..app.turns
  /\ runtime \in Runtimes(app.turns)
  /\ client \in Clients(app.turns)
  /\ task \in [Messages -> Tasks(app.turns)]
  /\ wire \in [Convs -> Seq(Notices(app.turns))]
  /\ work \in [Convs -> Notices(app.turns) \cup {Nothing}]
  /\ bridge \in Seq(Notices(app.turns))
  /\ router \in Routings(app.turns)

IInv == Types /\ StartingIsOwned

-----------------------------------------------------------------------------
(* What the operations on the runtime, the tasks and the wire keep.         *)

LEMMA NoticeMade ==
  ASSUME NEW N \in Nat, NEW t \in Threads, NEW k \in 0..N,
         NEW kind \in {"started", "completed", "status", "approval"}
  PROVE  Notice(kind, t, k, NoInbound) \in Notices(N)
BY DEF Notice, Notices, NoTurn

LEMMA ReplyMade ==
  ASSUME NEW N \in Nat, NEW t \in Threads, NEW k \in 1..N, NEW m \in Messages
  PROVE  Notice("reply", t, k, m) \in Notices(N)
BY DEF Notice, Notices, NoTurn

LEMMA SendKeeps ==
  ASSUME NEW S, NEW w \in [Convs -> Seq(S)], NEW cs, NEW n \in S
  PROVE  Send(w, cs, n) \in [Convs -> Seq(S)]
BY DEF Send

\* a further turn disturbs nothing
LEMMA OneMoreTurn ==
  ASSUME NEW N \in Nat
  PROVE  /\ Notices(N) \subseteq Notices(N + 1)
         /\ Runtimes(N) \subseteq Runtimes(N + 1)
         /\ Clients(N) \subseteq Clients(N + 1)
         /\ Tasks(N) \subseteq Tasks(N + 1)
         /\ Routings(N) \subseteq Routings(N + 1)
<1>0. 0..N \subseteq 0..(N + 1) /\ 1..N \subseteq 1..(N + 1)
  OBVIOUS
<1>1. Notices(N) \subseteq Notices(N + 1)
  BY <1>0 DEF Notices
<1>2. Runtimes(N) \subseteq Runtimes(N + 1)
  BY <1>0 DEF Runtimes
<1>3. Clients(N) \subseteq Clients(N + 1)
  BY <1>0 DEF Clients
<1>4. Tasks(N) \subseteq Tasks(N + 1)
  BY <1>0 DEF Tasks
<1>5. Routings(N) \subseteq Routings(N + 1)
  BY <1>1 DEF Routings
<1> QED
  BY <1>1, <1>2, <1>3, <1>4, <1>5

LEMMA SeqGrows ==
  ASSUME NEW S, NEW T, S \subseteq T
  PROVE  Seq(S) \subseteq Seq(T)
OBVIOUS

LEMMA ReceivedMessages == Received \subseteq Messages
BY DEF Received

LEMMA MarkTurnStartedFacts ==
  ASSUME NEW N \in Nat, NEW r \in Runtimes(N), NEW t \in Threads, NEW k \in 0..N
  PROVE  /\ MarkTurnStarted(r, t, k) \in Runtimes(N)
         /\ MarkTurnStarted(r, t, k).starting = r.starting \ {t}
BY ReceivedMessages DEF MarkTurnStarted, Runtimes

LEMMA MarkTurnCompletedFacts ==
  ASSUME NEW N \in Nat, NEW r \in Runtimes(N), NEW t \in Threads, NEW k
  PROVE  /\ MarkTurnCompleted(r, t, k) \in Runtimes(N)
         /\ MarkTurnCompleted(r, t, k).starting \subseteq r.starting
<1>1. \A x : r.origin \ {x} \in SUBSET (1..N)
  BY DEF Runtimes
<1>2. r.late \cup (Received \X {t}) \in SUBSET (Messages \X Threads)
  BY ReceivedMessages DEF Runtimes
<1>3. [r.current EXCEPT ![t] = NoTurn] \in [Threads -> 0..N]
  BY DEF Runtimes, NoTurn
<1> QED
  BY <1>1, <1>2, <1>3 DEF MarkTurnCompleted, Runtimes

LEMMA UnbindFacts ==
  ASSUME NEW N \in Nat, NEW r \in Runtimes(N), NEW c
  PROVE  /\ Unbind(r, c) \in Runtimes(N)
         /\ Unbind(r, c).starting \subseteq r.starting
<1> DEFINE T == Bound(r, c)
           current == [t \in Threads |-> IF t \in T THEN NoTurn ELSE r.current[t]]
           route == [t \in Threads |-> IF t \in T THEN NoConv ELSE r.route[t]]
<1>1. current \in [Threads -> 0..N] /\ route \in [Threads -> Convs \cup {NoConv}]
  BY DEF Runtimes, NoTurn
<1>2. r.origin \ {r.current[t] : t \in T} \in SUBSET (1..N)
  BY DEF Runtimes
<1>3. {p \in r.late : p[2] \notin T} \in SUBSET (Messages \X Threads)
  BY DEF Runtimes
<1>4. r.starting \ T \in SUBSET Threads
  BY DEF Runtimes
<1> HIDE DEF T
<1>5. Unbind(r, c) = [r EXCEPT !.route = route, !.current = current, !.starting = @ \ T,
                              !.origin = @ \ {r.current[t] : t \in T},
                              !.late = {p \in @ : p[2] \notin T}]
  BY DEF Unbind, T, Runtimes
<1> HIDE DEF current, route
<1> QED
  BY <1>1, <1>2, <1>3, <1>4, <1>5 DEF Runtimes

LEMMA BindFacts ==
  ASSUME NEW N \in Nat, NEW r \in Runtimes(N), NEW c \in Convs, NEW t \in Threads
  PROVE  /\ Bind(r, c, t) \in Runtimes(N)
         /\ Bind(r, c, t).starting \subseteq r.starting
<1> DEFINE u == Unbind(r, c)
<1>1. u \in Runtimes(N) /\ u.starting \subseteq r.starting
  BY UnbindFacts
<1>2. Bind(r, c, t) = [u EXCEPT !.route = [u.route EXCEPT ![t] = c]]
  BY <1>1 DEF Bind, Runtimes
<1> HIDE DEF u
<1>3. [u.route EXCEPT ![t] = c] \in [Threads -> Convs \cup {NoConv}]
  BY <1>1 DEF Runtimes
<1> QED
  BY <1>1, <1>2, <1>3 DEF Runtimes

LEMMA TurnsAreNatural ==
  ASSUME Types
  PROVE  app.turns \in Nat
BY BoundsAssumption DEF Types, Apps

-----------------------------------------------------------------------------
(* Steps of one handler.                                                    *)

Owns(m, t) == task[m].thread = t /\ (Starting(m) \/ task[m].result = "stale")

\* the mark of a thread stays owned when no thread is marked in addition and
\* the owners of the marks that stay are kept
LEMMA OwnersKept ==
  ASSUME StartingIsOwned,
         runtime'.starting \subseteq runtime.starting,
         \A t \in runtime'.starting, m \in Messages : Owns(m, t) => Owns(m, t)'
  PROVE  StartingIsOwned'
BY DEF StartingIsOwned, Owns

(* Where a task may go from the place it is at.                             *)
LEMMA TaskMoves ==
  ASSUME NEW N \in Nat, NEW k \in Tasks(N), NEW pc \in PCs \ {"done"}, k.result # "stale"
  PROVE  /\ pc \notin WithThread => [k EXCEPT !.pc = pc] \in Tasks(N)
         /\ pc \notin WithTurn /\ k.pc \in WithThread => [k EXCEPT !.pc = pc] \in Tasks(N)
         /\ k.pc \in WithTurn => [k EXCEPT !.pc = pc] \in Tasks(N)
<1>1. CASE pc \notin WithThread
  BY <1>1 DEF Tasks, PCs, WithThread, WithTurn
<1>2. CASE pc \notin WithTurn /\ k.pc \in WithThread
  BY <1>2 DEF Tasks
<1>3. CASE k.pc \in WithTurn
  BY <1>3 DEF Tasks, WithThread, WithTurn
<1> QED
  BY <1>1, <1>2, <1>3

LEMMA TaskGetsThread ==
  ASSUME NEW N \in Nat, NEW k \in Tasks(N), NEW pc \in {"gate", "bind"}, NEW t \in Threads,
         k.result # "stale"
  PROVE  [k EXCEPT !.pc = pc, !.thread = t] \in Tasks(N)
BY DEF Tasks, PCs, WithTurn

LEMMA TaskGetsTurn ==
  ASSUME NEW N \in Nat, NEW k \in Tasks(N), NEW x \in 1..N, k.result # "stale",
         k.pc \in WithThread
  PROVE  [k EXCEPT !.pc = "replied", !.turn = x] \in Tasks(N)
<1>1. x \in 0..N /\ x # NoTurn
  BY DEF NoTurn
<1>2. k.thread \in Threads
  BY DEF Tasks
<1> QED
  BY <1>1, <1>2 DEF Tasks, PCs

LEMMA TaskEnds ==
  ASSUME NEW N \in Nat, NEW k \in Tasks(N), NEW result \in Results
  PROVE  [k EXCEPT !.pc = "done", !.result = result] \in Tasks(N)
BY DEF Tasks, PCs, WithThread, WithTurn

LEMMA GotoFacts ==
  ASSUME Types, NEW m \in Messages, NEW pc \in PCs \ {"done"}, Goto(m, pc),
         task[m].pc # "done",
         \/ pc \notin WithThread
         \/ pc \notin WithTurn /\ task[m].pc \in WithThread
         \/ task[m].pc \in WithTurn
  PROVE  /\ task' \in [Messages -> Tasks(app.turns)]
         /\ \A n \in Messages \ {m} : task'[n] = task[n]
         /\ task'[m] = [task[m] EXCEPT !.pc = pc]
<1>1. task[m] \in Tasks(app.turns) /\ app.turns \in Nat
  BY TurnsAreNatural DEF Types
<1>2. task[m].result # "stale"
  BY <1>1 DEF Tasks
<1>3. [task[m] EXCEPT !.pc = pc] \in Tasks(app.turns)
  BY <1>1, <1>2, TaskMoves
<1>4. task' = [task EXCEPT ![m] = [task[m] EXCEPT !.pc = pc]]
  BY DEF Goto
<1> QED
  BY <1>3, <1>4 DEF Types

LEMMA EndFacts ==
  ASSUME Types, NEW m \in Messages, NEW result \in Results, End(m, result)
  PROVE  /\ task' \in [Messages -> Tasks(app.turns)]
         /\ \A n \in Messages \ {m} : task'[n] = task[n]
         /\ task'[m] = [task[m] EXCEPT !.pc = "done", !.result = result]
<1>1. task[m] \in Tasks(app.turns) /\ app.turns \in Nat
  BY TurnsAreNatural DEF Types
<1>2. [task[m] EXCEPT !.pc = "done", !.result = result] \in Tasks(app.turns)
  BY <1>1, TaskEnds
<1>3. task' = [task EXCEPT ![m] = [task[m] EXCEPT !.pc = "done", !.result = result]]
  BY DEF End
<1> QED
  BY <1>2, <1>3 DEF Types

\* a task that does not start a turn marks no thread and owns no mark
LEMMA HandlerMoves ==
  ASSUME IInv, NEW m \in Messages, ~Starting(m), task[m].pc # "done",
         task' \in [Messages -> Tasks(app.turns)],
         \A n \in Messages \ {m} : task'[n] = task[n],
         runtime' \in Runtimes(app.turns), runtime'.starting \subseteq runtime.starting,
         client' \in Clients(app.turns),
         UNCHANGED <<wire, work, bridge, router, app>>
  PROVE  IInv'
<1>1. task[m] \in Tasks(app.turns)
  BY DEF IInv, Types
<1>2. task[m].result # "stale"
  BY <1>1 DEF Tasks
<1>3. \A t : \A n \in Messages : Owns(n, t) => Owns(n, t)'
  BY <1>2 DEF Owns, Starting
<1>4. StartingIsOwned'
  BY <1>3, OwnersKept DEF IInv
<1>5. Types'
  BY DEF IInv, Types
<1> QED
  BY <1>4, <1>5 DEF IInv

LEMMA CheckTextStep ==
  ASSUME IInv, NEW m \in Messages, CheckText(m)
  PROVE  IInv'
<1>1. ~Starting(m) /\ task[m].pc # "done"
  BY DEF CheckText, At, Starting
<1>2. task' \in [Messages -> Tasks(app.turns)] /\ \A n \in Messages \ {m} : task'[n] = task[n]
  <2>1. CASE End(m, "busy")
    BY <2>1, EndFacts DEF IInv, Results
  <2>2. CASE Goto(m, "lookup")
    <3>1. "lookup" \in PCs \ {"done"} /\ "lookup" \notin WithThread
      BY DEF PCs, WithThread
    <3> QED
      BY <1>1, <2>2, <3>1, GotoFacts DEF IInv
  <2> QED
    BY <2>1, <2>2 DEF CheckText
<1> QED
  BY <1>1, <1>2, HandlerMoves DEF CheckText, IInv, Types

LEMMA CheckStopStep ==
  ASSUME IInv, NEW m \in Messages, CheckStop(m)
  PROVE  IInv'
<1>1. ~Starting(m) /\ task[m].pc # "done" /\ task[m].result # "stale"
  BY DEF CheckStop, At, Starting, IInv, Types, Tasks
<1>2. task' \in [Messages -> Tasks(app.turns)] /\ \A n \in Messages \ {m} : task'[n] = task[n]
  <2>1. CASE End(m, "noturn")
    BY <2>1, EndFacts DEF IInv, Results
  <2>2. CASE Goto(m, "unbind")
    <3>1. "unbind" \in PCs \ {"done"} /\ "unbind" \notin WithThread
      BY DEF PCs, WithThread
    <3> QED
      BY <1>1, <2>2, <3>1, GotoFacts DEF IInv
  <2>3. ASSUME NEW t \in Active(m),
               task' = [task EXCEPT ![m].pc = "stopping", ![m].thread = t,
                                    ![m].turn = runtime.current[t]]
        PROVE  task' \in [Messages -> Tasks(app.turns)] /\ \A n \in Messages \ {m} : task'[n] = task[n]
    <3>1. t \in Threads /\ runtime.current[t] \in 0..app.turns /\ runtime.current[t] # NoTurn
      BY DEF Active, Bound, IInv, Types, Runtimes
    <3>2. task[m] \in Tasks(app.turns)
      BY DEF IInv, Types
    <3>3. [task[m] EXCEPT !.pc = "stopping", !.thread = t, !.turn = runtime.current[t]]
            \in Tasks(app.turns)
      BY <1>1, <3>1, <3>2 DEF Tasks, PCs
    <3>4. task' = [task EXCEPT ![m] = [task[m] EXCEPT !.pc = "stopping", !.thread = t,
                                                      !.turn = runtime.current[t]]]
      BY <2>3
    <3> QED
      BY <3>3, <3>4 DEF IInv, Types
  <2> QED
    BY <2>1, <2>2, <2>3 DEF CheckStop
<1> QED
  BY <1>1, <1>2, HandlerMoves DEF CheckStop, IInv, Types

LEMMA LookupStep ==
  ASSUME IInv, NEW m \in Messages, Lookup(m)
  PROVE  IInv'
<1>1. ~Starting(m) /\ task[m].pc # "done" /\ task[m].result # "stale"
  BY DEF Lookup, At, Starting, IInv, Types, Tasks
<1>2. task' \in [Messages -> Tasks(app.turns)] /\ \A n \in Messages \ {m} : task'[n] = task[n]
  <2>1. CASE End(m, "disconnected") \/ End(m, "nothread")
    BY <2>1, EndFacts DEF IInv, Results
  <2>2. ASSUME NEW t \in Bound(runtime, Conv(m)),
               task' = [task EXCEPT ![m].pc = "gate", ![m].thread = t]
        PROVE  task' \in [Messages -> Tasks(app.turns)] /\ \A n \in Messages \ {m} : task'[n] = task[n]
    <3>1. t \in Threads
      BY DEF Bound
    <3>2. [task[m] EXCEPT !.pc = "gate", !.thread = t] \in Tasks(app.turns)
      BY <1>1, <3>1, TaskGetsThread, TurnsAreNatural DEF IInv, Types
    <3>3. task' = [task EXCEPT ![m] = [task[m] EXCEPT !.pc = "gate", !.thread = t]]
      BY <2>2
    <3> QED
      BY <3>2, <3>3 DEF IInv, Types
  <2> QED
    BY <2>1, <2>2 DEF Lookup
<1> QED
  BY <1>1, <1>2, HandlerMoves DEF Lookup, IInv, Types

\* the mark is set by the task that will take it back
LEMMA GateStep ==
  ASSUME IInv, NEW m \in Messages, Gate(m)
  PROVE  IInv'
<1> DEFINE t == task[m].thread
<1>1. ~Starting(m) /\ task[m].pc = "gate" /\ task[m] \in Tasks(app.turns)
  BY DEF Gate, At, Starting, IInv, Types
<1>2. task[m].result # "stale" /\ t \in Threads
  BY <1>1 DEF Tasks, WithThread
<1>3. CASE (End(m, "busy") \/ End(m, "expired")) /\ UNCHANGED runtime
  <2>1. task' \in [Messages -> Tasks(app.turns)] /\ \A n \in Messages \ {m} : task'[n] = task[n]
    BY <1>3, EndFacts DEF IInv, Results
  <2> QED
    BY <1>1, <1>3, <2>1, HandlerMoves DEF Gate, IInv, Types
<1>4. CASE Goto(m, "request") /\ runtime' = [runtime EXCEPT !.starting = @ \cup {t}]
  <2>1. /\ task' \in [Messages -> Tasks(app.turns)]
        /\ \A n \in Messages \ {m} : task'[n] = task[n]
        /\ task'[m] = [task[m] EXCEPT !.pc = "request"]
    <3>1. /\ "request" \in PCs \ {"done"} /\ "request" \notin WithTurn
          /\ task[m].pc \in WithThread /\ task[m].pc # "done"
      BY <1>1 DEF PCs, WithTurn, WithThread
    <3> QED
      BY <1>4, <3>1, GotoFacts DEF IInv
  <2>2. task'[m].thread = t /\ task'[m].pc = "request"
    BY <1>1, <2>1 DEF Tasks
  <2>3. runtime' \in Runtimes(app.turns) /\ runtime'.starting = runtime.starting \cup {t}
    BY <1>2, <1>4 DEF IInv, Types, Runtimes
  <2>4. Types'
    BY <2>1, <2>3 DEF Gate, IInv, Types
  <2>5. StartingIsOwned'
    <3> SUFFICES ASSUME NEW u \in runtime'.starting
                 PROVE  \E n \in Messages : Owns(n, u)'
      BY DEF StartingIsOwned, Owns
    <3>1. CASE u = t
      BY <2>2, <3>1 DEF Owns, Starting
    <3>2. CASE u # t
      <4>1. PICK n \in Messages : Owns(n, u)
        BY <2>3, <3>2 DEF IInv, StartingIsOwned, Owns
      <4>2. n # m
        BY <1>1, <1>2, <4>1 DEF Owns
      <4> QED
        BY <2>1, <4>1, <4>2 DEF Owns, Starting
    <3> QED
      BY <3>1, <3>2
  <2> QED
    BY <2>4, <2>5 DEF IInv
<1> QED
  BY <1>3, <1>4 DEF Gate

\* the answer of a request that starts a turn: the mark stays with the task
LEMMA NoteTurnStep ==
  ASSUME IInv, NEW m \in Messages, NoteTurn(m)
  PROVE  IInv'
<1>1. task[m].pc = "replied" /\ task[m] \in Tasks(app.turns) /\ app.turns \in Nat
  BY TurnsAreNatural DEF NoteTurn, At, IInv, Types
<1>2. task[m].thread \in Threads /\ task[m].turn \in 0..app.turns /\ task[m].result # "stale"
  BY <1>1 DEF Tasks, WithThread
<1>3. /\ task' \in [Messages -> Tasks(app.turns)]
      /\ \A n \in Messages \ {m} : task'[n] = task[n]
      /\ task'[m] = [task[m] EXCEPT !.pc = "noted"]
  <2>1. "noted" \in PCs \ {"done"} /\ task[m].pc \in WithTurn /\ task[m].pc # "done"
    BY <1>1 DEF PCs, WithTurn
  <2> QED
    BY <2>1, GotoFacts DEF NoteTurn, IInv
<1>4. client' \in Clients(app.turns)
  BY <1>2 DEF NoteTurn, IInv, Types, Clients
<1>5. Types'
  BY <1>3, <1>4 DEF NoteTurn, IInv, Types
<1>6. \A t : \A n \in Messages : Owns(n, t) => Owns(n, t)'
  BY <1>1, <1>3 DEF Owns, Starting, Tasks
<1>7. StartingIsOwned'
  BY <1>6, OwnersKept DEF NoteTurn, IInv
<1> QED
  BY <1>5, <1>7 DEF IInv

\* a task that takes its mark back may end
LEMMA StartEnds ==
  ASSUME IInv, NEW m \in Messages, NEW result \in Results, End(m, result),
         runtime' \in Runtimes(app.turns),
         runtime'.starting \subseteq runtime.starting,
         task[m].thread \notin runtime'.starting \/ result = "stale",
         task[m].result # "stale",
         UNCHANGED <<client, wire, work, bridge, router, app>>
  PROVE  IInv'
<1>1. /\ task' \in [Messages -> Tasks(app.turns)]
      /\ \A n \in Messages \ {m} : task'[n] = task[n]
      /\ task'[m] = [task[m] EXCEPT !.pc = "done", !.result = result]
  BY EndFacts DEF IInv
<1>2. Types'
  BY <1>1 DEF IInv, Types
<1>3. task[m] \in Tasks(app.turns)
  BY DEF IInv, Types
<1>4. \A t \in runtime'.starting : \A n \in Messages : Owns(n, t) => Owns(n, t)'
  <2> SUFFICES ASSUME NEW t \in runtime'.starting, NEW n \in Messages, Owns(n, t)
               PROVE  Owns(n, t)'
    OBVIOUS
  <2>1. CASE n # m
    BY <1>1, <2>1 DEF Owns, Starting
  <2>2. CASE n = m
    <3>1. result = "stale"
      BY <2>2 DEF Owns
    <3> QED
      BY <1>1, <1>3, <2>2, <3>1 DEF Owns, Tasks
  <2> QED
    BY <2>1, <2>2
<1>5. StartingIsOwned'
  BY <1>4, OwnersKept DEF IInv
<1> QED
  BY <1>2, <1>5 DEF IInv

LEMMA MarkStartedStep ==
  ASSUME IInv, NEW m \in Messages, MarkStarted(m)
  PROVE  IInv'
<1>1. task[m].pc = "noted" /\ task[m] \in Tasks(app.turns) /\ app.turns \in Nat
  BY TurnsAreNatural DEF MarkStarted, At, IInv, Types
<1>2. /\ task[m].thread \in Threads /\ task[m].turn \in 0..app.turns /\ task[m].turn # NoTurn
      /\ task[m].result # "stale"
  BY <1>1 DEF Tasks, WithThread, WithTurn
<1> DEFINE r == MarkTurnStarted(runtime, task[m].thread, task[m].turn)
<1>3. r \in Runtimes(app.turns) /\ r.starting = runtime.starting \ {task[m].thread}
  BY <1>1, <1>2, MarkTurnStartedFacts DEF IInv, Types
<1>4. runtime' = [r EXCEPT !.origin = @ \cup {task[m].turn}]
  BY DEF MarkStarted
<1> HIDE DEF r
<1>5. task[m].turn \in 1..app.turns
  BY <1>1, <1>2 DEF NoTurn
<1>6. runtime' \in Runtimes(app.turns) /\ runtime'.starting = runtime.starting \ {task[m].thread}
  BY <1>3, <1>4, <1>5 DEF Runtimes
<1>7. End(m, "started") /\ UNCHANGED <<client, wire, work, bridge, router, app>>
  BY DEF MarkStarted
<1> QED
  BY <1>2, <1>6, <1>7, StartEnds DEF Results

LEMMA FailStep ==
  ASSUME IInv, NEW m \in Messages, Fail(m)
  PROVE  IInv'
<1>1. task[m].pc \in {"request", "asked"} /\ task[m] \in Tasks(app.turns)
  BY DEF Fail, Requesting, At, IInv, Types
<1>2. task[m].result # "stale"
  BY <1>1 DEF Tasks
<1>3. /\ runtime' \in Runtimes(app.turns)
      /\ runtime'.starting = runtime.starting \ {task[m].thread}
  BY DEF Fail, IInv, Types, Runtimes
<1>4. End(m, "failed") /\ UNCHANGED <<client, wire, work, bridge, router, app>>
  BY DEF Fail
<1> QED
  BY <1>2, <1>3, <1>4, StartEnds DEF Results

LEMMA StaleStep ==
  ASSUME IInv, NEW m \in Messages, Stale(m)
  PROVE  IInv'
<1>1. task[m].pc = "request" /\ task[m] \in Tasks(app.turns)
  BY DEF Stale, At, IInv, Types
<1>2. task[m].result # "stale"
  BY <1>1 DEF Tasks
<1>3. runtime' \in Runtimes(app.turns) /\ runtime'.starting \subseteq runtime.starting
  BY UnbindFacts, TurnsAreNatural DEF Stale, IInv, Types
<1>4. End(m, "stale") /\ UNCHANGED <<client, wire, work, bridge, router, app>>
  BY DEF Stale
<1> QED
  BY <1>2, <1>3, <1>4, StartEnds DEF Results

LEMMA StopStep ==
  ASSUME IInv, NEW m \in Messages, StopFailed(m) \/ ClearClient(m) \/ MarkStopped(m)
  PROVE  IInv'
<1>1. /\ task[m].pc \in {"stopping", "stopasked", "stopped", "cleared"}
      /\ task[m] \in Tasks(app.turns) /\ app.turns \in Nat
  BY TurnsAreNatural DEF StopFailed, ClearClient, MarkStopped, At, IInv, Types
<1>2. /\ ~Starting(m) /\ task[m].pc # "done" /\ task[m].pc \in WithTurn
      /\ task[m].thread \in Threads /\ task[m].turn \in 0..app.turns
  BY <1>1 DEF Starting, WithTurn, WithThread, Tasks
<1>3. task' \in [Messages -> Tasks(app.turns)] /\ \A n \in Messages \ {m} : task'[n] = task[n]
  <2>1. CASE End(m, "failed") \/ End(m, "stopped")
    BY <2>1, EndFacts DEF IInv, Results
  <2>2. ASSUME NEW pc \in {"stopped", "cleared", "unbind"}, Goto(m, pc)
        PROVE  task' \in [Messages -> Tasks(app.turns)] /\ \A n \in Messages \ {m} : task'[n] = task[n]
    <3>1. pc \in PCs \ {"done"}
      BY DEF PCs
    <3> QED
      BY <1>2, <2>2, <3>1, GotoFacts DEF IInv
  <2> QED
    BY <2>1, <2>2 DEF StopFailed, ClearClient, MarkStopped
<1>4. runtime' \in Runtimes(app.turns) /\ runtime'.starting \subseteq runtime.starting
  BY <1>1, <1>2, MarkTurnCompletedFacts DEF StopFailed, ClearClient, MarkStopped, IInv, Types
<1>5. client' \in Clients(app.turns)
  <2> DEFINE old == client[Conv(m)]
  <2>1. old \in [thread : Threads \cup {NoThread}, turn : 0..app.turns]
    BY MessagesAssumption DEF Conv, IInv, Types, Clients
  <2> DEFINE new == IF task[m].command = "stop"
                    THEN [old EXCEPT !.turn = IF old.turn = task[m].turn THEN NoTurn ELSE old.turn]
                    ELSE IF old.thread = task[m].thread
                         THEN [thread |-> NoThread, turn |-> NoTurn] ELSE old
  <2>2. new \in [thread : Threads \cup {NoThread}, turn : 0..app.turns]
    BY <1>1, <2>1 DEF NoTurn
  <2>3. CASE ClearClient(m)
    <3>1. client' = [client EXCEPT ![Conv(m)] = new]
      BY <2>3 DEF ClearClient, IInv, Types, Clients
    <3> HIDE DEF new
    <3> QED
      BY <2>2, <3>1 DEF IInv, Types, Clients
  <2> QED
    BY <2>3 DEF StopFailed, MarkStopped, IInv, Types
<1>6. UNCHANGED <<wire, work, bridge, router, app>>
  BY DEF StopFailed, ClearClient, MarkStopped
<1> QED
  BY <1>2, <1>3, <1>4, <1>5, <1>6, HandlerMoves

LEMMA BindingStep ==
  ASSUME IInv, NEW m \in Messages, Quit(m) \/ BindThread(m)
  PROVE  IInv'
<1>1. task[m].pc \in {"unbind", "bind"} /\ task[m] \in Tasks(app.turns) /\ app.turns \in Nat
  BY TurnsAreNatural DEF Quit, BindThread, At, IInv, Types
<1>2. ~Starting(m) /\ task[m].pc # "done" /\ (task[m].pc = "bind" => task[m].thread \in Threads)
  BY <1>1 DEF Starting, WithThread, Tasks
<1>3. End(m, "quit") \/ End(m, "bound")
  BY DEF Quit, BindThread
<1>4. task' \in [Messages -> Tasks(app.turns)] /\ \A n \in Messages \ {m} : task'[n] = task[n]
  BY <1>3, EndFacts DEF IInv, Results
<1>5. Conv(m) \in Convs
  BY MessagesAssumption DEF Conv
<1>6. runtime' \in Runtimes(app.turns) /\ runtime'.starting \subseteq runtime.starting
  BY <1>1, <1>2, <1>5, UnbindFacts, BindFacts DEF Quit, BindThread, At, IInv, Types
<1>7. client' \in Clients(app.turns) /\ UNCHANGED <<wire, work, bridge, router, app>>
  BY DEF Quit, BindThread, IInv, Types
<1> QED
  BY <1>2, <1>4, <1>6, <1>7, HandlerMoves

\* what is under way stays as it is when a step of the app-server or of a
\* client changes no mark
LEMMA TypesAreEnough ==
  ASSUME IInv, Types', runtime'.starting \subseteq runtime.starting,
         \A n \in Messages : task'[n] = task[n]
  PROVE  IInv'
<1>1. \A t : \A n \in Messages : Owns(n, t) => Owns(n, t)'
  BY DEF Owns, Starting
<1> QED
  BY <1>1, OwnersKept DEF IInv

LEMMA ResumeStep ==
  ASSUME IInv, NEW m \in Messages, Resume(m)
  PROVE  IInv'
<1>1. task[m].pc = "resume" /\ task[m] \in Tasks(app.turns) /\ app.turns \in Nat
  BY TurnsAreNatural DEF Resume, At, IInv, Types
<1>2. ~Starting(m) /\ task[m].pc # "done" /\ task[m].result # "stale"
  BY <1>1 DEF Starting, Tasks
<1>3. CASE End(m, "failed") /\ UNCHANGED <<client, app>>
  <2>1. task' \in [Messages -> Tasks(app.turns)] /\ \A n \in Messages \ {m} : task'[n] = task[n]
    BY <1>3, EndFacts DEF IInv, Results
  <2> QED
    BY <1>2, <1>3, <2>1, HandlerMoves DEF Resume, IInv, Types
<1>4. ASSUME NEW t \in Threads,
             client' = [client EXCEPT ![Conv(m)] =
                          IF @.thread = t THEN @ ELSE [thread |-> t, turn |-> NoTurn]],
             app' = [app EXCEPT !.subs[t] = @ \cup {Conv(m)}],
             task' = [task EXCEPT ![m].pc = "bind", ![m].thread = t]
      PROVE  IInv'
  <2>1. [task[m] EXCEPT !.pc = "bind", !.thread = t] \in Tasks(app.turns)
    BY <1>1, <1>2, TaskGetsThread
  <2>2. task' = [task EXCEPT ![m] = [task[m] EXCEPT !.pc = "bind", !.thread = t]]
    BY <1>4
  <2>3. task' \in [Messages -> Tasks(app.turns)] /\ \A n \in Messages \ {m} : task'[n] = task[n]
    BY <2>1, <2>2 DEF IInv, Types
  <2>4. client' \in Clients(app.turns)
    <3> DEFINE old == client[Conv(m)]
               new == IF old.thread = t THEN old ELSE [thread |-> t, turn |-> NoTurn]
    <3>1. new \in [thread : Threads \cup {NoThread}, turn : 0..app.turns]
      BY <1>1, MessagesAssumption DEF Conv, IInv, Types, Clients, NoTurn
    <3>2. client' = [client EXCEPT ![Conv(m)] = new]
      BY <1>4
    <3> HIDE DEF new
    <3> QED
      BY <3>1, <3>2 DEF IInv, Types, Clients
  <2>5. Conv(m) \in Convs
    BY MessagesAssumption DEF Conv
  <2>6. app' \in Apps /\ app'.turns = app.turns /\ app'.running = app.running
    BY <1>4, <2>5 DEF IInv, Types, Apps
  <2>7. UNCHANGED <<runtime, wire, work, bridge, router>>
    BY DEF Resume
  <2>8. Types'
    BY <2>3, <2>4, <2>6, <2>7 DEF IInv, Types
  <2>9. \A t2 : \A n \in Messages : Owns(n, t2) => Owns(n, t2)'
    BY <1>2, <2>3 DEF Owns, Starting
  <2> QED
    BY <2>7, <2>8, <2>9, OwnersKept DEF IInv
<1> QED
  BY <1>3, <1>4 DEF Resume

LEMMA ReceiveStep ==
  ASSUME IInv, NEW m \in Messages, Receive(m)
  PROVE  IInv'
<1>1. task[m].pc = "idle" /\ task[m] \in Tasks(app.turns)
  BY DEF Receive, At, IInv, Types
<1>2. ~Starting(m) /\ task[m].pc # "done" /\ task[m].result # "stale"
  BY <1>1 DEF Starting, Tasks
<1>3. PICK x \in CommandsOf[m] :
        task' = [task EXCEPT ![m].pc = IF x = "resume" THEN "resume" ELSE "check",
                             ![m].command = x]
  BY DEF Receive
<1>4. x \in {"text", "stop", "quit", "resume"}
  BY MessagesAssumption
<1> DEFINE k == [task[m] EXCEPT !.pc = IF x = "resume" THEN "resume" ELSE "check", !.command = x]
<1>5. k \in Tasks(app.turns)
  BY <1>1, <1>2, <1>4 DEF Tasks, PCs, WithThread, WithTurn
<1>6. task' = [task EXCEPT ![m] = k]
  BY <1>3
<1> HIDE DEF k
<1>7. task' \in [Messages -> Tasks(app.turns)] /\ \A n \in Messages \ {m} : task'[n] = task[n]
  BY <1>5, <1>6 DEF IInv, Types
<1> QED
  BY <1>2, <1>7, HandlerMoves DEF Receive, IInv, Types

LEMMA HandlerSteps ==
  ASSUME IInv, NEW m \in Messages, Receive(m) \/ HandlerStep(m)
  PROVE  IInv'
BY ReceiveStep, CheckTextStep, CheckStopStep, LookupStep, GateStep, NoteTurnStep, MarkStartedStep,
   FailStep, StaleStep, StopStep, BindingStep, ResumeStep DEF HandlerStep

-----------------------------------------------------------------------------
(* Steps of the app-server.                                                 *)

LEMMA AppStartStep ==
  ASSUME IInv, NEW m \in Messages, AppStart(m)
  PROVE  IInv'
<1> DEFINE t == task[m].thread
           k == app.turns + 1
           n == Notice("reply", t, k, m)
           s == Notice("started", t, k, NoInbound)
<1>1. /\ task[m].pc = "request" /\ task[m] \in Tasks(app.turns) /\ app.turns \in Nat
      /\ app.turns < MaxTurns
  BY TurnsAreNatural DEF AppStart, At, IInv, Types
<1>2. t \in Threads /\ task[m].result # "stale"
  BY <1>1 DEF Tasks, WithThread
<1>3. Conv(m) \in Convs
  BY MessagesAssumption DEF Conv
<1>4. app' = [app EXCEPT !.turns = k, !.running[t] = @ \cup {k}, !.subs[t] = @ \cup {Conv(m)}]
  BY DEF AppStart
<1>5. app' \in Apps /\ app'.turns = k
  <2>1. k \in 0..MaxTurns /\ k \in Nat
    BY <1>1, BoundsAssumption
  <2>2. /\ [app.running EXCEPT ![t] = @ \cup {k}] \in [Threads -> SUBSET Nat]
        /\ [app.subs EXCEPT ![t] = @ \cup {Conv(m)}] \in [Threads -> SUBSET Convs]
    BY <1>2, <1>3, <2>1 DEF IInv, Types, Apps
  <2>3. app' = [app EXCEPT !.turns = k, !.running = [app.running EXCEPT ![t] = @ \cup {k}],
                           !.subs = [app.subs EXCEPT ![t] = @ \cup {Conv(m)}]]
    BY <1>4 DEF IInv, Types, Apps
  <2> QED
    BY <2>1, <2>2, <2>3 DEF IInv, Types, Apps
<1>6. \A u \in Threads : app'.running[u] \subseteq 1..k
  BY <1>1, <1>2, <1>4 DEF IInv, Types, Apps
<1>7. n \in Notices(k) /\ s \in Notices(k)
  BY <1>1, <1>2, ReplyMade, NoticeMade
<1>8. wire \in [Convs -> Seq(Notices(k))] /\ bridge \in Seq(Notices(k))
  BY <1>1, OneMoreTurn, SeqGrows DEF IInv, Types
<1>9. wire' = Send(Send(wire, {Conv(m)}, n), app'.subs[t], s)
  BY DEF AppStart
<1> HIDE DEF n, s
<1>10. wire' \in [Convs -> Seq(Notices(k))]
  BY <1>7, <1>8, <1>9, SendKeeps
<1>11. /\ task' \in [Messages -> Tasks(app.turns)]
       /\ \A o \in Messages \ {m} : task'[o] = task[o]
       /\ task'[m] = [task[m] EXCEPT !.pc = "asked"]
  <2>1. /\ "asked" \in PCs \ {"done"} /\ "asked" \notin WithTurn
        /\ task[m].pc \in WithThread /\ task[m].pc # "done"
    BY <1>1 DEF PCs, WithTurn, WithThread
  <2> QED
    BY <2>1, GotoFacts DEF AppStart, IInv
<1>12. UNCHANGED <<runtime, client, work, bridge, router>>
  BY DEF AppStart
<1>13. /\ task' \in [Messages -> Tasks(k)] /\ runtime' \in Runtimes(k) /\ client' \in Clients(k)
       /\ work' \in [Convs -> Notices(k) \cup {Nothing}] /\ router' \in Routings(k)
  BY <1>1, <1>11, <1>12, OneMoreTurn DEF IInv, Types
<1>14. Types'
  BY <1>5, <1>6, <1>8, <1>10, <1>12, <1>13 DEF Types
<1>15. \A u : \A o \in Messages : Owns(o, u) => Owns(o, u)'
  BY <1>1, <1>2, <1>11 DEF Owns, Starting, Tasks
<1> QED
  BY <1>12, <1>14, <1>15, OwnersKept DEF IInv

LEMMA AppNoticeStep ==
  ASSUME IInv, NEW t \in Threads, AppComplete(t) \/ AppIdle(t) \/ AppAsk(t)
  PROVE  IInv'
<1>1. app.turns \in Nat
  BY TurnsAreNatural DEF IInv
<1>2. /\ app' \in Apps /\ app'.turns = app.turns
      /\ \A u \in Threads : app'.running[u] \subseteq app.running[u]
  <2>1. CASE AppComplete(t)
    <3>1. PICK k \in app.running[t] : app' = [app EXCEPT !.running[t] = @ \ {k}]
      BY <2>1 DEF AppComplete
    <3>2. [app.running EXCEPT ![t] = @ \ {k}] \in [Threads -> SUBSET Nat]
      BY DEF IInv, Types, Apps
    <3>3. app' = [app EXCEPT !.running = [app.running EXCEPT ![t] = @ \ {k}]]
      BY <3>1 DEF IInv, Types, Apps
    <3> QED
      BY <3>2, <3>3 DEF IInv, Types, Apps
  <2>2. CASE AppIdle(t) \/ AppAsk(t)
    <3>1. app.idles + 1 \in Nat /\ app.asks + 1 \in Nat
      BY DEF IInv, Types, Apps
    <3>2. CASE AppIdle(t)
      BY <3>1, <3>2 DEF AppIdle, IInv, Types, Apps
    <3>3. CASE AppAsk(t)
      BY <3>1, <3>3 DEF AppAsk, IInv, Types, Apps
    <3> QED
      BY <2>2, <3>2, <3>3
  <2> QED
    BY <2>1, <2>2
<1>3. wire' \in [Convs -> Seq(Notices(app.turns))]
  <2>1. PICK n \in Notices(app.turns) : wire' = Send(wire, app.subs[t], n)
    <3>1. CASE AppComplete(t)
      <4>1. PICK k \in app.running[t] :
              wire' = Send(wire, app.subs[t], Notice("completed", t, k, NoInbound))
        BY <3>1 DEF AppComplete
      <4>2. k \in 0..app.turns
        BY <1>1 DEF IInv, Types
      <4> QED
        BY <1>1, <4>1, <4>2, NoticeMade
    <3>2. CASE AppIdle(t) \/ AppAsk(t)
      <4>1. NoTurn \in 0..app.turns
        BY <1>1 DEF NoTurn
      <4> QED
        BY <1>1, <3>2, <4>1, NoticeMade DEF AppIdle, AppAsk
    <3> QED
      BY <3>1, <3>2
  <2> QED
    BY <2>1, SendKeeps DEF IInv, Types
<1>4. UNCHANGED <<runtime, client, task, work, bridge, router>>
  BY DEF AppComplete, AppIdle, AppAsk
<1>5. Types'
  BY <1>2, <1>3, <1>4 DEF IInv, Types
<1> QED
  BY <1>4, <1>5, TypesAreEnough

LEMMA AppInterruptStep ==
  ASSUME IInv, NEW m \in Messages, AppInterrupt(m)
  PROVE  IInv'
<1> DEFINE t == task[m].thread
           k == task[m].turn
           n == Notice("reply", t, k, m)
           e == Notice("completed", t, k, NoInbound)
<1>1. task[m].pc = "stopping" /\ task[m] \in Tasks(app.turns) /\ app.turns \in Nat
  BY TurnsAreNatural DEF AppInterrupt, At, IInv, Types
<1>2. t \in Threads /\ k \in 1..app.turns
  BY <1>1 DEF Tasks, WithThread, WithTurn, NoTurn
<1>3. n \in Notices(app.turns) /\ e \in Notices(app.turns)
  BY <1>1, <1>2, ReplyMade, NoticeMade
<1>4. \/ wire' = Send(wire, {Conv(m)}, n)
      \/ wire' = Send(Send(wire, {Conv(m)}, n), app.subs[t], e)
  BY DEF AppInterrupt
<1>5. /\ app' \in Apps /\ app'.turns = app.turns
      /\ \A u \in Threads : app'.running[u] \subseteq app.running[u]
  BY <1>2 DEF AppInterrupt, IInv, Types, Apps
<1> HIDE DEF n, e
<1>6. wire' \in [Convs -> Seq(Notices(app.turns))]
  <2>1. Send(wire, {Conv(m)}, n) \in [Convs -> Seq(Notices(app.turns))]
    BY <1>3, SendKeeps DEF IInv, Types
  <2>2. Send(Send(wire, {Conv(m)}, n), app.subs[t], e) \in [Convs -> Seq(Notices(app.turns))]
    BY <1>3, <2>1, SendKeeps
  <2> QED
    BY <1>4, <2>1, <2>2
<1>7. task' \in [Messages -> Tasks(app.turns)] /\ \A o \in Messages \ {m} : task'[o] = task[o]
  <2>1. /\ "stopasked" \in PCs \ {"done"} /\ task[m].pc \in WithTurn /\ task[m].pc # "done"
    BY <1>1 DEF PCs, WithTurn, WithThread
  <2> QED
    BY <2>1, GotoFacts DEF AppInterrupt, IInv
<1>8. UNCHANGED <<runtime, client, work, bridge, router>>
  BY DEF AppInterrupt
<1>9. Types'
  BY <1>5, <1>6, <1>7, <1>8 DEF IInv, Types
<1>10. \A u : \A o \in Messages : Owns(o, u) => Owns(o, u)'
  BY <1>1, <1>7 DEF Owns, Starting, Tasks
<1> QED
  BY <1>8, <1>9, <1>10, OwnersKept DEF IInv

-----------------------------------------------------------------------------
(* Steps of the server-work tasks.                                          *)

LEMMA HeadAndTail ==
  ASSUME NEW S, NEW q \in Seq(S), q # << >>
  PROVE  Head(q) \in S /\ Tail(q) \in Seq(S)
OBVIOUS

\* the notice a client takes up, and what is left of them
LEMMA NextNotice ==
  ASSUME IInv, NEW c \in Convs, wire[c] # << >>, Taken(c)
  PROVE  /\ Head(wire[c]) \in Notices(app.turns)
         /\ wire' \in [Convs -> Seq(Notices(app.turns))]
<1>1. Head(wire[c]) \in Notices(app.turns) /\ Tail(wire[c]) \in Seq(Notices(app.turns))
  BY HeadAndTail DEF IInv, Types
<1> QED
  BY <1>1 DEF Taken, IInv, Types

LEMMA TakeReplyStep ==
  ASSUME IInv, NEW c \in Convs, TakeReply(c)
  PROVE  IInv'
<1> DEFINE n == Head(wire[c])
           m == n.msg
<1>1. n \in Notices(app.turns) /\ wire' \in [Convs -> Seq(Notices(app.turns))]
  BY NextNotice DEF TakeReply, Next1
<1>2. n.kind = "reply"
  BY DEF TakeReply, Next1
<1>3. /\ m \in Messages /\ n.turn \in 1..app.turns /\ n.turn \in 0..app.turns /\ n.thread \in Threads
      /\ app.turns \in Nat
  BY <1>1, <1>2, TurnsAreNatural DEF Notices, NoTurn, IInv
<1>4. task[m] \in Tasks(app.turns)
  BY <1>3 DEF IInv, Types
<1>5. UNCHANGED <<runtime, work, bridge, router, app>>
  BY DEF TakeReply
<1>6. CASE At(m, "asked")
  <2>1. /\ task' = [task EXCEPT ![m].pc = "replied", ![m].turn = n.turn]
        /\ client' = [client EXCEPT ![c] = [thread |-> n.thread, turn |-> n.turn]]
    BY <1>6 DEF TakeReply
  <2> HIDE DEF n, m
  <2>2. task[m].pc \in WithThread /\ task[m].pc = "asked" /\ task[m].result # "stale"
    BY <1>4, <1>6 DEF At, WithThread, Tasks
  <2>3. [task[m] EXCEPT !.pc = "replied", !.turn = n.turn] \in Tasks(app.turns)
    BY <1>3, <1>4, <2>2, TaskGetsTurn
  <2>4. task' = [task EXCEPT ![m] = [task[m] EXCEPT !.pc = "replied", !.turn = n.turn]]
    BY <2>1
  <2>5. /\ task' \in [Messages -> Tasks(app.turns)]
        /\ \A o \in Messages \ {m} : task'[o] = task[o]
        /\ task'[m] = [task[m] EXCEPT !.pc = "replied", !.turn = n.turn]
    BY <1>3, <2>3, <2>4 DEF IInv, Types
  <2>6. client' \in Clients(app.turns)
    BY <1>3, <2>1 DEF IInv, Types, Clients
  <2>7. Types'
    BY <1>1, <1>5, <2>5, <2>6 DEF IInv, Types
  <2>8. \A u : \A o \in Messages : Owns(o, u) => Owns(o, u)'
    BY <1>3, <1>4, <2>2, <2>5 DEF Owns, Starting, Tasks
  <2> QED
    BY <1>5, <2>7, <2>8, OwnersKept DEF IInv
<1>7. CASE At(m, "stopasked")
  <2>1. Goto(m, "stopped") /\ UNCHANGED client
    BY <1>7 DEF TakeReply, At
  <2> HIDE DEF n, m
  <2>2. "stopped" \in PCs \ {"done"} /\ task[m].pc \in WithTurn /\ task[m].pc # "done"
    BY <1>7 DEF PCs, WithTurn, At
  <2>3. task' \in [Messages -> Tasks(app.turns)] /\ \A o \in Messages \ {m} : task'[o] = task[o]
    BY <1>3, <2>1, <2>2, GotoFacts DEF IInv
  <2>4. Types'
    BY <1>1, <1>5, <2>1, <2>3 DEF IInv, Types
  <2>5. \A u : \A o \in Messages : Owns(o, u) => Owns(o, u)'
    BY <1>4, <1>7, <2>3 DEF Owns, Starting, Tasks, At
  <2> QED
    BY <1>5, <2>4, <2>5, OwnersKept DEF IInv
<1>8. CASE ~At(m, "asked") /\ ~At(m, "stopasked")
  <2>1. UNCHANGED <<task, client>>
    BY <1>8 DEF TakeReply
  <2>2. Types'
    BY <1>1, <1>5, <2>1 DEF IInv, Types
  <2> QED
    BY <1>5, <2>1, <2>2, TypesAreEnough
<1> QED
  BY <1>6, <1>7, <1>8

LEMMA ClientForgetsTurn ==
  ASSUME NEW N \in Nat, NEW f \in Clients(N), NEW c \in Convs
  PROVE  /\ [f EXCEPT ![c].turn = NoTurn] \in Clients(N)
         /\ \A x \in BOOLEAN : [f EXCEPT ![c].turn = IF x THEN NoTurn ELSE @] \in Clients(N)
<1>1. f[c] \in [thread : Threads \cup {NoThread}, turn : 0..N]
  BY DEF Clients
<1>2. /\ [f[c] EXCEPT !.turn = NoTurn] \in [thread : Threads \cup {NoThread}, turn : 0..N]
      /\ [f[c] EXCEPT !.turn = @] \in [thread : Threads \cup {NoThread}, turn : 0..N]
  BY <1>1 DEF NoTurn
<1> QED
  BY <1>2 DEF Clients

\* the other notices move no task
LEMMA TakeNoticeStep ==
  ASSUME IInv, NEW c \in Convs,
         Ignore(c) \/ TakeStarted(c) \/ TakeCompleted(c) \/ TakeApproval(c) \/ TakeStatus(c)
  PROVE  IInv'
<1> DEFINE n == Head(wire[c])
<1>1. n \in Notices(app.turns) /\ wire' \in [Convs -> Seq(Notices(app.turns))]
  BY NextNotice DEF Ignore, TakeStarted, TakeCompleted, TakeApproval, TakeStatus, Next1
<1>2. n.thread \in Threads /\ n.turn \in 0..app.turns /\ app.turns \in Nat
  BY <1>1, TurnsAreNatural DEF Notices, IInv
<1>3. bridge' = bridge \/ bridge' = Append(bridge, n)
  BY DEF Ignore, TakeStarted, TakeCompleted, TakeApproval, TakeStatus
<1>4. work' = work \/ work' = [work EXCEPT ![c] = n]
  BY DEF Ignore, TakeStarted, TakeCompleted, TakeApproval, TakeStatus
<1>5. \/ client' = client
      \/ client' = [client EXCEPT ![c] = [thread |-> n.thread, turn |-> n.turn]]
      \/ client' = [client EXCEPT ![c].turn = IF client[c].thread = n.thread THEN NoTurn ELSE @]
  BY DEF Ignore, TakeStarted, TakeCompleted, TakeApproval, TakeStatus
<1>6. \/ runtime' = runtime
      \/ runtime' = MarkTurnCompleted(runtime, n.thread, n.turn)
      \/ runtime' = MarkTurnCompleted(runtime, n.thread, NoTurn)
  BY DEF Ignore, TakeStarted, TakeCompleted, TakeApproval, TakeStatus
<1>7. UNCHANGED <<task, router, app>>
  BY DEF Ignore, TakeStarted, TakeCompleted, TakeApproval, TakeStatus
<1> HIDE DEF n
<1>8. bridge' \in Seq(Notices(app.turns)) /\ work' \in [Convs -> Notices(app.turns) \cup {Nothing}]
  <2>1. bridge \in Seq(Notices(app.turns)) /\ Append(bridge, n) \in Seq(Notices(app.turns))
    BY <1>1 DEF IInv, Types
  <2>2. [work EXCEPT ![c] = n] \in [Convs -> Notices(app.turns) \cup {Nothing}]
    BY <1>1 DEF IInv, Types
  <2> QED
    BY <1>3, <1>4, <2>1, <2>2 DEF IInv, Types
<1>9. client' \in Clients(app.turns)
  <2>1. NoTurn \in 0..app.turns
    BY <1>2 DEF NoTurn
  <2>2. [client EXCEPT ![c].turn = IF client[c].thread = n.thread THEN NoTurn ELSE @] \in Clients(app.turns)
    BY <1>2, <2>1, ClientForgetsTurn DEF IInv, Types
  <2>3. [client EXCEPT ![c] = [thread |-> n.thread, turn |-> n.turn]] \in Clients(app.turns)
    BY <1>2 DEF IInv, Types, Clients
  <2> QED
    BY <1>5, <2>2, <2>3 DEF IInv, Types
<1>10. runtime' \in Runtimes(app.turns) /\ runtime'.starting \subseteq runtime.starting
  BY <1>2, <1>6, MarkTurnCompletedFacts DEF IInv, Types
<1>11. Types'
  BY <1>1, <1>7, <1>8, <1>9, <1>10 DEF IInv, Types
<1> QED
  BY <1>7, <1>10, <1>11, TypesAreEnough

LEMMA StatusStep ==
  ASSUME IInv, NEW c \in Convs, StatusTakesTurn(c) \/ StatusMarksAgain(c)
  PROVE  IInv'
<1>1. work[c] \in Notices(app.turns) \/ work[c] = Nothing
  BY DEF IInv, Types
<1>2. work[c].kind \in {"status", "again"}
  BY DEF StatusTakesTurn, StatusMarksAgain
<1>3. work[c] \in Notices(app.turns) /\ app.turns \in Nat
  BY <1>1, <1>2, TurnsAreNatural DEF Nothing, Notice, IInv
<1>4. work[c].thread \in Threads /\ work[c].turn \in 0..app.turns
  BY <1>3 DEF Notices
<1>5. client[c].turn \in 0..app.turns /\ NoTurn \in 0..app.turns
  BY <1>3 DEF NoTurn, IInv, Types, Clients
<1>6. work' \in [Convs -> Notices(app.turns) \cup {Nothing}]
  <2> DEFINE rebound == [work[c] EXCEPT !.kind = "again", !.turn = client[c].turn]
  <2>1. rebound \in Notices(app.turns)
    BY <1>3, <1>5 DEF Notices
  <2>2. work' = [work EXCEPT ![c] = rebound] \/ work' = [work EXCEPT ![c] = Nothing]
    BY DEF StatusTakesTurn, StatusMarksAgain
  <2> HIDE DEF rebound
  <2> QED
    BY <2>1, <2>2 DEF IInv, Types
<1>7. client' \in Clients(app.turns)
  <2>1. client' = client \/ client' = [client EXCEPT ![c].turn = NoTurn]
    BY DEF StatusTakesTurn, StatusMarksAgain
  <2> QED
    BY <1>3, <2>1, ClientForgetsTurn DEF IInv, Types
<1>8. runtime' \in Runtimes(app.turns) /\ runtime'.starting \subseteq runtime.starting
  BY <1>3, <1>4, MarkTurnCompletedFacts DEF StatusTakesTurn, StatusMarksAgain, IInv, Types
<1>9. UNCHANGED <<task, wire, bridge, router, app>>
  BY DEF StatusTakesTurn, StatusMarksAgain
<1>10. Types'
  BY <1>6, <1>7, <1>8, <1>9 DEF IInv, Types
<1> QED
  BY <1>8, <1>9, <1>10, TypesAreEnough

LEMMA LostStep ==
  ASSUME IInv, NEW c \in Convs, Lost(c)
  PROVE  IInv'
<1>1. << >> \in Seq(Notices(app.turns))
  OBVIOUS
<1>2. Types'
  BY <1>1 DEF Lost, IInv, Types
<1> QED
  BY <1>2, TypesAreEnough DEF Lost

-----------------------------------------------------------------------------
(* Steps of the event router.                                               *)

LEMMA RouterTakeStep ==
  ASSUME IInv, RouterTake
  PROVE  IInv'
<1>1. Head(bridge) \in Notices(app.turns) /\ Tail(bridge) \in Seq(Notices(app.turns))
  BY HeadAndTail DEF RouterTake, IInv, Types
<1>2. runtime.route[Head(bridge).thread] \in Convs \cup {NoConv}
  BY <1>1 DEF Notices, IInv, Types, Runtimes
<1>3. NotRouting \in Routings(app.turns)
  BY DEF NotRouting, Routed, Routings
<1>4. Routed(Head(bridge), runtime.route[Head(bridge).thread]) \in Routings(app.turns)
  BY <1>1, <1>2 DEF Routed, Routings
<1>5. router' \in Routings(app.turns)
  BY <1>3, <1>4 DEF RouterTake
<1>6. Types'
  BY <1>1, <1>5 DEF RouterTake, IInv, Types
<1> QED
  BY <1>6, TypesAreEnough DEF RouterTake

LEMMA RouterHandlesStep ==
  ASSUME IInv, RouterStarted \/ RouterCompleted \/ RouterApproval
  PROVE  IInv'
<1> DEFINE n == router.notice
<1>1. n.kind \in {"started", "completed", "approval"}
  BY DEF RouterStarted, RouterCompleted, RouterApproval, RouterHas
<1>2. n \in Notices(app.turns) /\ router.conv \in Convs \cup {NoConv} /\ app.turns \in Nat
  BY <1>1, TurnsAreNatural DEF IInv, Types, Routings, Nothing, Notice
<1>3. n.thread \in Threads /\ n.turn \in 0..app.turns
  BY <1>2 DEF Notices
<1>4. runtime' \in Runtimes(app.turns) /\ runtime'.starting \subseteq runtime.starting
  <2>1. CASE RouterStarted
    BY <1>2, <1>3, <2>1, MarkTurnStartedFacts DEF RouterStarted, IInv, Types
  <2>2. CASE RouterCompleted
    BY <1>2, <1>3, <2>2, MarkTurnCompletedFacts DEF RouterCompleted, IInv, Types
  <2>3. CASE RouterApproval
    BY <1>2, <1>3, <2>3 DEF RouterApproval, IInv, Types, Runtimes
  <2> QED
    BY <2>1, <2>2, <2>3
<1>5. NotRouting \in Routings(app.turns)
  BY DEF NotRouting, Routed, Routings
<1>6. router' = NotRouting /\ UNCHANGED <<client, task, wire, work, bridge, app>>
  BY DEF RouterStarted, RouterCompleted, RouterApproval, RouterDone
<1>7. Types'
  BY <1>4, <1>5, <1>6 DEF IInv, Types
<1> QED
  BY <1>4, <1>6, <1>7, TypesAreEnough

-----------------------------------------------------------------------------
(* The theorems.                                                            *)

LEMMA GateInitIInv == GateInit => IInv
<1> SUFFICES ASSUME GateInit PROVE IInv
  OBVIOUS
<1>1. app.turns = 0 /\ app \in Apps /\ \A t \in Threads : app.running[t] \subseteq 1..app.turns
  BY BoundsAssumption DEF GateInit, Apps
<1>2. runtime \in Runtimes(0) /\ runtime.starting = {}
  BY DEF GateInit, Runtimes, NoTurn
<1>3. client \in Clients(0)
  BY DEF GateInit, Clients, NoTurn
<1>4. task \in [Messages -> Tasks(0)]
  BY DEF GateInit, Tasks, PCs, WithThread, WithTurn, NoTurn, Results
<1>5. wire \in [Convs -> Seq(Notices(0))] /\ bridge \in Seq(Notices(0))
  BY DEF GateInit
<1>6. work \in [Convs -> Notices(0) \cup {Nothing}]
  BY DEF GateInit
<1>7. router \in Routings(0)
  BY DEF GateInit, NotRouting, Routed, Routings
<1> QED
  BY <1>1, <1>2, <1>3, <1>4, <1>5, <1>6, <1>7 DEF IInv, Types, StartingIsOwned

LEMMA GateNextIInv == IInv /\ [GateNext]_gateVars => IInv'
<1> SUFFICES ASSUME IInv, [GateNext]_gateVars PROVE IInv'
  OBVIOUS
<1>1. ASSUME NEW m \in Messages, Receive(m) \/ HandlerStep(m) \/ AppStart(m) \/ AppInterrupt(m)
      PROVE  IInv'
  BY <1>1, HandlerSteps, AppStartStep, AppInterruptStep
<1>2. ASSUME NEW t \in Threads, AppComplete(t) \/ AppIdle(t) \/ AppAsk(t)
      PROVE  IInv'
  BY <1>2, AppNoticeStep
<1>3. ASSUME NEW c \in Convs, WorkStep(c) \/ Lost(c)
      PROVE  IInv'
  BY <1>3, TakeReplyStep, TakeNoticeStep, StatusStep, LostStep DEF WorkStep
<1>4. CASE RouterTake \/ RouterStarted \/ RouterCompleted \/ RouterApproval
  BY <1>4, RouterTakeStep, RouterHandlesStep
<1>5. CASE UNCHANGED gateVars
  <2>1. Types'
    BY <1>5 DEF gateVars, IInv, Types
  <2> QED
    BY <1>5, <2>1, TypesAreEnough DEF gateVars
<1> QED
  BY <1>1, <1>2, <1>3, <1>4, <1>5 DEF GateNext

LEMMA GateInvariance == GateSpec => []IInv
<1> QED
  BY GateInitIInv, GateNextIInv, PTL DEF GateSpec

(* Tasks, gate and clients name threads and turns of the app-server only,   *)
(* whatever is lost on the way (im_runtime.rs, im/core/turn.rs).            *)
THEOREM GateIsTyped == GateSpec => []GateTypeOK
<1>1. IInv => GateTypeOK
  <2> SUFFICES ASSUME IInv PROVE GateTypeOK
    OBVIOUS
  <2>1. app.turns \in Nat
    BY TurnsAreNatural DEF IInv
  <2>2. \A m \in Messages :
          /\ task[m].pc \in {"gate", "request", "asked", "stopping", "bind"} => task[m].thread \in Threads
          /\ task[m].pc \in {"replied", "noted", "stopping", "stopped", "cleared"}
               => task[m].turn \in 1..app.turns
    BY <2>1 DEF IInv, Types, Tasks, WithThread, WithTurn, NoTurn
  <2> QED
    BY <2>2 DEF IInv, Types, GateTypeOK, Runtimes, Clients
<1> QED
  BY <1>1, GateInvariance, PTL

(* A thread marked as starting has a task that takes the mark back, or was  *)
(* unbound by a start refused with "thread not found": no sequence of       *)
(* completions, stops, bindings and concurrent messages blocks a thread     *)
(* behind the back of its tasks (try_mark_turn_starting).                   *)
THEOREM MarksAreOwned == GateSpec => []StartingIsOwned
<1>1. IInv => StartingIsOwned
  BY DEF IInv
<1> QED
  BY <1>1, GateInvariance, PTL

-----------------------------------------------------------------------------
(* Messages: where each one is.                                             *)

MessageKinds == {"reply", "image", "mark", "item", "approval"}
Queueable == [turn : Nat, kind : MessageKinds]
NoDuplicates(s) == \A i, j \in DOMAIN s : s[i] = s[j] => i = j
InHand == {worker.m} \ {NoMessage}
Waiting == Range(queue) \cup Range(recovery.pending)

WorkerPcs == {"idle", "look", "token", "read", "send", "resend", "defer", "forget", "forgetagain"}
Tokens == {"none", "fresh", "stale"}

MessageTypes ==
  /\ queue \in Seq(Queueable) /\ queued \subseteq Queueable
  /\ recovery \in [awaiting : BOOLEAN, pending : Seq(Queueable)]
  /\ worker \in [pc : WorkerPcs, m : Queueable \cup {NoMessage}, token : Tokens] /\ token \in Tokens
  /\ turn \in [works : Works, n : Nat, pc : {"runs", "said"}]

\* a message is queued, pending, in hand or sent, in one of these places only
InOnePlace ==
  /\ NoDuplicates(queue) /\ NoDuplicates(recovery.pending)
  /\ Range(queue) \cap Range(recovery.pending) = {}
  /\ InHand \cap Waiting = {}
  /\ sent \cap (InHand \cup Waiting) = {}
  /\ InHand \cup Waiting \cup sent \subseteq queued
  /\ worker.pc # "idle" => worker.m \in Queueable

\* what was handed over belongs to a turn that is over, or to what was said of this one
HandedOver ==
  \A m \in queued :
    \/ m.turn < turn.n
    \/ /\ m.turn = turn.n /\ turn.pc = "said"
       /\ Doing({"turn"}) => m.kind \in {"reply", "image"}
SaidOnce ==
  turn.pc = "said" => /\ Doing({"turn"} \cup Items)
                      /\ Doing({"turn"}) => last = TextOf[turn.n]

MessagesInv == MessageTypes /\ InOnePlace /\ HandedOver /\ SaidOnce /\ DeliveredOnce

-----------------------------------------------------------------------------
(* Cards: who sends, and which text.                                        *)

Cards == [on : BOOLEAN, text : Nat, sent : Nat, completed : BOOLEAN, sending : BOOLEAN,
          dirty : BOOLEAN, posted : BOOLEAN, sequence : Nat]
DriverStates == [pc : {"off", "claim", "skip", "wait", "send"}, snap : Cards]

CardTypes ==
  /\ item \in [kind : Kinds, pc : {"open", "done"}, n : Nat, said : Nat]
  /\ card \in Cards /\ driver \in [Drivers -> DriverStates]
  /\ chat \in [posts : Nat, shown : Nat, taken : Nat] /\ restarts \in Nat

Sends(d) == driver[d].pc \in {"skip", "wait", "send"}

\* what the newest card shows does not go back
GoesForward == restarts = 0 /\ chat'.posts = chat.posts => chat'.shown >= chat.shown

\* one driver sends at a time, what it sends is not older than what is shown
OneSends == \A d, e \in Drivers : Sends(d) /\ Sends(e) => d = e
SendsForward ==
  \A d \in Drivers : Sends(d) =>
    card.on /\ card.sending /\ chat.shown <= driver[d].snap.text /\ driver[d].snap.text <= card.text

\* a card that is gone does not come back with an older text
TextsGrow ==
  /\ card.on => chat.shown <= card.text
  /\ card.text <= item.n
  /\ card.completed => item.pc = "done"
  /\ ~card.on => card = NoCard /\ (item.pc = "done" \/ chat.shown = 0)

CardsInv == CardTypes /\ (restarts = 0 => OneSends /\ SendsForward /\ TextsGrow)

-----------------------------------------------------------------------------
(* Sequences without duplicates.                                            *)

(* One message, or none. *)
LEMMA ShortOnce ==
  ASSUME NEW m \in Queueable
  PROVE  /\ <<m>> \in Seq(Queueable) /\ NoDuplicates(<<m>>) /\ Range(<<m>>) = {m}
         /\ << >> \in Seq(Queueable) /\ NoDuplicates(<< >>) /\ Range(<< >>) = {}
  BY DEF NoDuplicates, Range

(* Two sequences with nothing in common, one after the other. *)
LEMMA ConcatOnce ==
  ASSUME NEW s \in Seq(Queueable), NEW t \in Seq(Queueable),
         NoDuplicates(s), NoDuplicates(t), Range(s) \cap Range(t) = {}
  PROVE  s \o t \in Seq(Queueable) /\ NoDuplicates(s \o t) /\ Range(s \o t) = Range(s) \cup Range(t)
<1>1. s \o t \in Seq(Queueable) /\ Len(s \o t) = Len(s) + Len(t) /\ Len(s) \in Nat /\ Len(t) \in Nat
  OBVIOUS
<1>2. \A i \in DOMAIN (s \o t) :
        \/ i \in DOMAIN s /\ (s \o t)[i] = s[i]
        \/ i - Len(s) \in DOMAIN t /\ i \notin DOMAIN s /\ (s \o t)[i] = t[i - Len(s)]
  OBVIOUS
<1>3. /\ \A i \in DOMAIN s : i \in DOMAIN (s \o t) /\ (s \o t)[i] = s[i]
      /\ \A i \in DOMAIN t : i + Len(s) \in DOMAIN (s \o t) /\ (s \o t)[i + Len(s)] = t[i]
  OBVIOUS
<1>4. Range(s \o t) = Range(s) \cup Range(t)
  <2>1. ASSUME NEW i \in DOMAIN (s \o t)
        PROVE  (s \o t)[i] \in Range(s) \cup Range(t)
    BY <1>2, <2>1 DEF Range
  <2>2. ASSUME NEW i \in DOMAIN s
        PROVE  s[i] \in Range(s \o t)
    BY <1>3, <2>2 DEF Range
  <2>3. ASSUME NEW i \in DOMAIN t
        PROVE  t[i] \in Range(s \o t)
    BY <1>3, <2>3 DEF Range
  <2>4. Range(s \o t) \subseteq Range(s) \cup Range(t)
    BY <2>1 DEF Range
  <2>5. Range(s) \subseteq Range(s \o t)
    BY <2>2 DEF Range
  <2>6. Range(t) \subseteq Range(s \o t)
    BY <2>3 DEF Range
  <2> QED BY <2>4, <2>5, <2>6
<1>5. ASSUME NEW i \in DOMAIN (s \o t), NEW j \in DOMAIN (s \o t), (s \o t)[i] = (s \o t)[j]
      PROVE  i = j
  <2>1. CASE i \in DOMAIN s /\ j \in DOMAIN s
    BY <1>2, <1>3, <1>5, <2>1 DEF NoDuplicates
  <2>2. CASE i \notin DOMAIN s /\ j \notin DOMAIN s
    <3>1. i - Len(s) \in DOMAIN t /\ j - Len(s) \in DOMAIN t /\ t[i - Len(s)] = t[j - Len(s)]
      BY <1>2, <1>5, <2>2
    <3>2. i - Len(s) = j - Len(s)
      BY <3>1 DEF NoDuplicates
    <3>3. i \in Nat /\ j \in Nat
      BY <1>1
    <3> QED BY <1>1, <3>2, <3>3
  <2>3. CASE i \in DOMAIN s /\ j \notin DOMAIN s
    BY <1>2, <1>5, <2>3 DEF Range
  <2>4. CASE i \notin DOMAIN s /\ j \in DOMAIN s
    BY <1>2, <1>5, <2>4 DEF Range
  <2> QED BY <2>1, <2>2, <2>3, <2>4
<1> QED BY <1>1, <1>4, <1>5 DEF NoDuplicates

(* Two messages that differ. *)
LEMMA PairOnce ==
  ASSUME NEW a \in Queueable, NEW b \in Queueable, a # b
  PROVE  <<a>> \o <<b>> \in Seq(Queueable) /\ NoDuplicates(<<a>> \o <<b>>)
         /\ Range(<<a>> \o <<b>>) = {a, b}
<1>1. <<a>> \in Seq(Queueable) /\ NoDuplicates(<<a>>) /\ Range(<<a>>) = {a}
  BY ShortOnce
<1>2. <<b>> \in Seq(Queueable) /\ NoDuplicates(<<b>>) /\ Range(<<b>>) = {b}
  BY ShortOnce
<1>3. Range(<<a>>) \cap Range(<<b>>) = {}
  BY <1>1, <1>2
<1>4. Range(<<a>> \o <<b>>) = {a} \cup {b} /\ <<a>> \o <<b>> \in Seq(Queueable)
      /\ NoDuplicates(<<a>> \o <<b>>)
  BY <1>1, <1>2, <1>3, ConcatOnce
<1> QED BY <1>4

(* The first message is not among the others. *)
LEMMA TailOnce ==
  ASSUME NEW s \in Seq(Queueable), NoDuplicates(s), s # << >>
  PROVE  /\ Tail(s) \in Seq(Queueable) /\ NoDuplicates(Tail(s)) /\ Head(s) \in Queueable
         /\ Head(s) \notin Range(Tail(s)) /\ Range(s) = {Head(s)} \cup Range(Tail(s))
<1>1. Tail(s) \in Seq(Queueable) /\ Head(s) \in Queueable /\ Head(s) = s[1] /\ 1 \in DOMAIN s
  OBVIOUS
<1>2. \A i \in DOMAIN Tail(s) : i + 1 \in DOMAIN s /\ Tail(s)[i] = s[i + 1] /\ i \in Nat /\ i + 1 # 1
  OBVIOUS
<1>3. \A i \in DOMAIN s : i # 1 => i - 1 \in DOMAIN Tail(s) /\ Tail(s)[i - 1] = s[i]
  OBVIOUS
<1>4. NoDuplicates(Tail(s))
  <2>1. ASSUME NEW i \in DOMAIN Tail(s), NEW j \in DOMAIN Tail(s), Tail(s)[i] = Tail(s)[j]
        PROVE  i = j
    <3>1. i + 1 = j + 1
      BY <1>2, <2>1 DEF NoDuplicates
    <3> QED BY <1>2, <3>1
  <2> QED BY <2>1 DEF NoDuplicates
<1>5. Head(s) \notin Range(Tail(s))
  BY <1>1, <1>2 DEF NoDuplicates, Range
<1>6. Range(s) = {Head(s)} \cup Range(Tail(s))
  <2>1. ASSUME NEW i \in DOMAIN s
        PROVE  s[i] \in {Head(s)} \cup Range(Tail(s))
    <3>1. CASE i = 1
      BY <1>1, <3>1
    <3>2. CASE i # 1
      BY <1>3, <3>2 DEF Range
    <3> QED BY <3>1, <3>2
  <2>2. ASSUME NEW i \in DOMAIN Tail(s)
        PROVE  Tail(s)[i] \in Range(s)
    BY <1>2, <2>2 DEF Range
  <2>3. Range(s) \subseteq {Head(s)} \cup Range(Tail(s))
    BY <2>1 DEF Range
  <2>4. Range(Tail(s)) \subseteq Range(s)
    BY <2>2 DEF Range
  <2>5. Head(s) \in Range(s)
    BY <1>1 DEF Range
  <2> QED BY <2>3, <2>4, <2>5
<1> QED BY <1>1, <1>4, <1>5, <1>6

-----------------------------------------------------------------------------
(* Messages: what is handed over.                                           *)

(* New messages join the end of the queue. *)
LEMMA EnqueueKeeps ==
  ASSUME MessagesInv, NEW ms \in Seq(Queueable), NoDuplicates(ms), Range(ms) \cap queued = {},
         Enqueue(ms), UNCHANGED <<worker, recovery, sent>>
  PROVE  InOnePlace' /\ queue' \in Seq(Queueable) /\ queued' = queued \cup Range(ms)
<1>1. queue \in Seq(Queueable) /\ NoDuplicates(queue) /\ Range(queue) \cap Range(ms) = {}
  BY DEF MessagesInv, MessageTypes, InOnePlace, Waiting
<1>2. queue' = queue \o ms /\ queued' = queued \cup Range(ms)
  BY DEF Enqueue
<1>3. queue' \in Seq(Queueable) /\ NoDuplicates(queue') /\ Range(queue') = Range(queue) \cup Range(ms)
  BY <1>1, <1>2, ConcatOnce
<1>4. InHand' = InHand /\ Waiting' = Waiting \cup Range(ms)
  BY <1>3 DEF InHand, Waiting
<1>5. InOnePlace'
  BY <1>2, <1>3, <1>4 DEF MessagesInv, InOnePlace, Waiting
<1> QED BY <1>2, <1>3, <1>5

(* What a reply consists of. *)
LEMMA ReplyParts ==
  ASSUME NEW t \in Nat, NEW ms, ms = Reply(t) \/ ms = SendTurnReply(t)
  PROVE  /\ ms \in Seq(Queueable) /\ NoDuplicates(ms)
         /\ \A m \in Range(ms) : m.turn = t /\ m.kind \in {"reply", "image"}
<1>1. \A k \in MessageKinds : Message(t, k) \in Queueable /\ Message(t, k).turn = t /\ Message(t, k).kind = k
  BY DEF Message, Queueable
<1>2. PICK a \in Queueable, b \in Queueable :
        a = Message(t, "reply") /\ b = Message(t, "image") /\ a.turn = t /\ b.turn = t
        /\ a.kind = "reply" /\ b.kind = "image"
  BY <1>1 DEF MessageKinds
<1>3. <<a>> \o <<b>> \in Seq(Queueable) /\ NoDuplicates(<<a>> \o <<b>>)
      /\ Range(<<a>> \o <<b>>) = {a, b}
  <2>1. a # b
    BY <1>2
  <2> QED BY <2>1, PairOnce
<1>4. <<a>> \o << >> = <<a>>
  OBVIOUS
<1>5. ms = <<a>> \o <<b>> \/ ms = <<a>> \/ ms = << >>
  BY <1>2, <1>4 DEF Reply, SendTurnReply
<1> QED BY <1>2, <1>3, <1>5, ShortOnce

(* What an item consists of. *)
LEMMA ItemParts ==
  ASSUME NEW t \in Nat, NEW ms \in ItemMessages(t)
  PROVE  /\ ms \in Seq(Queueable) /\ NoDuplicates(ms) /\ \A m \in Range(ms) : m.turn = t
<1>1. \A k \in MessageKinds : Message(t, k) \in Queueable /\ Message(t, k).turn = t /\ Message(t, k).kind = k
  BY DEF Message, Queueable
<1>2. PICK a \in Queueable, b \in Queueable :
        a = Message(t, "item") /\ b = Message(t, "image") /\ a.turn = t /\ b.turn = t
        /\ a.kind = "item" /\ b.kind = "image"
  BY <1>1 DEF MessageKinds
<1>3. <<a>> \o <<b>> \in Seq(Queueable) /\ NoDuplicates(<<a>> \o <<b>>)
      /\ Range(<<a>> \o <<b>>) = {a, b}
  <2>1. a # b
    BY <1>2
  <2> QED BY <2>1, PairOnce
<1>4. <<a>> \o << >> = <<a>>
  OBVIOUS
<1>5. ms \in {<<a>> \o <<b>>, <<a>>, <<b>>, << >>}
  <2>1. CASE turn.works[t] = "userMessage"
    BY <1>2, <2>1 DEF ItemMessages
  <2>2. CASE turn.works[t] = "picture"
    BY <1>2, <2>2 DEF ItemMessages
  <2>3. CASE turn.works[t] \notin {"userMessage", "picture"}
    BY <1>2, <1>4, <2>3 DEF ItemMessages
  <2> QED BY <2>1, <2>2, <2>3
<1> QED BY <1>2, <1>3, <1>5, ShortOnce

(* Before anything of a turn is said nothing of it was handed over. *)
LEMMA NothingYet ==
  ASSUME MessagesInv
  PROVE  /\ \A m \in queued : m.turn = turn.n => turn.pc = "said"
         /\ \A m \in queued : m.turn \in Nat /\ m.turn <= turn.n
         /\ turn.n \in Nat
  BY DEF MessagesInv, MessageTypes, HandedOver, Queueable

(* The messages of the present turn are handed over; it goes on or is over. *)
LEMMA HandOverKeeps ==
  ASSUME MessagesInv, NEW ms \in Seq(Queueable), NoDuplicates(ms),
         \A m \in Range(ms) : m.turn = turn.n /\ m \notin queued,
         Enqueue(ms), UNCHANGED <<worker, recovery, sent, token, again>>,
         \/ turn' = [turn EXCEPT !.n = turn.n + 1, !.pc = "runs"]
         \/ /\ turn' = [turn EXCEPT !.pc = "said"] /\ Doing({"turn"} \cup Items)
            /\ Doing({"turn"}) => /\ last' = TextOf[turn.n]
                                  /\ \A m \in queued \cup Range(ms) :
                                       m.turn = turn.n => m.kind \in {"reply", "image"}
  PROVE  MessagesInv'
<1>1. Range(ms) \cap queued = {} /\ Range(ms) \subseteq Queueable
  BY DEF Range
<1>2. InOnePlace' /\ queue' \in Seq(Queueable) /\ queued' = queued \cup Range(ms)
  BY <1>1, EnqueueKeeps
<1>3. turn \in [works : Works, n : Nat, pc : {"runs", "said"}]
  BY DEF MessagesInv, MessageTypes
<1>4. turn' \in [works : Works, n : Nat, pc : {"runs", "said"}]
  <2>1. turn.n + 1 \in Nat
    BY <1>3
  <2>2. CASE turn' = [turn EXCEPT !.n = turn.n + 1, !.pc = "runs"]
    BY <1>3, <2>1, <2>2
  <2>3. CASE turn' = [turn EXCEPT !.pc = "said"]
    BY <1>3, <2>3
  <2> QED BY <2>2, <2>3
<1>5. MessageTypes' /\ DeliveredOnce'
  BY <1>1, <1>2, <1>4 DEF MessagesInv, MessageTypes, DeliveredOnce
<1>6. CASE turn' = [turn EXCEPT !.n = turn.n + 1, !.pc = "runs"]
  <2>1. turn'.n = turn.n + 1 /\ turn'.pc = "runs"
    BY <1>3, <1>6
  <2>2. \A m \in queued' : m.turn < turn'.n
    BY <1>2, <2>1, NothingYet
  <2>3. HandedOver' /\ SaidOnce'
    BY <2>1, <2>2 DEF HandedOver, SaidOnce
  <2> QED BY <1>2, <1>5, <2>3 DEF MessagesInv
<1>7. CASE /\ turn' = [turn EXCEPT !.pc = "said"] /\ Doing({"turn"} \cup Items)
           /\ Doing({"turn"}) => /\ last' = TextOf[turn.n]
                                 /\ \A m \in queued \cup Range(ms) :
                                      m.turn = turn.n => m.kind \in {"reply", "image"}
  <2>1. turn'.n = turn.n /\ turn'.pc = "said" /\ turn'.works = turn.works
    BY <1>3, <1>7
  <2>2. (Doing({"turn"})' <=> Doing({"turn"})) /\ (Doing({"turn"} \cup Items)' <=> Doing({"turn"} \cup Items))
    BY <2>1 DEF Doing, Items
  <2>3. SaidOnce'
    BY <1>7, <2>1, <2>2 DEF SaidOnce
  <2>4. \A m \in queued' : m.turn < turn'.n \/ m.turn = turn'.n
    BY <1>2, <2>1, NothingYet
  <2>5. HandedOver'
    BY <1>2, <1>7, <2>1, <2>2, <2>4 DEF HandedOver
  <2> QED BY <1>2, <1>5, <2>3, <2>5 DEF MessagesInv
<1> QED BY <1>6, <1>7

(* The reply is complete (im/events.rs). *)
LEMMA ReplyCompletedKeeps ==
  ASSUME MessagesInv, ReplyCompleted
  PROVE  MessagesInv'
<1>1. PICK ms : ms = SendTurnReply(turn.n)
  OBVIOUS
<1>2. turn.n \in Nat
  BY NothingYet
<1>3. ms \in Seq(Queueable) /\ NoDuplicates(ms)
      /\ \A m \in Range(ms) : m.turn = turn.n /\ m.kind \in {"reply", "image"}
  BY <1>1, <1>2, ReplyParts
<1>4. turn.pc = "runs" /\ Doing({"turn"}) /\ Doing({"turn"} \cup Items)
      /\ turn' = [turn EXCEPT !.pc = "said"] /\ last' = TextOf[turn.n] /\ Enqueue(ms)
      /\ UNCHANGED <<worker, recovery, sent, token, again>>
  BY <1>1 DEF ReplyCompleted, Doing
<1>5. \A m \in queued : m.turn # turn.n
  BY <1>4, NothingYet
<1> QED BY <1>3, <1>4, <1>5, HandOverKeeps

(* The turn is complete, and carries its reply again (im/events.rs). *)
LEMMA TurnCompletedKeeps ==
  ASSUME MessagesInv, TurnCompleted
  PROVE  MessagesInv'
<1>1. PICK carries \in BOOLEAN :
        Enqueue((IF carries THEN SendTurnReply(turn.n) ELSE << >>) \o << Message(turn.n, "mark") >>)
  BY DEF TurnCompleted
<1>2. PICK reply : reply = IF carries THEN SendTurnReply(turn.n) ELSE << >>
  OBVIOUS
<1>3. PICK mark : mark = Message(turn.n, "mark")
  OBVIOUS
<1>4. turn.n \in Nat /\ turn' = [turn EXCEPT !.n = turn.n + 1, !.pc = "runs"] /\ Doing({"turn"})
      /\ UNCHANGED <<worker, recovery, sent, token, again>>
  BY NothingYet DEF TurnCompleted, NextWork
<1>5. mark \in Queueable /\ mark.turn = turn.n /\ mark.kind = "mark" /\ mark \notin queued
  <2>1. mark \in Queueable /\ mark.turn = turn.n /\ mark.kind = "mark"
    BY <1>3, <1>4 DEF Message, Queueable, MessageKinds
  <2> QED BY <1>4, <2>1 DEF MessagesInv, HandedOver
<1>6. /\ reply \in Seq(Queueable) /\ NoDuplicates(reply)
      /\ \A m \in Range(reply) : m.turn = turn.n /\ m.kind \in {"reply", "image"} /\ m \notin queued
  <2>1. CASE reply = << >>
    BY <1>5, <2>1, ShortOnce
  <2>2. CASE reply # << >>
    <3>1. reply = SendTurnReply(turn.n)
      BY <1>2, <2>2
    <3>2. last # TextOf[turn.n]
      BY <2>2, <3>1 DEF SendTurnReply
    <3>3. turn.pc # "said"
      BY <1>4, <3>2 DEF MessagesInv, SaidOnce
    <3>4. \A m \in queued : m.turn # turn.n
      BY <3>3, NothingYet
    <3>5. /\ reply \in Seq(Queueable) /\ NoDuplicates(reply)
          /\ \A m \in Range(reply) : m.turn = turn.n /\ m.kind \in {"reply", "image"}
      BY <1>4, <3>1, ReplyParts
    <3> QED BY <3>4, <3>5
  <2> QED BY <2>1, <2>2
<1>7. <<mark>> \in Seq(Queueable) /\ NoDuplicates(<<mark>>) /\ Range(<<mark>>) = {mark}
  BY <1>5, ShortOnce
<1>8. Range(reply) \cap Range(<<mark>>) = {}
  BY <1>5, <1>6, <1>7
<1>9. reply \o <<mark>> \in Seq(Queueable) /\ NoDuplicates(reply \o <<mark>>)
      /\ Range(reply \o <<mark>>) = Range(reply) \cup {mark}
  BY <1>6, <1>7, <1>8, ConcatOnce
<1>10. PICK ms : ms = reply \o <<mark>>
  OBVIOUS
<1>11. ms \in Seq(Queueable) /\ NoDuplicates(ms) /\ Enqueue(ms)
       /\ \A m \in Range(ms) : m.turn = turn.n /\ m \notin queued
  BY <1>1, <1>2, <1>3, <1>5, <1>6, <1>9, <1>10
<1> QED BY <1>4, <1>11, HandOverKeeps

(* An item is complete, and is told twice (im/events.rs). *)
LEMMA TextItemCompletedKeeps ==
  ASSUME MessagesInv, TextItemCompleted
  PROVE  MessagesInv'
<1>1. PICK ms \in SendItem(turn.n) : Enqueue(ms)
  BY DEF TextItemCompleted
<1>2. turn.n \in Nat /\ Doing(Items) /\ UNCHANGED <<worker, recovery, sent, token, again>>
  BY NothingYet DEF TextItemCompleted
<1>3. Doing({"turn"} \cup Items) /\ ~Doing({"turn"})
  BY <1>2 DEF Doing, Items
<1>4. CASE turn.pc = "said"
  <2>1. ms = << >>
    BY <1>1, <1>4 DEF SendItem
  <2>2. ms \in Seq(Queueable) /\ NoDuplicates(ms) /\ Range(ms) = {}
    BY <2>1 DEF NoDuplicates, Range
  <2>3. turn' = [turn EXCEPT !.n = turn.n + 1, !.pc = "runs"]
    BY <1>4 DEF TextItemCompleted, NextWork
  <2> QED BY <1>1, <1>2, <2>2, <2>3, HandOverKeeps
<1>5. CASE turn.pc # "said"
  <2>1. ms \in Seq(Queueable) /\ NoDuplicates(ms) /\ \A m \in Range(ms) : m.turn = turn.n
    BY <1>1, <1>2, <1>5, ItemParts DEF SendItem
  <2>2. \A m \in queued : m.turn # turn.n
    BY <1>5, NothingYet
  <2>3. turn' = [turn EXCEPT !.pc = "said"]
    BY <1>5 DEF TextItemCompleted
  <2> QED BY <1>1, <1>2, <1>3, <2>1, <2>2, <2>3, HandOverKeeps
<1> QED BY <1>4, <1>5

(* An approval is queued (im/core/approval.rs). *)
LEMMA ApprovalQueuedKeeps ==
  ASSUME MessagesInv, ApprovalQueued
  PROVE  MessagesInv'
<1>1. PICK m : m = Message(turn.n, "approval")
  OBVIOUS
<1>2. turn.n \in Nat /\ turn' = [turn EXCEPT !.n = turn.n + 1, !.pc = "runs"] /\ Doing({"approval"})
      /\ UNCHANGED <<worker, recovery, sent, token, again>> /\ Enqueue(<<m>>)
  BY <1>1, NothingYet DEF ApprovalQueued, NextWork
<1>3. m \in Queueable /\ m.turn = turn.n
  BY <1>1, <1>2 DEF Message, Queueable, MessageKinds
<1>4. turn.pc # "said"
  BY <1>2 DEF MessagesInv, SaidOnce, Doing, Items
<1>5. m \notin queued
  BY <1>3, <1>4, NothingYet
<1>6. <<m>> \in Seq(Queueable) /\ NoDuplicates(<<m>>) /\ Range(<<m>>) = {m}
  BY <1>3, ShortOnce
<1>7. \A x \in Range(<<m>>) : x.turn = turn.n /\ x \notin queued
  BY <1>3, <1>5, <1>6
<1> QED BY <1>2, <1>6, <1>7, HandOverKeeps

-----------------------------------------------------------------------------
(* Messages: the worker and the user.                                       *)

(* What was handed over stays in place while messages only move. *)
LEMMA HandedOverStands ==
  ASSUME MessagesInv, UNCHANGED <<turn, last, queued>>
  PROVE  HandedOver' /\ SaidOnce'
  BY DEF MessagesInv, HandedOver, SaidOnce, Doing

(* The worker keeps its message and goes on with it. *)
LEMMA WorkerGoesOn ==
  ASSUME MessagesInv, UNCHANGED <<turn, last, queued, queue, recovery, sent, again>>,
         worker.pc # "idle", NEW pc \in WorkerPcs, NEW t \in Tokens,
         worker' = [worker EXCEPT !.pc = pc, !.token = t], token' \in Tokens
  PROVE  MessagesInv'
<1>1. worker \in [pc : WorkerPcs, m : Queueable \cup {NoMessage}, token : Tokens] /\ worker.m \in Queueable
  BY DEF MessagesInv, MessageTypes, InOnePlace
<1>2. worker' \in [pc : WorkerPcs, m : Queueable \cup {NoMessage}, token : Tokens] /\ worker'.m = worker.m
  BY <1>1
<1>3. MessageTypes' /\ DeliveredOnce'
  BY <1>2 DEF MessagesInv, MessageTypes, DeliveredOnce
<1>4. InHand' = InHand /\ Waiting' = Waiting
  BY <1>2 DEF InHand, Waiting
<1>5. InOnePlace'
  BY <1>1, <1>2, <1>4 DEF MessagesInv, InOnePlace
<1> QED BY <1>3, <1>5, HandedOverStands DEF MessagesInv

(* The worker is rid of its message, which goes nowhere or is sent. *)
LEMMA WorkerRests ==
  ASSUME MessagesInv, UNCHANGED <<turn, last, queued, queue, recovery, token, again>>,
         worker' = Idle, sent' = sent \/ (worker.m \in Queueable /\ sent' = sent \cup {worker.m})
  PROVE  MessagesInv'
<1>1. worker'.m = NoMessage /\ worker'.pc = "idle"
      /\ worker' \in [pc : WorkerPcs, m : Queueable \cup {NoMessage}, token : Tokens]
  BY DEF Idle, WorkerPcs, Tokens
<1>2. MessageTypes' /\ DeliveredOnce'
  BY <1>1 DEF MessagesInv, MessageTypes, DeliveredOnce
<1>3. InHand' = {} /\ Waiting' = Waiting
  BY <1>1 DEF InHand, Waiting
<1>4. NoMessage \notin Queueable
  BY DEF NoMessage, Queueable, MessageKinds
<1>5. sent' \subseteq sent \cup InHand
  BY <1>4 DEF InHand
<1>6. InOnePlace'
  BY <1>1, <1>3, <1>5 DEF MessagesInv, InOnePlace
<1> QED BY <1>2, <1>6, HandedOverStands DEF MessagesInv

(* The next message is taken, or lost with a disabled account. *)
LEMMA WorkerTakeKeeps ==
  ASSUME MessagesInv, WorkerTake
  PROVE  MessagesInv'
<1>1. queue \in Seq(Queueable) /\ NoDuplicates(queue) /\ queue # << >> /\ queue' = Tail(queue)
      /\ UNCHANGED <<turn, last, queued, recovery, sent, again, token>>
  BY DEF MessagesInv, MessageTypes, InOnePlace, WorkerTake, WorkerStep
<1>2. PICK m : m = Head(queue)
  OBVIOUS
<1>3. queue' \in Seq(Queueable) /\ NoDuplicates(queue') /\ m \in Queueable
      /\ m \notin Range(queue') /\ Range(queue) = {m} \cup Range(queue')
  BY <1>1, <1>2, TailOnce
<1>4. worker.pc = "idle" /\ \/ worker' = worker
                            \/ \E pc \in {"look", "send"} : worker' = [Idle EXCEPT !.m = m, !.pc = pc]
  BY <1>2 DEF WorkerTake
<1>5. worker' \in [pc : WorkerPcs, m : Queueable \cup {NoMessage}, token : Tokens]
      /\ (worker' = worker \/ worker'.m = m)
  <2>1. CASE worker' = worker
    BY <2>1 DEF MessagesInv, MessageTypes
  <2>2. CASE \E pc \in {"look", "send"} : worker' = [Idle EXCEPT !.m = m, !.pc = pc]
    BY <1>3, <2>2 DEF Idle, WorkerPcs, Tokens
  <2> QED BY <1>4, <2>1, <2>2
<1>6. MessageTypes' /\ DeliveredOnce'
  BY <1>1, <1>3, <1>5 DEF MessagesInv, MessageTypes, DeliveredOnce
<1>7. InHand' \subseteq InHand \cup {m} /\ Waiting = {m} \cup Waiting' /\ m \notin Waiting'
      /\ (worker' # worker => InHand' = {m})
  <2>1. NoMessage \notin Queueable
    BY DEF NoMessage, Queueable, MessageKinds
  <2>2. Waiting = {m} \cup Waiting'
    BY <1>1, <1>3 DEF Waiting
  <2>3. m \notin Waiting'
    BY <1>1, <1>3 DEF Waiting, MessagesInv, InOnePlace
  <2>4. InHand' \subseteq InHand \cup {m} /\ (worker' # worker => InHand' = {m})
    BY <1>3, <1>5, <2>1 DEF InHand
  <2> QED BY <2>2, <2>3, <2>4
<1>8. worker'.pc # "idle" => worker'.m \in Queueable
  BY <1>3, <1>4, <1>5
<1>9. InOnePlace'
  <2>1. NoDuplicates(queue') /\ NoDuplicates(recovery'.pending) /\ Range(queue') \cap Range(recovery'.pending) = {}
    BY <1>1, <1>3 DEF MessagesInv, InOnePlace
  <2>2. InHand' \cap Waiting' = {}
    BY <1>7 DEF MessagesInv, InOnePlace, InHand
  <2>3. sent' \cap (InHand' \cup Waiting') = {} /\ InHand' \cup Waiting' \cup sent' \subseteq queued'
    BY <1>1, <1>7 DEF MessagesInv, InOnePlace
  <2> QED BY <1>8, <2>1, <2>2, <2>3 DEF InOnePlace
<1> QED BY <1>1, <1>6, <1>9, HandedOverStands DEF MessagesInv

(* A message waits until the user writes (im/wechat). *)
LEMMA DeferKeeps ==
  ASSUME MessagesInv, Defer
  PROVE  MessagesInv'
<1>1. PICK m : m = worker.m
  OBVIOUS
<1>2. m \in Queueable /\ worker' = Idle /\ recovery' = [awaiting |-> TRUE, pending |-> Append(recovery.pending, m)]
      /\ UNCHANGED <<turn, last, queued, queue, sent, again, token>>
  BY <1>1 DEF MessagesInv, InOnePlace, Defer, Rest, WorkerStep
<1>3. NoMessage \notin Queueable
  BY DEF NoMessage, Queueable, MessageKinds
<1>4. InHand = {m}
  BY <1>1, <1>2, <1>3 DEF InHand
<1>5. recovery.pending \in Seq(Queueable) /\ NoDuplicates(recovery.pending)
      /\ m \notin Range(recovery.pending) /\ m \notin Range(queue)
  BY <1>4 DEF MessagesInv, MessageTypes, InOnePlace, Waiting
<1>6. <<m>> \in Seq(Queueable) /\ NoDuplicates(<<m>>) /\ Range(<<m>>) = {m}
      /\ Append(recovery.pending, m) = recovery.pending \o <<m>>
  BY <1>2, <1>5, ShortOnce
<1>7. Range(recovery.pending) \cap Range(<<m>>) = {}
  BY <1>5, <1>6
<1>8. recovery.pending \o <<m>> \in Seq(Queueable) /\ NoDuplicates(recovery.pending \o <<m>>)
      /\ Range(recovery.pending \o <<m>>) = Range(recovery.pending) \cup {m}
  BY <1>5, <1>6, <1>7, ConcatOnce
<1>9. recovery' \in [awaiting : BOOLEAN, pending : Seq(Queueable)] /\ NoDuplicates(recovery'.pending)
      /\ Range(recovery'.pending) = Range(recovery.pending) \cup {m}
  BY <1>2, <1>6, <1>8
<1>10. worker'.m = NoMessage /\ worker'.pc = "idle"
       /\ worker' \in [pc : WorkerPcs, m : Queueable \cup {NoMessage}, token : Tokens]
  BY <1>2 DEF Idle, WorkerPcs, Tokens
<1>11. MessageTypes' /\ DeliveredOnce'
  BY <1>2, <1>9, <1>10 DEF MessagesInv, MessageTypes, DeliveredOnce
<1>12. InHand' = {} /\ Waiting' = Waiting \cup {m}
  BY <1>2, <1>9, <1>10 DEF InHand, Waiting
<1>13. InOnePlace'
  BY <1>2, <1>4, <1>5, <1>9, <1>10, <1>12 DEF MessagesInv, InOnePlace
<1> QED BY <1>2, <1>11, <1>13, HandedOverStands DEF MessagesInv

(* What is pending joins the end of the queue (im/wechat/polling.rs). *)
LEMMA ReplayKeeps ==
  ASSUME MessagesInv, Replay
  PROVE  MessagesInv'
<1>1. queue \in Seq(Queueable) /\ recovery.pending \in Seq(Queueable)
      /\ NoDuplicates(queue) /\ NoDuplicates(recovery.pending)
      /\ Range(queue) \cap Range(recovery.pending) = {}
  BY DEF MessagesInv, MessageTypes, InOnePlace
<1>2. queue' = queue \o recovery.pending /\ recovery' = [awaiting |-> FALSE, pending |-> << >>]
      /\ UNCHANGED <<turn, last, queued, worker, sent, again, token>>
  BY DEF Replay
<1>3. queue' \in Seq(Queueable) /\ NoDuplicates(queue')
      /\ Range(queue') = Range(queue) \cup Range(recovery.pending)
  BY <1>1, <1>2, ConcatOnce
<1>4. recovery' \in [awaiting : BOOLEAN, pending : Seq(Queueable)] /\ NoDuplicates(recovery'.pending)
      /\ Range(recovery'.pending) = {}
  BY <1>2 DEF NoDuplicates, Range
<1>5. MessageTypes' /\ DeliveredOnce'
  BY <1>2, <1>3, <1>4 DEF MessagesInv, MessageTypes, DeliveredOnce
<1>6. InHand' = InHand /\ Waiting' = Waiting
  BY <1>2, <1>3, <1>4 DEF InHand, Waiting
<1>7. InOnePlace'
  BY <1>2, <1>3, <1>4, <1>6 DEF MessagesInv, InOnePlace
<1> QED BY <1>2, <1>5, <1>7, HandedOverStands DEF MessagesInv

(* The bridge is another one: its queue and its worker are gone (bridge.rs). *)
LEMMA RestartKeeps ==
  ASSUME MessagesInv, Restart
  PROVE  MessagesInv'
<1>1. queue' = << >> /\ worker' = Idle
      /\ UNCHANGED <<turn, last, queued, recovery, sent, again, token>>
  BY DEF Restart
<1>2. queue' \in Seq(Queueable) /\ NoDuplicates(queue') /\ Range(queue') = {}
  BY <1>1 DEF NoDuplicates, Range
<1>3. worker'.m = NoMessage /\ worker'.pc = "idle"
      /\ worker' \in [pc : WorkerPcs, m : Queueable \cup {NoMessage}, token : Tokens]
  BY <1>1 DEF Idle, WorkerPcs, Tokens
<1>4. MessageTypes' /\ DeliveredOnce'
  BY <1>1, <1>2, <1>3 DEF MessagesInv, MessageTypes, DeliveredOnce
<1>5. InHand' = {} /\ Waiting' \subseteq Waiting
  BY <1>1, <1>2, <1>3 DEF InHand, Waiting
<1>6. InOnePlace'
  BY <1>1, <1>2, <1>3, <1>5 DEF MessagesInv, InOnePlace
<1> QED BY <1>1, <1>4, <1>6, HandedOverStands DEF MessagesInv

(* What touches none of it. *)
LEMMA MessagesStand ==
  ASSUME MessagesInv, token' \in Tokens,
         UNCHANGED <<turn, last, queue, queued, worker, recovery, sent, again>>
  PROVE  MessagesInv'
<1>1. MessageTypes' /\ DeliveredOnce'
  BY DEF MessagesInv, MessageTypes, DeliveredOnce
<1>2. InOnePlace'
  BY DEF MessagesInv, InOnePlace, InHand, Waiting
<1> QED BY <1>1, <1>2, HandedOverStands DEF MessagesInv

(* A step of the worker with a message in hand. *)
LEMMA WorkerKeeps ==
  ASSUME MessagesInv,
         WorkerLook \/ WorkerToken \/ WorkerRead \/ Refused \/ Forget \/ Deliver \/ WorkerFails
  PROVE  MessagesInv'
<1>1. token \in Tokens /\ worker \in [pc : WorkerPcs, m : Queueable \cup {NoMessage}, token : Tokens]
      /\ (worker.pc # "idle" => worker.m \in Queueable)
  BY DEF MessagesInv, MessageTypes, InOnePlace
<1>2. \A pc \in WorkerPcs : [worker EXCEPT !.pc = pc] = [worker EXCEPT !.pc = pc, !.token = worker.token]
  BY <1>1
<1>3. CASE WorkerLook \/ WorkerToken \/ Refused
  <2>1. worker.pc # "idle" /\ UNCHANGED <<turn, last, queued, queue, recovery, sent, again, token>>
    BY <1>3 DEF WorkerLook, WorkerToken, Refused, WorkerStep
  <2>2. PICK pc \in WorkerPcs : worker' = [worker EXCEPT !.pc = pc]
    <3>1. CASE WorkerLook
      BY <3>1 DEF WorkerLook, WorkerPcs
    <3>2. CASE WorkerToken
      BY <3>2 DEF WorkerToken, WorkerPcs
    <3>3. CASE Refused
      BY <3>3 DEF Refused, WorkerPcs
    <3> QED BY <1>3, <3>1, <3>2, <3>3
  <2>3. worker' = [worker EXCEPT !.pc = pc, !.token = worker.token]
    BY <1>2, <2>2
  <2> QED BY <1>1, <2>1, <2>3, WorkerGoesOn
<1>4. CASE WorkerRead
  BY <1>1, <1>4, WorkerGoesOn DEF WorkerRead, WorkerStep, WorkerPcs
<1>5. CASE Forget
  <2>1. worker.pc # "idle" /\ UNCHANGED <<turn, last, queued, queue, recovery, sent, again>>
        /\ token' = "none" /\ "none" \in Tokens
    BY <1>5 DEF Forget, WorkerStep, Tokens
  <2>2. CASE worker' = [worker EXCEPT !.pc = "resend", !.token = "none"]
    BY <2>1, <2>2, WorkerGoesOn DEF WorkerPcs
  <2>3. CASE worker' = [worker EXCEPT !.pc = "defer"]
    <3>1. worker' = [worker EXCEPT !.pc = "defer", !.token = worker.token]
      BY <1>2, <2>3 DEF WorkerPcs
    <3> QED BY <1>1, <2>1, <3>1, WorkerGoesOn DEF WorkerPcs
  <2> QED BY <1>5, <2>2, <2>3 DEF Forget
<1>6. CASE Deliver
  <2>1. UNCHANGED <<turn, last, queued, queue, recovery, token>> /\ worker' = Idle
        /\ worker.m \in Queueable /\ sent' = sent \cup {worker.m}
        /\ again' = again \cup (sent \cap {worker.m})
    BY <1>1, <1>6 DEF Deliver, Rest, WorkerStep
  <2>2. worker.m \notin sent
    <3>1. NoMessage \notin Queueable
      BY DEF NoMessage, Queueable, MessageKinds
    <3>2. worker.m \in InHand
      BY <2>1, <3>1 DEF InHand
    <3> QED BY <3>2 DEF MessagesInv, InOnePlace
  <2>3. again' = again
    BY <2>1, <2>2
  <2> QED BY <2>1, <2>3, WorkerRests
<1>7. CASE WorkerFails
  <2>1. UNCHANGED <<turn, last, queued, queue, recovery, token, sent, again>> /\ worker.pc # "idle"
    BY <1>7 DEF WorkerFails
  <2>2. CASE HasFallback
    <3>1. worker' = [worker EXCEPT !.pc = "resend", !.token = worker.token]
      BY <1>2, <1>7, <2>2 DEF WorkerFails, WorkerPcs
    <3> QED BY <1>1, <2>1, <3>1, WorkerGoesOn DEF WorkerPcs
  <2>3. CASE ~HasFallback
    BY <1>7, <2>1, <2>3, WorkerRests DEF WorkerFails, Rest
  <2> QED BY <2>2, <2>3
<1> QED BY <1>3, <1>4, <1>5, <1>6, <1>7

(* Every step keeps the invariant of the messages. *)
LEMMA NextMessages ==
  ASSUME MessagesInv, [Next]_vars
  PROVE  MessagesInv'
<1>1. token \in Tokens
  BY DEF MessagesInv, MessageTypes
<1>2. CASE ItemStarted \/ ItemUpdated \/ AgentMessageDelta \/ ReasoningDelta \/ PlanDelta
           \/ OutputDelta \/ ToolProgress \/ ItemCompleted \/ PictureCompleted \/ OtherItemCompleted
  <2>1. UNCHANGED textVars
    BY <1>2 DEF ItemStarted, ItemUpdated, AgentMessageDelta, ReasoningDelta, PlanDelta, OutputDelta,
                ToolProgress, ItemCompleted, PictureCompleted, OtherItemCompleted, EnsureStarted,
                Upsert, Handle, Post
  <2> QED BY <1>1, <2>1, MessagesStand DEF textVars
<1>3. CASE \E d \in Drivers : CardStep(d) \/ SendCardFails(d)
  <2>1. UNCHANGED textVars
    BY <1>3 DEF CardStep, Claim, Skip, Wait, SendCard, SendCardFails, SendCardRefused, SentInVain,
                DriverStep
  <2> QED BY <1>1, <2>1, MessagesStand DEF textVars
<1>4. CASE ReplyCompleted \/ TurnCompleted \/ TextItemCompleted \/ ApprovalQueued
  BY <1>4, ReplyCompletedKeeps, TurnCompletedKeeps, TextItemCompletedKeeps, ApprovalQueuedKeeps
<1>5. CASE QueueStep \/ WorkerFails
  BY <1>5, WorkerTakeKeeps, DeferKeeps, WorkerKeeps DEF QueueStep
<1>6. CASE UserWrites \/ TokenExpires \/ AccountDisabled
  <2>1. token' \in Tokens
    BY <1>1, <1>6 DEF UserWrites, TokenExpires, AccountDisabled, Tokens
  <2>2. UNCHANGED <<turn, last, queue, queued, worker, recovery, sent, again>>
    BY <1>6 DEF UserWrites, TokenExpires, AccountDisabled
  <2> QED BY <2>1, <2>2, MessagesStand
<1>7. CASE Replay \/ Restart
  BY <1>7, ReplayKeeps, RestartKeeps
<1>8. CASE UNCHANGED vars
  BY <1>1, <1>8, MessagesStand DEF vars, textVars
<1> QED BY <1>2, <1>3, <1>4, <1>5, <1>6, <1>7, <1>8 DEF Next

(* The invariant of the messages holds at first. *)
LEMMA InitMessages ==
  ASSUME Init
  PROVE  MessagesInv
<1>1. MessageTypes /\ DeliveredOnce /\ HandedOver /\ SaidOnce
  BY DEF Init, MessageTypes, Idle, WorkerPcs, Tokens, DeliveredOnce, HandedOver, SaidOnce
<1>2. InHand = {} /\ Waiting = {} /\ NoDuplicates(queue) /\ NoDuplicates(recovery.pending)
  BY DEF Init, InHand, Idle, Waiting, Range, NoDuplicates
<1>3. InOnePlace
  BY <1>2 DEF Init, InOnePlace, Idle, Waiting
<1> QED BY <1>1, <1>3 DEF MessagesInv

(* A message is delivered at most once, though both item/completed and      *)
(* turn/completed carry a reply, items are told twice and whatever WeChat   *)
(* refused is replayed, through expired tokens, failed sends and restarts   *)
(* (im/events.rs, im/core/outbound.rs, im/wechat/polling.rs).               *)
THEOREM MessagesAreDeliveredOnce == Spec => []DeliveredOnce
<1>1. MessagesInv => DeliveredOnce
  BY DEF MessagesInv
<1>2. Init => MessagesInv
  BY InitMessages
<1>3. MessagesInv /\ [Next]_vars => MessagesInv'
  BY NextMessages
<1> QED BY <1>1, <1>2, <1>3, PTL DEF Spec

-----------------------------------------------------------------------------
(* Cards: the notifications.                                                *)

(* A notification writes an entry whose text is the old one or the newest,  *)
(* and starts a driver that has not claimed anything yet.                   *)
Notes(entry, said) ==
  /\ item.pc = "open" /\ item.n < MaxEvent /\ entry \in Cards /\ said \in Nat
  /\ entry.on /\ entry.sending = card.sending
  /\ entry.text = card.text \/ entry.text = item.n + 1

(* A driver that starts has claimed nothing. *)
LEMMA Claiming ==
  /\ NoCard \in Cards /\ Off \in DriverStates /\ Off.pc = "off"
  /\ [Off EXCEPT !.pc = "claim"] \in DriverStates /\ [Off EXCEPT !.pc = "claim"].pc = "claim"
<1>1. NoCard \in Cards
  BY DEF NoCard, Cards
<1>2. Off = [pc |-> "off", snap |-> NoCard]
  BY DEF Off
<1>3. [Off EXCEPT !.pc = "claim"] = [pc |-> "claim", snap |-> NoCard]
  BY <1>2
<1> QED BY <1>1, <1>2, <1>3 DEF DriverStates

(* Such a step keeps the invariant. *)
LEMMA NotesKeep ==
  ASSUME CardsInv, NEW entry, NEW said, Notes(entry, said),
         card' = entry, UNCHANGED <<restarts, chat>>,
         driver' = [driver EXCEPT ![item.n + 1] = [Off EXCEPT !.pc = "claim"]],
         NEW pc \in {"open", "done"}, item' = [item EXCEPT !.pc = pc, !.n = item.n + 1, !.said = said],
         entry.completed => pc = "done"
  PROVE  CardsInv'
<1>1. item \in [kind : Kinds, pc : {"open", "done"}, n : Nat, said : Nat] /\ card \in Cards
      /\ driver \in [Drivers -> DriverStates] /\ chat \in [posts : Nat, shown : Nat, taken : Nat]
      /\ restarts \in Nat
  BY DEF CardsInv, CardTypes
<1>2. item' \in [kind : Kinds, pc : {"open", "done"}, n : Nat, said : Nat]
      /\ item'.n = item.n + 1 /\ item'.pc = pc
  <2>1. item.n + 1 \in Nat /\ said \in Nat
    BY <1>1 DEF Notes
  <2> QED BY <1>1, <2>1
<1>3. PICK claim \in DriverStates : claim = [Off EXCEPT !.pc = "claim"] /\ claim.pc = "claim"
  BY Claiming
<1>4. driver' \in [Drivers -> DriverStates]
      /\ \A d \in Drivers : driver'[d] = driver[d] \/ driver'[d].pc = "claim"
  BY <1>1, <1>3
<1>5. CardTypes'
  BY <1>1, <1>2, <1>4 DEF CardTypes, Notes
<1>6. ASSUME restarts = 0
      PROVE  OneSends' /\ SendsForward' /\ TextsGrow'
  <2>1. \A d \in Drivers : driver'[d].pc \in {"skip", "wait", "send"} =>
          driver'[d] = driver[d] /\ Sends(d)
    BY <1>4 DEF Sends
  <2>2. OneSends'
    BY <1>6, <2>1 DEF CardsInv, OneSends, Sends
  <2>3. card.text \in Nat /\ card.text <= item.n /\ item.n \in Nat /\ entry.text \in Nat
        /\ card.text <= entry.text
    BY <1>1, <1>6 DEF CardsInv, TextsGrow, Notes, Cards
  <2>4. ASSUME NEW d \in Drivers, Sends(d)'
        PROVE  card'.on /\ card'.sending /\ chat'.shown <= driver'[d].snap.text
               /\ driver'[d].snap.text <= card'.text
    <3>1. driver'[d] = driver[d] /\ Sends(d)
      BY <2>1, <2>4 DEF Sends
    <3>2. card.on /\ card.sending /\ chat.shown <= driver[d].snap.text
          /\ driver[d].snap.text <= card.text
      BY <1>6, <3>1 DEF CardsInv, SendsForward
    <3>3. driver[d].snap.text \in Nat
      BY <1>1 DEF DriverStates, Cards
    <3>4. card'.on /\ card'.sending
      BY <3>2 DEF Notes
    <3>5. driver[d].snap.text <= card'.text
      BY <2>3, <3>2, <3>3
    <3> QED BY <3>1, <3>2, <3>4, <3>5
  <2>5. SendsForward'
    BY <2>4 DEF SendsForward
  <2>6. chat'.shown <= card'.text
    <3>1. chat.shown \in Nat
      BY <1>1
    <3>2. chat.shown <= card.text
      <4>1. CASE card.on
        BY <1>6, <4>1 DEF CardsInv, TextsGrow
      <4>2. CASE ~card.on
        <5>1. chat.shown = 0
          BY <1>6, <4>2 DEF CardsInv, TextsGrow, Notes
        <5> QED BY <2>3, <5>1
      <4> QED BY <4>1, <4>2
    <3> QED BY <2>3, <3>1, <3>2
  <2>7. card'.text <= item'.n
    BY <1>2, <2>3 DEF Notes
  <2>8. card'.on /\ (card'.completed => item'.pc = "done")
    BY <1>2 DEF Notes
  <2> QED BY <2>2, <2>5, <2>6, <2>7, <2>8 DEF TextsGrow
<1> QED BY <1>5, <1>6 DEF CardsInv

(* What an entry becomes, field by field. *)
LEMMA EntryParts ==
  ASSUME NEW c \in Cards, NEW t \in Nat
  PROVE  /\ [c EXCEPT !.on = TRUE, !.dirty = TRUE, !.text = t] \in Cards
         /\ [c EXCEPT !.on = TRUE, !.dirty = TRUE, !.text = t].on
         /\ [c EXCEPT !.on = TRUE, !.dirty = TRUE, !.text = t].sending = c.sending
         /\ [c EXCEPT !.on = TRUE, !.dirty = TRUE, !.text = t].text = t
         /\ [c EXCEPT !.on = TRUE, !.dirty = TRUE, !.text = t].completed = c.completed
  BY DEF Cards

(* A note of an item that goes on. *)
LEMMA HandleKeeps ==
  ASSUME CardsInv, NEW t, NEW said \in Nat, item.pc = "open", item.n < MaxEvent,
         t = card.text \/ t = item.n + 1,
         Handle([card EXCEPT !.on = TRUE, !.dirty = TRUE, !.text = t], said)
  PROVE  CardsInv'
<1>1. item \in [kind : Kinds, pc : {"open", "done"}, n : Nat, said : Nat] /\ card \in Cards
  BY DEF CardsInv, CardTypes
<1>2. t \in Nat
  BY <1>1 DEF Cards
<1>3. PICK entry : entry = [card EXCEPT !.on = TRUE, !.dirty = TRUE, !.text = t]
  OBVIOUS
<1>4. entry \in Cards /\ entry.on /\ entry.sending = card.sending /\ entry.text = t
      /\ entry.completed = card.completed
  BY <1>1, <1>2, <1>3, EntryParts
<1>5. Notes(entry, said)
  BY <1>4 DEF Notes
<1>6. item' = [item EXCEPT !.pc = "open", !.n = item.n + 1, !.said = said]
  <2>1. item' = [item EXCEPT !.n = item.n + 1, !.said = said]
    BY DEF Handle
  <2>2. [item EXCEPT !.n = item.n + 1, !.said = said]
        = [item EXCEPT !.pc = "open", !.n = item.n + 1, !.said = said]
    BY <1>1
  <2> QED BY <2>1, <2>2
<1>7. card' = entry /\ UNCHANGED <<restarts, chat>>
      /\ driver' = [driver EXCEPT ![item.n + 1] = [Off EXCEPT !.pc = "claim"]]
  BY <1>3 DEF Handle
<1>8. CASE restarts = 0
  <2>1. ~entry.completed
    BY <1>4, <1>8 DEF CardsInv, TextsGrow
  <2> QED BY <1>5, <1>6, <1>7, <2>1, NotesKeep
<1>9. CASE restarts # 0
  <2>1. CardTypes'
    <3>1. [Off EXCEPT !.pc = "claim"] \in DriverStates
      BY Claiming
    <3>2. driver' \in [Drivers -> DriverStates]
      BY <1>7, <3>1 DEF CardsInv, CardTypes
    <3>3. item' \in [kind : Kinds, pc : {"open", "done"}, n : Nat, said : Nat]
      <4>1. item.n + 1 \in Nat
        BY <1>1
      <4> QED BY <1>1, <1>6, <4>1
    <3> QED BY <1>4, <1>7, <3>2, <3>3 DEF CardsInv, CardTypes
  <2> QED BY <1>7, <1>9, <2>1 DEF CardsInv
<1> QED BY <1>8, <1>9

(* The notifications of an item that grows (im/events.rs). *)
LEMMA NotifiedKeeps ==
  ASSUME CardsInv, \/ ItemStarted \/ ItemUpdated
                   \/ AgentMessageDelta \/ ReasoningDelta \/ PlanDelta \/ OutputDelta \/ ToolProgress
  PROVE  CardsInv'
<1>1. item.n + 1 \in Nat /\ item.said \in Nat
  BY DEF CardsInv, CardTypes
<1>2. CASE ItemStarted \/ ItemUpdated
  <2>1. PICK given \in BOOLEAN : EnsureStarted(given)
    BY <1>2 DEF ItemStarted, ItemUpdated
  <2>2. item.pc = "open" /\ item.n < MaxEvent
    BY <1>2 DEF ItemStarted, ItemUpdated, Notified
  <2>3. PICK t : t = IF given /\ card.text = 0 THEN New ELSE card.text
    OBVIOUS
  <2>4. PICK said : said = IF given /\ item.said = 0 THEN New ELSE item.said
    OBVIOUS
  <2>5. Handle([card EXCEPT !.on = TRUE, !.dirty = TRUE, !.text = t], said)
    BY <2>1, <2>3, <2>4 DEF EnsureStarted
  <2>6. t = card.text \/ t = item.n + 1
    BY <2>3 DEF New
  <2>7. said \in Nat
    BY <1>1, <2>4 DEF New
  <2> QED BY <2>2, <2>5, <2>6, <2>7, HandleKeeps
<1>3. CASE AgentMessageDelta \/ ReasoningDelta \/ PlanDelta \/ OutputDelta \/ ToolProgress
  <2>1. Upsert /\ item.pc = "open" /\ item.n < MaxEvent
    BY <1>3 DEF AgentMessageDelta, ReasoningDelta, PlanDelta, OutputDelta, ToolProgress, Notified
  <2>2. Handle([card EXCEPT !.on = TRUE, !.dirty = TRUE, !.text = item.n + 1], item.n + 1)
    BY <2>1 DEF Upsert, New
  <2> QED BY <1>1, <2>1, <2>2, HandleKeeps
<1> QED BY <1>2, <1>3

(* What touches neither the card nor what it shows. *)
LEMMA CardsStand ==
  ASSUME CardsInv, UNCHANGED <<card, driver, restarts>>, chat'.shown = chat.shown,
         chat' \in [posts : Nat, shown : Nat, taken : Nat],
         item' \in [kind : Kinds, pc : {"open", "done"}, n : Nat, said : Nat],
         item'.n >= item.n, item.pc = "done" => item'.pc = "done"
  PROVE  CardsInv'
<1>1. CardTypes'
  BY DEF CardsInv, CardTypes
<1>2. ASSUME restarts = 0
      PROVE  OneSends' /\ SendsForward' /\ TextsGrow'
  <2>1. OneSends' /\ SendsForward'
    BY <1>2 DEF CardsInv, OneSends, SendsForward, Sends
  <2>2. card.text \in Nat /\ item.n \in Nat /\ item'.n \in Nat /\ card.text <= item.n
    BY <1>2 DEF CardsInv, CardTypes, Cards, TextsGrow
  <2>3. card'.text <= item'.n
    BY <2>2
  <2>4. /\ card'.on => chat'.shown <= card'.text
        /\ card'.completed => item'.pc = "done"
        /\ ~card'.on => card' = NoCard /\ (item'.pc = "done" \/ chat'.shown = 0)
    BY <1>2 DEF CardsInv, TextsGrow
  <2> QED BY <2>1, <2>3, <2>4 DEF TextsGrow
<1> QED BY <1>1, <1>2 DEF CardsInv

(* An item is complete (im/events.rs, complete_existing_item_card). *)
LEMMA ItemCompletedKeeps ==
  ASSUME CardsInv, ItemCompleted
  PROVE  CardsInv'
<1>1. item \in [kind : Kinds, pc : {"open", "done"}, n : Nat, said : Nat] /\ card \in Cards
      /\ chat \in [posts : Nat, shown : Nat, taken : Nat] /\ driver \in [Drivers -> DriverStates]
  BY DEF CardsInv, CardTypes
<1>2. item.pc = "open" /\ item.n < MaxEvent /\ UNCHANGED <<restarts, chat>>
  BY DEF ItemCompleted, Notified
<1>3. PICK given \in BOOLEAN :
        /\ IF card.on \/ given
           THEN /\ card' = [card EXCEPT !.on = TRUE, !.dirty = TRUE, !.completed = TRUE,
                                        !.text = IF given THEN New ELSE @]
                /\ driver' = [driver EXCEPT ![New] = [Off EXCEPT !.pc = "claim"]]
           ELSE UNCHANGED <<card, driver>>
        /\ item' = [item EXCEPT !.pc = "done", !.n = New, !.said = IF given THEN New ELSE @]
  BY DEF ItemCompleted
<1>4. PICK said : said = IF given THEN item.n + 1 ELSE item.said
  OBVIOUS
<1>5. item' = [item EXCEPT !.pc = "done", !.n = item.n + 1, !.said = said]
  BY <1>3, <1>4 DEF New
<1>6. said \in Nat /\ item.n + 1 \in Nat
  BY <1>1, <1>4
<1>7. item' \in [kind : Kinds, pc : {"open", "done"}, n : Nat, said : Nat]
      /\ item'.n = item.n + 1 /\ item'.pc = "done"
  BY <1>1, <1>5, <1>6
<1>8. CASE card.on \/ given
  <2>1. PICK t : t = IF given THEN item.n + 1 ELSE card.text
    OBVIOUS
  <2>2. t \in Nat /\ (t = card.text \/ t = item.n + 1)
    BY <1>1, <1>6, <2>1 DEF Cards
  <2>3. PICK entry : entry = [card EXCEPT !.on = TRUE, !.dirty = TRUE, !.completed = TRUE, !.text = t]
    OBVIOUS
  <2>4. card' = entry /\ driver' = [driver EXCEPT ![item.n + 1] = [Off EXCEPT !.pc = "claim"]]
    BY <1>3, <1>8, <2>1, <2>3 DEF New
  <2>5. entry \in Cards /\ entry.on /\ entry.sending = card.sending /\ entry.text = t
    BY <1>1, <2>2, <2>3 DEF Cards
  <2>6. Notes(entry, said)
    BY <1>2, <1>6, <2>2, <2>5 DEF Notes
  <2> QED BY <1>2, <1>5, <2>4, <2>6, NotesKeep
<1>9. CASE ~(card.on \/ given)
  <2>1. UNCHANGED <<card, driver>>
    BY <1>3, <1>9
  <2>2. item'.n >= item.n
    BY <1>1, <1>7
  <2> QED BY <1>1, <1>2, <1>7, <2>1, <2>2, CardsStand
<1> QED BY <1>8, <1>9

(* An item without a growing card is complete (im/events.rs). *)
LEMMA PostedKeeps ==
  ASSUME CardsInv, PictureCompleted \/ OtherItemCompleted
  PROVE  CardsInv'
<1>1. item \in [kind : Kinds, pc : {"open", "done"}, n : Nat, said : Nat]
      /\ chat \in [posts : Nat, shown : Nat, taken : Nat]
  BY DEF CardsInv, CardTypes
<1>2. PICK posts \in Nat : Post(posts)
  BY DEF PictureCompleted, OtherItemCompleted
<1>3. item' = [item EXCEPT !.pc = "done", !.n = item.n + 1]
      /\ chat' = [chat EXCEPT !.posts = chat.posts + posts]
      /\ UNCHANGED <<card, driver, restarts>>
  BY <1>2 DEF Post, New
<1>4. item' \in [kind : Kinds, pc : {"open", "done"}, n : Nat, said : Nat]
      /\ item'.n = item.n + 1 /\ item'.pc = "done"
  <2>1. item.n + 1 \in Nat
    BY <1>1
  <2> QED BY <1>1, <1>3, <2>1
<1>5. chat' \in [posts : Nat, shown : Nat, taken : Nat] /\ chat'.shown = chat.shown
  <2>1. chat.posts + posts \in Nat
    BY <1>1
  <2> QED BY <1>1, <1>3, <2>1
<1>6. item'.n >= item.n
  BY <1>1, <1>4
<1> QED BY <1>3, <1>4, <1>5, <1>6, CardsStand

-----------------------------------------------------------------------------
(* Cards: the drivers.                                                      *)

(* A driver becomes q: it was the one that sends, nobody was, or it does    *)
(* not disturb the one that is.                                             *)
LEMMA DriverKeeps ==
  ASSUME CardsInv, NEW d \in Drivers, NEW q \in DriverStates, driver' = [driver EXCEPT ![d] = q],
         card' \in Cards, chat' \in [posts : Nat, shown : Nat, taken : Nat],
         UNCHANGED <<item, restarts>>,
         restarts = 0 =>
           /\ TextsGrow'
           /\ Sends(d) \/ ~card.sending \/ UNCHANGED <<card, chat>>
           /\ q.pc \in {"skip", "wait", "send"} =>
                /\ Sends(d) \/ ~card.sending
                /\ card'.on /\ card'.sending
                /\ chat'.shown <= q.snap.text /\ q.snap.text <= card'.text
  PROVE  CardsInv'
<1>1. driver \in [Drivers -> DriverStates]
  BY DEF CardsInv, CardTypes
<1>2. driver' \in [Drivers -> DriverStates]
      /\ driver'[d] = q /\ \A e \in Drivers : e # d => driver'[e] = driver[e]
  BY <1>1
<1>3. CardTypes'
  BY <1>2 DEF CardsInv, CardTypes
<1>4. ASSUME restarts = 0
      PROVE  OneSends' /\ SendsForward' /\ TextsGrow'
  <2>1. OneSends /\ SendsForward
    BY <1>4 DEF CardsInv
  <2>2. \A e \in Drivers : e # d /\ Sends(e)' => Sends(e)
    BY <1>2 DEF Sends
  <2>3. Sends(d) \/ ~card.sending => \A e \in Drivers : e # d => ~Sends(e)'
    BY <2>1, <2>2 DEF OneSends, SendsForward
  <2>4. Sends(d)' => q.pc \in {"skip", "wait", "send"}
    BY <1>2 DEF Sends
  <2>5. OneSends'
    BY <1>4, <2>1, <2>2, <2>3, <2>4 DEF OneSends
  <2>6. ASSUME NEW e \in Drivers, Sends(e)'
        PROVE  card'.on /\ card'.sending /\ chat'.shown <= driver'[e].snap.text
               /\ driver'[e].snap.text <= card'.text
    <3>1. CASE e = d
      BY <1>2, <1>4, <2>4, <2>6, <3>1
    <3>2. CASE e # d
      <4>1. card' = card /\ chat' = chat
        BY <1>4, <2>3, <2>6, <3>2
      <4>2. Sends(e) /\ driver'[e] = driver[e]
        BY <1>2, <2>2, <2>6, <3>2
      <4> QED BY <2>1, <4>1, <4>2 DEF SendsForward
    <3> QED BY <3>1, <3>2
  <2>7. SendsForward'
    BY <2>6 DEF SendsForward
  <2> QED BY <1>4, <2>5, <2>7
<1> QED BY <1>3, <1>4 DEF CardsInv

(* What is known of the driver of a step. *)
LEMMA DriverFacts ==
  ASSUME CardsInv, NEW d \in Drivers
  PROVE  /\ driver \in [Drivers -> DriverStates] /\ driver[d] \in DriverStates
         /\ driver[d].snap \in Cards /\ driver[d].snap.text \in Nat
         /\ card \in Cards /\ card.text \in Nat /\ restarts \in Nat
         /\ chat \in [posts : Nat, shown : Nat, taken : Nat] /\ chat.shown \in Nat
         /\ restarts = 0 => TextsGrow
         /\ restarts = 0 /\ Sends(d) => card.on /\ card.sending /\ chat.shown <= driver[d].snap.text
                                        /\ driver[d].snap.text <= card.text
  BY DEF CardsInv, CardTypes, DriverStates, Cards, SendsForward

(* The card is claimed with the text it has (im/feishu/runtime.rs). *)
LEMMA ClaimKeeps ==
  ASSUME CardsInv, NEW d \in Drivers, Claim(d)
  PROVE  CardsInv'
<1>1. CASE ~card.on \/ card.sending \/ ~card.dirty
  <2>1. driver' = [driver EXCEPT ![d] = Off] /\ UNCHANGED <<card, chat, item, restarts>>
    BY <1>1 DEF Claim, DriverStep
  <2>2. restarts = 0 => TextsGrow'
    BY <2>1, DriverFacts DEF TextsGrow
  <2>3. Off.pc \notin {"skip", "wait", "send"} /\ Off \in DriverStates
    BY Claiming
  <2> QED BY <2>1, <2>2, <2>3, DriverFacts, DriverKeeps
<1>2. CASE ~(~card.on \/ card.sending \/ ~card.dirty)
  <2>1. PICK pc \in {"skip", "wait"} : driver' = [driver EXCEPT ![d] = [pc |-> pc, snap |-> card]]
    BY <1>2 DEF Claim
  <2>2. PICK q : q = [pc |-> pc, snap |-> card]
    OBVIOUS
  <2>3. card \in Cards
    BY DriverFacts
  <2>4. q \in DriverStates /\ q.snap = card
    BY <2>2, <2>3 DEF DriverStates
  <2>5. card' = [card EXCEPT !.sending = TRUE, !.dirty = FALSE] /\ UNCHANGED <<chat, item, restarts>>
    BY <1>2 DEF Claim
  <2>6. card' \in Cards /\ card'.on = card.on /\ card'.text = card.text /\ card'.sending
        /\ card'.completed = card.completed
    BY <2>3, <2>5 DEF Cards
  <2>7. card.on /\ ~card.sending
    BY <1>2
  <2>8. restarts = 0 => TextsGrow'
    BY <2>5, <2>6, <2>7, DriverFacts DEF TextsGrow
  <2>9. restarts = 0 => chat.shown <= card.text
    BY <2>7, DriverFacts DEF TextsGrow
  <2>10. card.text <= card.text
    BY DriverFacts
  <2>11. chat' \in [posts : Nat, shown : Nat, taken : Nat]
    BY <2>5, DriverFacts
  <2>12. driver' = [driver EXCEPT ![d] = q]
    BY <2>1, <2>2
  <2> QED BY <2>4, <2>5, <2>6, <2>7, <2>8, <2>9, <2>10, <2>11, <2>12, DriverKeeps
<1> QED BY <1>1, <1>2

(* An empty card is not sent (im/feishu/runtime.rs). *)
LEMMA SkipKeeps ==
  ASSUME CardsInv, NEW d \in Drivers, Skip(d)
  PROVE  CardsInv'
<1>1. driver' = [driver EXCEPT ![d] = Off] /\ UNCHANGED <<chat, item, restarts>> /\ Sends(d)
  BY DEF Skip, DriverStep, Sends
<1>2. card \in Cards /\ chat' \in [posts : Nat, shown : Nat, taken : Nat]
  BY <1>1, DriverFacts
<1>3. \/ card.completed /\ card' = NoCard
      \/ card' = [card EXCEPT !.sending = FALSE]
  BY DEF Skip
<1>4. card' \in Cards
  BY <1>2, <1>3, Claiming DEF Cards
<1>5. restarts = 0 => TextsGrow'
  <2> SUFFICES ASSUME restarts = 0
               PROVE  TextsGrow'
    OBVIOUS
  <2>1. card.on /\ TextsGrow
    BY <1>1, DriverFacts
  <2>2. CASE card.completed /\ card' = NoCard
    <3>1. item.pc = "done" /\ item' = item /\ item.n \in Nat
      BY <1>1, <2>1, <2>2 DEF TextsGrow, CardsInv, CardTypes
    <3>2. ~NoCard.on /\ NoCard.text = 0 /\ ~NoCard.completed
      BY DEF NoCard
    <3> QED BY <2>2, <3>1, <3>2 DEF TextsGrow
  <2>3. CASE card' = [card EXCEPT !.sending = FALSE]
    <3>1. card'.on = card.on /\ card'.text = card.text /\ card'.completed = card.completed
      BY <1>2, <2>3 DEF Cards
    <3> QED BY <1>1, <2>1, <3>1 DEF TextsGrow
  <2> QED BY <1>3, <2>2, <2>3
<1> QED BY <1>1, <1>2, <1>4, <1>5, Claiming, DriverKeeps

(* The card is sent after a pause, with what has arrived by then (im/feishu/runtime.rs). *)
LEMMA WaitKeeps ==
  ASSUME CardsInv, NEW d \in Drivers, Wait(d)
  PROVE  CardsInv'
<1>1. Sends(d) /\ UNCHANGED <<chat, item, restarts>>
  BY DEF Wait, DriverStep, Sends
<1>2. card \in Cards /\ chat' \in [posts : Nat, shown : Nat, taken : Nat] /\ driver[d] \in DriverStates
  BY <1>1, DriverFacts
<1>3. CASE DriverStep(d, "send") /\ UNCHANGED card
  <2>1. PICK q : q = [driver[d] EXCEPT !.pc = "send"]
    OBVIOUS
  <2>2. q \in DriverStates /\ q.snap = driver[d].snap
    BY <1>2, <2>1 DEF DriverStates
  <2>3. driver' = [driver EXCEPT ![d] = q]
    BY <1>3, <2>1 DEF DriverStep
  <2>4. restarts = 0 => TextsGrow'
    BY <1>1, <1>3, DriverFacts DEF TextsGrow
  <2>5. restarts = 0 => card.on /\ card.sending /\ chat.shown <= q.snap.text /\ q.snap.text <= card.text
    BY <1>1, <2>2, DriverFacts
  <2> QED BY <1>1, <1>2, <1>3, <2>2, <2>3, <2>4, <2>5, DriverKeeps
<1>4. CASE ~card.on /\ DriverStep(d, "off") /\ UNCHANGED card
  <2>1. driver' = [driver EXCEPT ![d] = Off]
    BY <1>4 DEF DriverStep
  <2>2. restarts = 0 => TextsGrow'
    BY <1>1, <1>4, DriverFacts DEF TextsGrow
  <2> QED BY <1>1, <1>2, <1>4, <2>1, <2>2, Claiming, DriverKeeps
<1>5. CASE /\ card.on /\ card' = [card EXCEPT !.dirty = FALSE]
           /\ driver' = [driver EXCEPT ![d] = [pc |-> "send", snap |-> card]]
  <2>1. PICK q : q = [pc |-> "send", snap |-> card]
    OBVIOUS
  <2>2. q \in DriverStates /\ q.snap = card
    BY <1>2, <2>1 DEF DriverStates
  <2>3. card' \in Cards /\ card'.on = card.on /\ card'.text = card.text /\ card'.sending = card.sending
        /\ card'.completed = card.completed
    BY <1>2, <1>5 DEF Cards
  <2>4. restarts = 0 => TextsGrow'
    BY <1>1, <1>5, <2>3, DriverFacts DEF TextsGrow
  <2>5. restarts = 0 => card.sending /\ chat.shown <= card.text
    BY <1>1, <1>5, DriverFacts DEF TextsGrow
  <2>6. card.text <= card.text
    BY DriverFacts
  <2>7. driver' = [driver EXCEPT ![d] = q]
    BY <1>5, <2>1
  <2> QED BY <1>1, <1>2, <1>5, <2>2, <2>3, <2>4, <2>5, <2>6, <2>7, DriverKeeps
<1> QED BY <1>3, <1>4, <1>5 DEF Wait

(* What the chat may be after a send, done or failed: a card there is now   *)
(* shows the text of the send, or what it did; a new one that or nothing.   *)
LEMMA TargetParts ==
  ASSUME CardsInv, NEW d \in Drivers, NEW c, c = Target(driver[d].snap)
  PROVE  /\ c \in [posts : Nat, shown : Nat, taken : Nat]
         /\ c = chat \/ (c.posts # chat.posts /\ c.shown = 0)
<1>1. chat \in [posts : Nat, shown : Nat, taken : Nat]
  BY DriverFacts
<1>2. PICK n : n = chat.posts + 1
  OBVIOUS
<1>3. n \in Nat /\ n # chat.posts
  BY <1>1, <1>2
<1>4. c = chat \/ c = [posts |-> n, shown |-> 0, taken |-> 0]
  BY <1>2 DEF Target
<1> QED BY <1>1, <1>3, <1>4

LEMMA SequenceParts ==
  ASSUME CardsInv, NEW d \in Drivers
  PROVE  NextSequence(driver[d].snap) \in Nat /\ LastSequence(driver[d].snap) \in Nat
<1>1. driver[d].snap.sequence \in Nat
  BY DriverFacts DEF Cards
<1>2. NextSequence(driver[d].snap) \in Nat
  BY <1>1 DEF NextSequence
<1> QED BY <1>1, <1>2 DEF LastSequence

LEMMA PostedParts ==
  ASSUME CardsInv, NEW d \in Drivers, NEW c, c = Posted(driver[d].snap)
  PROVE  /\ c \in [posts : Nat, shown : Nat, taken : Nat] /\ c.shown = driver[d].snap.text
<1>1. PICK e : e = Target(driver[d].snap)
  OBVIOUS
<1>2. PICK n : n = LastSequence(driver[d].snap)
  OBVIOUS
<1>3. driver[d].snap.text \in Nat /\ n \in Nat /\ e \in [posts : Nat, shown : Nat, taken : Nat]
  BY <1>1, <1>2, DriverFacts, SequenceParts, TargetParts
<1>4. c = [e EXCEPT !.shown = driver[d].snap.text, !.taken = n]
  BY <1>1, <1>2 DEF Posted
<1> QED BY <1>3, <1>4

LEMMA PartsPosted ==
  ASSUME CardsInv, NEW d \in Drivers, NEW c \in PartlyPosted(driver[d].snap)
  PROVE  /\ c \in [posts : Nat, shown : Nat, taken : Nat]
         /\ \/ c = chat
            \/ c.posts # chat.posts /\ c.shown = 0
            \/ c.shown = driver[d].snap.text
<1>1. PICK n : n = NextSequence(driver[d].snap)
  OBVIOUS
<1>2. PICK e : e = Target(driver[d].snap)
  OBVIOUS
<1>3. PICK p : p = Posted(driver[d].snap)
  OBVIOUS
<1>4. chat \in [posts : Nat, shown : Nat, taken : Nat] /\ n \in Nat
  BY <1>1, DriverFacts, SequenceParts
<1>5. c = chat \/ c = e \/ c = p \/ c = [p EXCEPT !.taken = n]
  BY <1>1, <1>2, <1>3 DEF PartlyPosted
<1>6. CASE c = chat
  BY <1>4, <1>6
<1>7. CASE c = e
  BY <1>2, <1>7, TargetParts
<1>8. CASE c = p \/ c = [p EXCEPT !.taken = n]
  <2>1. p \in [posts : Nat, shown : Nat, taken : Nat] /\ p.shown = driver[d].snap.text
    BY <1>3, PostedParts
  <2> QED BY <1>4, <1>8, <2>1
<1> QED BY <1>5, <1>6, <1>7, <1>8

(* The card is sent, and the entry written back (im/feishu/runtime.rs). *)
LEMMA SendCardKeeps ==
  ASSUME CardsInv, NEW d \in Drivers, SendCard(d)
  PROVE  CardsInv' /\ GoesForward
<1>1. Sends(d) /\ UNCHANGED <<item, restarts>> /\ chat' = Posted(driver[d].snap)
  BY DEF SendCard, Sends
<1>2. chat' \in [posts : Nat, shown : Nat, taken : Nat] /\ chat'.shown = driver[d].snap.text
  BY <1>1, PostedParts
<1>3. PICK q \in DriverStates : q.pc \notin {"skip", "wait", "send"} /\ driver' = [driver EXCEPT ![d] = q]
  <2>1. PICK q : q = IF card.on /\ card.dirty THEN [Off EXCEPT !.pc = "claim"] ELSE Off
    OBVIOUS
  <2>2. driver' = [driver EXCEPT ![d] = q]
    BY <2>1 DEF SendCard
  <2>3. q \in DriverStates /\ q.pc \in {"off", "claim"}
    BY <2>1, Claiming
  <2> QED BY <2>2, <2>3
<1>4. PICK n \in Nat : n = LastSequence(driver[d].snap)
  BY SequenceParts
<1>5. card \in Cards /\ driver[d].snap.text \in Nat
  BY DriverFacts
<1>6. PICK entry : entry = [card EXCEPT !.posted = TRUE, !.sent = driver[d].snap.text, !.sending = FALSE,
                                         !.sequence = n]
  OBVIOUS
<1>7. entry \in Cards /\ entry.on = card.on /\ entry.text = card.text /\ entry.completed = card.completed
  BY <1>5, <1>6 DEF Cards
<1>8. \/ card' = NoCard /\ (~card.on \/ entry.completed)
      \/ card' = entry
  BY <1>4, <1>6 DEF SendCard
<1>9. card' \in Cards
  BY <1>7, <1>8, Claiming
<1>10. restarts = 0 => TextsGrow'
  <2> SUFFICES ASSUME restarts = 0
               PROVE  TextsGrow'
    OBVIOUS
  <2>1. card.on /\ TextsGrow /\ driver[d].snap.text <= card.text
    BY <1>1, DriverFacts
  <2>2. CASE card' = NoCard /\ entry.completed
    <3>1. item.pc = "done" /\ item' = item /\ item.n \in Nat
      BY <1>1, <1>7, <2>1, <2>2 DEF TextsGrow, CardsInv, CardTypes
    <3>2. ~NoCard.on /\ NoCard.text = 0 /\ ~NoCard.completed
      BY DEF NoCard
    <3> QED BY <2>2, <3>1, <3>2 DEF TextsGrow
  <2>3. CASE card' = entry
    <3>1. chat'.shown <= card'.text
      BY <1>2, <1>7, <2>1, <2>3
    <3> QED BY <1>1, <1>7, <2>1, <2>3, <3>1 DEF TextsGrow
  <2> QED BY <1>8, <2>1, <2>2, <2>3
<1>11. GoesForward
  BY <1>1, <1>2, DriverFacts DEF GoesForward
<1>12. CardsInv'
  BY <1>1, <1>2, <1>3, <1>9, <1>10, DriverKeeps
<1> QED BY <1>11, <1>12

(* The send fails, whatever Feishu has done, or is refused for its sequence *)
(* (im/feishu/runtime.rs).                                                  *)
LEMMA SentInVainKeeps ==
  ASSUME CardsInv, NEW d \in Drivers, SendCardFails(d) \/ SendCardRefused(d)
  PROVE  CardsInv' /\ GoesForward
<1>1. Sends(d) /\ UNCHANGED <<item, restarts>>
      /\ driver' = [driver EXCEPT ![d] = [Off EXCEPT !.pc = "claim"]]
  BY DEF SendCardFails, SendCardRefused, SentInVain, Sends
<1>2. card \in Cards /\ driver[d].snap.text \in Nat /\ chat.shown \in Nat
      /\ chat \in [posts : Nat, shown : Nat, taken : Nat]
  BY DriverFacts
<1>3. chat' \in [posts : Nat, shown : Nat, taken : Nat]
      /\ \/ chat' = chat
         \/ chat'.posts # chat.posts /\ chat'.shown = 0
         \/ chat'.shown = driver[d].snap.text
  <2>1. CASE SendCardFails(d)
    <3>1. chat' \in PartlyPosted(driver[d].snap)
      BY <2>1 DEF SendCardFails
    <3> QED BY <3>1, PartsPosted
  <2>2. CASE SendCardRefused(d)
    BY <1>2, <2>2 DEF SendCardRefused
  <2> QED BY <2>1, <2>2
<1>4. card' = card \/ card' = [card EXCEPT !.sending = FALSE, !.dirty = TRUE]
  BY DEF SendCardFails, SendCardRefused, SentInVain
<1>5. card' \in Cards /\ card'.on = card.on /\ card'.text = card.text /\ card'.completed = card.completed
  BY <1>2, <1>4 DEF Cards
<1>6. restarts = 0 => TextsGrow'
  <2> SUFFICES ASSUME restarts = 0
               PROVE  TextsGrow'
    OBVIOUS
  <2>1. card.on /\ TextsGrow /\ driver[d].snap.text <= card.text /\ card.text \in Nat
    BY <1>1, DriverFacts
  <2>2. chat'.shown <= card'.text
    BY <1>3, <1>5, <2>1 DEF TextsGrow
  <2> QED BY <1>1, <1>5, <2>1, <2>2 DEF TextsGrow
<1>7. GoesForward
  BY <1>1, <1>2, <1>3, DriverFacts DEF GoesForward
<1>8. CardsInv'
  BY <1>1, <1>3, <1>5, <1>6, Claiming, DriverKeeps
<1> QED BY <1>7, <1>8

(* The cards are cleared; their drivers go on (bridge.rs). *)
LEMMA ClearKeeps ==
  ASSUME CardsInv, Restart
  PROVE  CardsInv'
<1>1. card' = NoCard /\ restarts' = restarts + 1 /\ UNCHANGED <<item, driver, chat>>
  BY DEF Restart
<1>2. restarts \in Nat
  BY DEF CardsInv, CardTypes
<1>3. restarts' \in Nat /\ restarts' # 0
  BY <1>1, <1>2
<1>4. CardTypes'
  BY <1>1, <1>3, Claiming DEF CardsInv, CardTypes
<1> QED BY <1>3, <1>4 DEF CardsInv

(* Every step keeps the invariant of the cards, and none takes a text back. *)
LEMMA NextCards ==
  ASSUME CardsInv, [Next]_vars
  PROVE  CardsInv' /\ GoesForward
<1>0. (chat'.shown = chat.shown) => GoesForward
  BY DEF CardsInv, CardTypes, GoesForward
<1>1. chat.shown \in Nat /\ chat \in [posts : Nat, shown : Nat, taken : Nat] /\ restarts \in Nat
      /\ item \in [kind : Kinds, pc : {"open", "done"}, n : Nat, said : Nat] /\ item.n \in Nat
  BY DEF CardsInv, CardTypes
<1>2. CASE ItemStarted \/ ItemUpdated \/ AgentMessageDelta \/ ReasoningDelta \/ PlanDelta
           \/ OutputDelta \/ ToolProgress
  <2>1. chat' = chat
    BY <1>2 DEF ItemStarted, ItemUpdated, AgentMessageDelta, ReasoningDelta, PlanDelta, OutputDelta,
                ToolProgress, EnsureStarted, Upsert, Handle
  <2> QED BY <1>0, <1>1, <1>2, <2>1, NotifiedKeeps
<1>3. CASE ItemCompleted
  <2>1. chat' = chat
    BY <1>3 DEF ItemCompleted
  <2> QED BY <1>0, <1>1, <1>3, <2>1, ItemCompletedKeeps
<1>4. CASE PictureCompleted \/ OtherItemCompleted
  <2>1. PICK posts : Post(posts)
    BY <1>4 DEF PictureCompleted, OtherItemCompleted
  <2>2. chat'.shown = chat.shown
    BY <1>1, <2>1 DEF Post
  <2> QED BY <1>0, <1>1, <1>4, <2>2, PostedKeeps
<1>5. CASE \E d \in Drivers : CardStep(d) \/ SendCardFails(d)
  <2>1. PICK d \in Drivers : CardStep(d) \/ SendCardFails(d)
    BY <1>5
  <2>2. CASE Claim(d) \/ Skip(d) \/ Wait(d)
    <3>1. chat' = chat
      BY <2>2 DEF Claim, Skip, Wait, DriverStep
    <3> QED BY <1>0, <1>1, <2>2, <3>1, ClaimKeeps, SkipKeeps, WaitKeeps
  <2>3. CASE SendCard(d) \/ SendCardFails(d) \/ SendCardRefused(d)
    BY <2>3, SendCardKeeps, SentInVainKeeps
  <2> QED BY <2>1, <2>2, <2>3 DEF CardStep
<1>6. CASE Restart
  <2>1. chat' = chat
    BY <1>6 DEF Restart
  <2> QED BY <1>0, <1>1, <1>6, <2>1, ClearKeeps
<1>7. CASE AccountDisabled
  <2>1. restarts' = restarts + 1 /\ UNCHANGED cardVars
    BY <1>7 DEF AccountDisabled
  <2>2. restarts' \in Nat /\ restarts' # 0
    BY <1>1, <2>1
  <2>3. CardTypes'
    BY <2>1, <2>2 DEF CardsInv, CardTypes, cardVars
  <2> QED BY <1>0, <2>1, <2>2, <2>3 DEF CardsInv, cardVars
<1>8. CASE ReplyCompleted \/ TurnCompleted \/ TextItemCompleted \/ ApprovalQueued \/ QueueStep \/ WorkerFails
           \/ UserWrites \/ Replay \/ TokenExpires \/ UNCHANGED vars
  <2>1. UNCHANGED <<restarts, cardVars>>
    BY <1>8 DEF ReplyCompleted, TurnCompleted, TextItemCompleted, ApprovalQueued, QueueStep, WorkerTake,
                WorkerLook, WorkerToken, Defer, WorkerRead, Deliver, Refused, Forget, WorkerStep, TextStep,
                WorkerFails, UserWrites, Replay, TokenExpires, vars
  <2>2. UNCHANGED <<card, driver, restarts, item, chat>>
    BY <2>1 DEF cardVars
  <2> QED BY <1>0, <1>1, <2>2, CardsStand
<1> QED BY <1>2, <1>3, <1>4, <1>5, <1>6, <1>7, <1>8 DEF Next

(* The invariant of the cards holds at first. *)
LEMMA InitCards ==
  ASSUME Init
  PROVE  CardsInv
<1>1. NoCard \in Cards /\ Off \in DriverStates /\ Off.pc = "off"
  BY Claiming
<1>2. item \in [kind : Kinds, pc : {"open", "done"}, n : Nat, said : Nat] /\ item.n = 0
  BY DEF Init
<1>3. CardTypes
  BY <1>1, <1>2 DEF Init, CardTypes
<1>4. OneSends /\ SendsForward
  BY <1>1 DEF Init, OneSends, SendsForward, Sends
<1>5. TextsGrow
  BY <1>2 DEF Init, TextsGrow, NoCard
<1> QED BY <1>3, <1>4, <1>5 DEF CardsInv

(* Until a restart forgets the cards, a card never shows less than it did,  *)
(* whatever the drivers, the failures and the timeouts of the sends and the *)
(* sequences that were refused: one driver sends at a time, and what it     *)
(* sends was read after what is shown (im/feishu/runtime.rs,                *)
(* drive_streaming_card_state).                                             *)
THEOREM CardsGoForward == Spec => CardNeverGoesBack
<1>1. Init => CardsInv
  BY InitCards
<1>2. CardsInv /\ [Next]_vars => CardsInv'
  BY NextCards
<1>3. CardsInv /\ [Next]_vars => [restarts = 0 /\ chat'.posts = chat.posts => chat'.shown >= chat.shown]_vars
  BY NextCards DEF GoesForward
<1> QED BY <1>1, <1>2, <1>3, PTL DEF Spec, CardNeverGoesBack

-----------------------------------------------------------------------------
(* The access token of Feishu (Senders): what is left of it covers the time *)
(* a request may take, whether the token is fresh or cached.                *)

JobStates == {"begin", "queued", "locked", "asking", "calling", "done", "failed"}
Jobs == [at : JobStates, step : Int, second : BOOLEAN, waited : 0 .. MaxDelay, token : Int]

TokenTypes == /\ time \in Nat /\ cache \in [good : Int, renew : Int]
              /\ jobs \in [Outgoing -> Jobs]

\* as long as the cached token is handed out, it outlasts a request
CacheOutlasts == cache.renew = 0 \/ cache.renew + MaxDelay <= cache.good

\* and so does a token in hand, for what is left of the request's time
TokenOutlasts ==
  \A s \in Outgoing : NeedsToken(s) /\ jobs[s].at = "calling" =>
                        time + MaxDelay < jobs[s].token + jobs[s].waited

TokenInv == TokenTypes /\ CacheOutlasts /\ TokenOutlasts

(* One send goes on, and does not come to a request: nothing to show.       *)
LEMMA JobMoves ==
  ASSUME TokenInv, NEW s \in Outgoing, NEW q \in Jobs, jobs' = [jobs EXCEPT ![s] = q],
         UNCHANGED <<tasks, time>>, cache' \in [good : Int, renew : Int], CacheOutlasts',
         NeedsToken(s) /\ q.at = "calling" => time + MaxDelay < q.token + q.waited
  PROVE  TokenInv'
<1>1. \A o \in Outgoing : jobs'[o] = IF o = s THEN q ELSE jobs[o]
  BY DEF TokenInv, TokenTypes
<1>2. TokenTypes'
  BY <1>1 DEF TokenInv, TokenTypes
<1>3. TokenOutlasts'
  BY <1>1 DEF TokenInv, TokenOutlasts, NeedsToken
<1> QED BY <1>2, <1>3 DEF TokenInv

(* A step that leaves the tokens alone.                                     *)
LEMMA QuietMoves ==
  ASSUME TokenInv, NEW s \in Outgoing, NEW q \in Jobs, jobs' = [jobs EXCEPT ![s] = q],
         q.at # "calling", UNCHANGED <<tasks, time, cache>>
  PROVE  TokenInv'
<1>1. CacheOutlasts' /\ cache' \in [good : Int, renew : Int]
  BY DEF TokenInv, TokenTypes, CacheOutlasts
<1> QED BY <1>1, JobMoves

(* What is taken from the cache (feishu/api.rs, get_tenant_access_token).   *)
LEMMA CacheGives ==
  ASSUME TokenInv, NEW s \in Outgoing, NEW otherwise \in JobStates \ {"calling"},
         TakeCached(s, otherwise), UNCHANGED <<tasks, time, cache>>
  PROVE  TokenInv'
<1>0. jobs[s] \in Jobs /\ time \in Nat /\ cache \in [good : Int, renew : Int] /\ 0 \in 0 .. MaxDelay
      /\ jobs \in [Outgoing -> Jobs] /\ MaxDelay \in Nat
  BY SendersAssumption DEF TokenInv, TokenTypes
<1>1. CASE Cached
  <2> DEFINE q == [jobs[s] EXCEPT !.at = "calling", !.waited = 0, !.token = cache.good]
  <2>1. q \in Jobs /\ q.token = cache.good /\ q.waited = 0
    BY <1>0 DEF Jobs, JobStates
  <2>2. jobs' = [jobs EXCEPT ![s] = q]
    BY <1>0, <1>1 DEF TakeCached
  <2>3. time + MaxDelay < cache.good /\ CacheOutlasts'
    BY <1>0, <1>1 DEF TokenInv, CacheOutlasts, Cached
  <2>4. time + MaxDelay < q.token + q.waited
    BY <1>0, <2>1, <2>3
  <2> HIDE DEF q
  <2> QED BY <1>0, <2>1, <2>2, <2>3, <2>4, JobMoves
<1>2. CASE ~Cached
  <2> DEFINE q == [jobs[s] EXCEPT !.at = otherwise, !.waited = 0]
  <2>1. q \in Jobs /\ q.at = otherwise
    BY <1>0 DEF Jobs
  <2>2. jobs' = [jobs EXCEPT ![s] = q]
    BY <1>0, <1>2 DEF TakeCached
  <2> HIDE DEF q
  <2> QED BY <2>1, <2>2, QuietMoves
<1> QED BY <1>1, <1>2

(* A fresh token: it may be as old as its answer was long, and outlasts the *)
(* next request all the same, as it would when it is handed out last.       *)
LEMMA FreshGives ==
  ASSUME TokenInv, NEW s \in Outgoing, TokenArrives(s)
  PROVE  TokenInv'
<1>0. jobs[s] \in Jobs /\ time \in Nat /\ 0 \in 0 .. MaxDelay /\ MaxDelay \in Nat /\ Skew \in Nat
      /\ jobs \in [Outgoing -> Jobs] /\ 2 * MaxDelay <= Skew /\ jobs[s].waited \in 0 .. MaxDelay
  BY SendersAssumption DEF TokenInv, TokenTypes, Jobs
<1>1. PICK life \in Lifetimes, age \in 0 .. jobs[s].waited :
        /\ cache' = [good |-> time - age + life, renew |-> time + RenewAfter(life)]
        /\ jobs' = [jobs EXCEPT ![s].at = "calling", ![s].waited = 0, ![s].token = time - age + life]
  BY DEF TokenArrives
<1>2. life \in Int /\ life > 2 * MaxDelay /\ age \in Int /\ age >= 0 /\ age <= MaxDelay
  BY <1>0, <1>1, SendersAssumption
<1>3. PICK good \in Int : good = time - age + life
  BY <1>0, <1>2
<1>4. RenewAfter(life) \in Int /\ time + RenewAfter(life) + MaxDelay <= good
  BY <1>0, <1>2, <1>3 DEF RenewAfter
<1>5. CacheOutlasts' /\ cache' \in [good : Int, renew : Int]
  BY <1>0, <1>1, <1>3, <1>4 DEF CacheOutlasts
<1> DEFINE q == [jobs[s] EXCEPT !.at = "calling", !.waited = 0, !.token = good]
<1>6. q \in Jobs /\ q.token = good /\ q.waited = 0
  BY <1>0 DEF Jobs, JobStates
<1>7. jobs' = [jobs EXCEPT ![s] = q]
  BY <1>0, <1>1, <1>3
<1>8. time + MaxDelay < good /\ UNCHANGED <<tasks, time>>
  BY <1>0, <1>2, <1>3 DEF TokenArrives
<1>9. time + MaxDelay < q.token + q.waited
  BY <1>0, <1>3, <1>6, <1>8
<1> HIDE DEF q
<1> QED BY <1>0, <1>5, <1>6, <1>7, <1>8, <1>9, JobMoves

(* A request is over, and the send goes on or ends.                         *)
LEMMA RequestEnds ==
  ASSUME TokenInv, NEW s \in Outgoing, Succeeded(s) \/ AfterError(s), UNCHANGED <<tasks, time, cache>>
  PROVE  TokenInv'
<1>0. jobs[s] \in Jobs /\ 0 \in 0 .. MaxDelay /\ jobs \in [Outgoing -> Jobs]
  BY SendersAssumption DEF TokenInv, TokenTypes
<1>1. PICK q : q = jobs'[s]
  OBVIOUS
<1>2. jobs' = [jobs EXCEPT ![s] = q] /\ q \in Jobs /\ q.at # "calling"
  <2>1. CASE jobs' = [jobs EXCEPT ![s] = [jobs[s] EXCEPT !.at = "done"]]
    BY <1>0, <1>1, <2>1 DEF Jobs, JobStates
  <2>2. CASE jobs' = [jobs EXCEPT ![s] =
                        [jobs[s] EXCEPT !.at = "begin", !.step = jobs[s].step + 1, !.second = FALSE]]
    <3>1. q = [jobs[s] EXCEPT !.at = "begin", !.step = jobs[s].step + 1, !.second = FALSE]
      BY <1>0, <1>1, <2>2
    <3>2. jobs[s].step + 1 \in Int
      BY <1>0 DEF Jobs
    <3>3. q \in Jobs /\ q.at = "begin"
      BY <1>0, <3>1, <3>2 DEF Jobs, JobStates
    <3> QED BY <2>2, <3>1, <3>3
  <2>3. CASE jobs' = [jobs EXCEPT ![s] = [jobs[s] EXCEPT !.at = "begin", !.second = TRUE]]
    BY <1>0, <1>1, <2>3 DEF Jobs, JobStates
  <2>4. CASE jobs' = [jobs EXCEPT ![s] = [jobs[s] EXCEPT !.at = "failed", !.waited = 0]]
    BY <1>0, <1>1, <2>4 DEF Jobs, JobStates
  <2>5. CASE Succeeded(s)
    <3>1. CASE jobs[s].step = Len(RequestsFor(s))
      BY <1>0, <2>1, <2>5, <3>1 DEF Succeeded
    <3>2. CASE jobs[s].step # Len(RequestsFor(s))
      BY <1>0, <2>2, <2>5, <3>2 DEF Succeeded
    <3> QED BY <3>1, <3>2
  <2>6. CASE AfterError(s)
    BY <1>0, <2>3, <2>4, <2>6 DEF AfterError, Moved
  <2> QED BY <2>5, <2>6
<1> QED BY <1>2, QuietMoves

(* The time goes on for every request alike (tokio's clock, the network).   *)
LEMMA TimeKeepsTokens ==
  ASSUME TokenInv, PassTime
  PROVE  TokenInv'
<1>0. /\ MaxDelay \in Nat /\ time \in Nat /\ jobs \in [Outgoing -> Jobs] /\ time' = time + 1
      /\ UNCHANGED <<tasks, cache>>
  BY SendersAssumption DEF TokenInv, TokenTypes, PassTime
<1>1. ASSUME NEW s \in Outgoing
      PROVE  /\ jobs'[s] \in Jobs /\ jobs'[s].at = jobs[s].at /\ jobs'[s].token = jobs[s].token
             /\ jobs[s].at = "calling" => jobs'[s].waited = jobs[s].waited + 1
  <2>0. jobs[s] \in Jobs
    BY <1>0
  <2>1. CASE jobs[s].at \in {"asking", "calling"}
    <3>1. jobs'[s] = [jobs[s] EXCEPT !.waited = jobs[s].waited + 1] /\ jobs[s].waited < MaxDelay
      BY <1>0, <2>1 DEF PassTime
    <3>2. jobs[s].waited + 1 \in 0 .. MaxDelay
      BY <1>0, <2>0, <3>1 DEF Jobs
    <3> QED BY <2>0, <3>1, <3>2 DEF Jobs
  <2>2. CASE jobs[s].at \notin {"asking", "calling"}
    BY <2>0, <2>2 DEF PassTime
  <2> QED BY <2>1, <2>2
<1>2. TokenTypes'
  <2>1. DOMAIN jobs' = Outgoing /\ jobs' = [s \in Outgoing |-> jobs'[s]]
    BY DEF PassTime
  <2> QED BY <1>0, <1>1, <2>1 DEF TokenInv, TokenTypes
<1>3. CacheOutlasts'
  BY <1>0 DEF TokenInv, CacheOutlasts
<1>4. TokenOutlasts'
  <2> SUFFICES ASSUME NEW s \in Outgoing, NeedsToken(s), jobs'[s].at = "calling"
               PROVE  time' + MaxDelay < jobs'[s].token + jobs'[s].waited
    BY <1>0 DEF TokenOutlasts, NeedsToken
  <2>1. /\ jobs[s].token \in Int /\ jobs[s].waited \in Int
        /\ time + MaxDelay < jobs[s].token + jobs[s].waited
        /\ jobs'[s].token = jobs[s].token /\ jobs'[s].waited = jobs[s].waited + 1
    BY <1>0, <1>1 DEF TokenInv, TokenOutlasts, Jobs
  <2> QED BY <1>0, <2>1
<1> QED BY <1>2, <1>3, <1>4 DEF TokenInv

LEMMA TokensKeep == TokenInv /\ [SendersNext]_sendersVars => TokenInv'
<1> SUFFICES ASSUME TokenInv, [SendersNext]_sendersVars PROVE TokenInv'
  OBVIOUS
<1>1. ASSUME NEW s \in Outgoing, NEW at \in JobStates \ {"calling"}, Moved(s, at), UNCHANGED <<tasks, time, cache>>
      PROVE  TokenInv'
  <2>0. jobs[s] \in Jobs /\ 0 \in 0 .. MaxDelay /\ jobs \in [Outgoing -> Jobs]
    BY SendersAssumption DEF TokenInv, TokenTypes
  <2> DEFINE q == [jobs[s] EXCEPT !.at = at, !.waited = 0]
  <2>1. q \in Jobs /\ q.at = at
    BY <2>0 DEF Jobs
  <2>2. jobs' = [jobs EXCEPT ![s] = q]
    BY <1>1, <2>0 DEF Moved
  <2> HIDE DEF q
  <2> QED BY <1>1, <2>1, <2>2, QuietMoves
<1>2. ASSUME NEW s \in Outgoing, Begin(s) PROVE TokenInv'
  <2>1. CASE NeedsToken(s)
    BY <1>2, <2>1, CacheGives DEF Begin, JobStates
  <2>2. CASE ~NeedsToken(s)
    <3>0. jobs[s] \in Jobs /\ 0 \in 0 .. MaxDelay /\ jobs \in [Outgoing -> Jobs]
      BY SendersAssumption DEF TokenInv, TokenTypes
    <3> DEFINE q == [jobs[s] EXCEPT !.at = "calling", !.waited = 0]
    <3>1. q \in Jobs
      BY <3>0 DEF Jobs, JobStates
    <3>2. jobs' = [jobs EXCEPT ![s] = q] /\ UNCHANGED <<tasks, time, cache>>
      BY <1>2, <2>2, <3>0 DEF Begin, Moved
    <3>3. CacheOutlasts' /\ cache' \in [good : Int, renew : Int]
      BY <3>2 DEF TokenInv, TokenTypes, CacheOutlasts
    <3> HIDE DEF q
    <3> QED BY <2>2, <3>1, <3>2, <3>3, JobMoves
  <2> QED BY <2>1, <2>2
<1>3. ASSUME NEW s \in Outgoing, TakeLock(s) \/ TokenFails(s) \/ DropSend(s) PROVE TokenInv'
  BY <1>1, <1>3 DEF TakeLock, TokenFails, DropSend, JobStates
<1>4. ASSUME NEW s \in Outgoing, LookAgain(s) PROVE TokenInv'
  BY <1>4, CacheGives DEF LookAgain, JobStates
<1>5. ASSUME NEW s \in Outgoing, Answered(s) \/ AnswerLost(s) \/ RequestRefused(s) PROVE TokenInv'
  BY <1>5, RequestEnds DEF Answered, AnswerLost, RequestRefused
<1>6. CASE UNCHANGED sendersVars
  BY <1>6 DEF sendersVars, TokenInv, TokenTypes, CacheOutlasts, TokenOutlasts, NeedsToken
<1> QED BY <1>2, <1>3, <1>4, <1>5, <1>6, FreshGives, TimeKeepsTokens DEF SendersNext

(* No request leaves with a token that runs out before it arrives, however  *)
(* many senders share the cache, whenever they look at it, and however old  *)
(* a token was when it came (feishu/api.rs, get_tenant_access_token).  It   *)
(* takes a skew of twice the time a request may take.                       *)
THEOREM TokensAreGood == SendersSpec => []TokenIsGood
<1>1. SendersInit => TokenInv
  <2> SUFFICES ASSUME SendersInit PROVE TokenInv
    OBVIOUS
  <2>1. [at |-> "begin", step |-> 1, second |-> FALSE, waited |-> 0, token |-> 0] \in Jobs
    BY SendersAssumption DEF Jobs, JobStates
  <2> QED BY <2>1 DEF SendersInit, TokenInv, TokenTypes, CacheOutlasts, TokenOutlasts
<1>2. TokenInv => TokenIsGood
  <2> SUFFICES ASSUME TokenInv, NEW s \in Outgoing, NeedsToken(s), jobs[s].at = "calling"
               PROVE  time < jobs[s].token
    BY DEF TokenIsGood
  <2>1. jobs[s].token \in Int /\ jobs[s].waited \in 0 .. MaxDelay /\ time \in Nat /\ MaxDelay \in Nat
    BY SendersAssumption DEF TokenInv, TokenTypes, Jobs
  <2>2. time + MaxDelay < jobs[s].token + jobs[s].waited
    BY DEF TokenInv, TokenOutlasts
  <2> QED BY <2>1, <2>2
<1> QED BY <1>1, <1>2, TokensKeep, PTL DEF SendersSpec
=============================================================================
