----------------------------- MODULE Supervision -----------------------------
(***************************************************************************)
(* The desktop program and the daemon it keeps running (gui/daemon.rs, the *)
(* dashboard of gui.rs, main.rs, daemon_process.rs).  A start is a thread: *)
(* it stops whichever daemon runs, starts one of its own and hands its     *)
(* process over; the window learns from polls whether the service is up,   *)
(* starts it again after enough bad ones, and stops it when the user quits.*)
(***************************************************************************)
EXTENDS Naturals, FiniteSets, FiniteSetsExt

CONSTANTS
  Starts,       \* numbers for the threads that may start a daemon at one time
  Slots,        \* numbers for the daemons of this program
  Threshold,    \* DAEMON_AUTO_RESTART_FAILURE_THRESHOLD
  MaxTrouble    \* bound: crashes, timeouts and polls without an answer

ASSUME SupervisionAssumption ==
  /\ Starts \subseteq Nat /\ Starts # {}
  /\ Slots \subseteq Nat \ {0, 1} /\ Threshold \in Nat \ {0} /\ MaxTrouble \in Nat

None == 0
Other == 1   \* a daemon that was started without this program
Daemons == Slots \cup {Other}

VARIABLES
  daemon,    \* of each: "none", "starting", "holds", "serves", "leaving", "dead"
  lock,      \* who holds codexhub-daemon.lock
  taken,     \* another program listens on the port
  start,     \* the threads of start_daemon_for_gui_async with their timers
  board,     \* DashboardRefresh: daemon_starting, the snapshot of the present
             \* generation, daemon_health_failures, the cooldown
  hold,      \* pending_startup_child and daemon_child
  window,    \* "open", then the steps of on_close up to "exited"
  ready,     \* daemons that answered the thread that started them, in time
  trouble

supervisionVars == <<daemon, lock, taken, start, board, hold, window, ready, trouble>>

NoStart == [pc |-> "idle", targets |-> {}, child |-> None, ok |-> FALSE, warned |-> FALSE]
Begun == [NoStart EXCEPT !.pc = "ask"]

Alive(d) == daemon[d] \in {"starting", "holds", "serves", "leaving"}
Serving == {d \in Daemons : daemon[d] = "serves"}
PortFree == ~taken /\ Serving = {}
Trouble == trouble < MaxTrouble /\ trouble' = trouble + 1

Without(ds) ==
  /\ daemon' = [d \in Daemons |-> IF d \in ds /\ Alive(d) THEN "dead" ELSE daemon[d]]
  /\ lock' = IF lock \in ds THEN None ELSE lock

-----------------------------------------------------------------------------
(* Daemons (main.rs): the lock, the port, a graceful end.                  *)

Becomes(d, state, holder) ==
  daemon' = [daemon EXCEPT ![d] = state] /\ lock' = holder
  /\ UNCHANGED <<taken, start, board, hold, window, ready>>

\* DaemonInstanceLock::acquire: a second daemon ends at once
Acquire(d) ==
  /\ daemon[d] = "starting" /\ UNCHANGED trouble
  /\ IF lock = None THEN Becomes(d, "holds", d) ELSE Becomes(d, "dead", lock)

Listen(d) ==
  /\ daemon[d] = "holds" /\ UNCHANGED trouble
  /\ IF PortFree THEN Becomes(d, "serves", lock) ELSE Becomes(d, "dead", None)

\* serve_http is over, the extension is restored, the lock is dropped
Leave(d) == daemon[d] = "leaving" /\ Becomes(d, "dead", None) /\ UNCHANGED trouble

Crash(d) == Alive(d) /\ window = "open" /\ Becomes(d, "dead", IF lock = d THEN None ELSE lock) /\ Trouble

-----------------------------------------------------------------------------
(* A thread that starts the daemon (restart_daemon_for_gui).               *)

OnlyStart(t, record) ==
  /\ start' = [start EXCEPT ![t] = record]
  /\ UNCHANGED <<taken, board, window>>
At(t, pc) == start[t].pc = pc /\ window # "exited"

\* /api/shutdown reaches the daemon that has told its identity
ShutDown(ds) == daemon' = [d \in Daemons |-> IF d \in ds THEN "leaving" ELSE daemon[d]] /\ UNCHANGED lock

AskFirst(t) ==
  /\ At(t, "ask") /\ ShutDown(Serving)
  /\ OnlyStart(t, [start[t] EXCEPT !.pc = "metadata", !.targets = Serving])
  /\ UNCHANGED <<hold, ready, trouble>>

\* read_active_daemon_metadata names the holder of the lock
ReadMetadata(t) ==
  /\ At(t, "metadata")
  /\ OnlyStart(t, [start[t] EXCEPT !.pc = "grace", !.targets = @ \cup ({lock} \ {None})])
  /\ UNCHANGED <<daemon, lock, hold, ready, trouble>>

\* wait_for_daemon_stopped
Stopped(t) == PortFree /\ \A d \in start[t].targets : ~Alive(d)
Waiting(t) == window # "exited" /\ start[t].pc \in {"grace", "term", "kill"}

StopSeen(t) ==
  /\ Waiting(t) /\ Stopped(t)
  /\ OnlyStart(t, [start[t] EXCEPT !.pc = "spawn", !.targets = {}])
  /\ UNCHANGED <<daemon, lock, hold, ready, trouble>>

Failed(t) == [start[t] EXCEPT !.pc = "reported", !.targets = {}]

\* the time is over: nothing is about to leave, or it does not leave in time
TimeOver(ds) ==
  IF \E d \in ds : daemon[d] = "leaving" THEN Trouble ELSE UNCHANGED trouble

\* stop_existing_daemon behind the first wait: a foreign owner of the port is
\* left alone, a codexhub is terminated, and then killed
ForceStop(t) ==
  LET targets == start[t].targets \cup Serving IN
  /\ At(t, "grace") /\ ~Stopped(t) /\ TimeOver(targets)
  /\ IF targets = {}
     THEN OnlyStart(t, Failed(t)) /\ UNCHANGED <<daemon, lock>>
     ELSE Without(targets) /\ OnlyStart(t, [start[t] EXCEPT !.pc = "term", !.targets = targets])
  /\ UNCHANGED <<hold, ready>>

ForceAgain(t) ==
  /\ At(t, "term") /\ ~Stopped(t) /\ Without(start[t].targets)
  /\ OnlyStart(t, [start[t] EXCEPT !.pc = "kill"])
  /\ UNCHANGED <<hold, ready, trouble>>

StopFails(t) ==
  /\ At(t, "kill") /\ ~Stopped(t) /\ OnlyStart(t, Failed(t))
  /\ UNCHANGED <<daemon, lock, hold, ready, trouble>>

\* a number is used again when nobody refers to it
Free == {d \in Slots : /\ ~Alive(d) /\ d \notin {hold.pending, hold.managed}
                       /\ \A t \in Starts : d # start[t].child /\ d \notin start[t].targets}

Spawn(t) ==
  /\ At(t, "spawn") /\ Free # {}
  /\ LET d == Min(Free) IN
       /\ daemon' = [daemon EXCEPT ![d] = "starting"]
       /\ OnlyStart(t, [start[t] EXCEPT !.pc = "wait", !.child = d])
       /\ ready' = ready \ {d}
  /\ UNCHANGED <<lock, hold, trouble>>

ChildExited(t) ==
  /\ At(t, "wait") /\ ~Alive(start[t].child)
  /\ OnlyStart(t, [Failed(t) EXCEPT !.child = None])
  /\ UNCHANGED <<daemon, lock, hold, ready, trouble>>

\* the identity that answers is the child's
ChildReady(t) ==
  /\ At(t, "wait") /\ daemon[start[t].child] = "serves"
  /\ OnlyStart(t, [start[t] EXCEPT !.pc = "hand over"])
  /\ ready' = IF window = "open" THEN ready \cup {start[t].child} ELSE ready
  /\ UNCHANGED <<daemon, lock, hold, trouble>>

\* ten seconds are over
StartTimeout(t) ==
  /\ At(t, "wait") /\ Trouble /\ Without({start[t].child})
  /\ OnlyStart(t, [Failed(t) EXCEPT !.child = None])
  /\ UNCHANGED <<hold, ready>>

\* under the lock of pending_startup_child; a child that waited there is
\* dropped, which leaves its process alone
HandOver(t) ==
  /\ At(t, "hand over")
  /\ OnlyStart(t, [start[t] EXCEPT !.pc = "reported", !.child = None, !.ok = TRUE])
  /\ IF window # "open" THEN Without({start[t].child}) /\ UNCHANGED hold
     ELSE hold' = [hold EXCEPT !.pending = start[t].child] /\ UNCHANGED <<daemon, lock>>
  /\ UNCHANGED <<ready, trouble>>

StartStep(t) ==
  \/ AskFirst(t) \/ ReadMetadata(t) \/ StopSeen(t) \/ ForceStop(t) \/ ForceAgain(t)
  \/ StopFails(t) \/ Spawn(t) \/ ChildExited(t) \/ ChildReady(t) \/ StartTimeout(t) \/ HandOver(t)

-----------------------------------------------------------------------------
(* The window's own thread: timers, idle events, quitting.                 *)

\* A poll counts only if no start began or ended and no other poll was forced
\* while it was under way: its generation is checked when it stores what it saw
\* and when that is shown.  So only polls of the present generation are told
\* apart.
Outdated(b) == [b EXCEPT !.seen = "nothing"]

\* seeded fault: only a start that succeeded takes the mark away
MarkedStill(t) == board.starting /\ ~start[t].ok
\* daemon_starting once the tick has found the result of a start
StillStarting(t) == FALSE

\* the tick that finds the result; on_close has stopped the timers
Tick(t) ==
  /\ window = "open" /\ start[t].pc = "reported"
  /\ start' = [start EXCEPT ![t] = NoStart]
  /\ board' = [Outdated(board) EXCEPT !.starting = StillStarting(t)]
  /\ IF start[t].ok /\ hold.pending # None
     THEN Without({hold.managed}) /\ hold' = [pending |-> None, managed |-> hold.pending]
     ELSE UNCHANGED <<hold, daemon, lock>>
  /\ UNCHANGED <<taken, window, ready, trouble>>

\* GUI_STARTUP_WATCHDOG_TIMEOUT: the thread goes on
Watchdog(t) ==
  /\ window = "open" /\ start[t].pc \notin {"idle", "reported"} /\ ~start[t].warned /\ Trouble
  /\ start' = [start EXCEPT ![t].warned = TRUE]
  /\ board' = [Outdated(board) EXCEPT !.starting = FALSE]
  /\ UNCHANGED <<daemon, lock, taken, hold, window, ready>>

Dashboard == UNCHANGED <<daemon, lock, taken, hold, window, ready>>

\* spawn_dashboard_refresh: a poll finds the service up, or down, or gets no
\* answer in time
Poll ==
  /\ window = "open" /\ board.seen = "nothing"
  /\ \E seen \in {"up", "down"} :
       /\ board' = [board EXCEPT !.seen = seen]
       /\ IF seen = "up" THEN Serving # {} /\ UNCHANGED trouble
          ELSE IF Serving = {} THEN UNCHANGED trouble ELSE Trouble
  /\ Dashboard /\ UNCHANGED start

\* start_daemon_for_gui_async
BeginStart ==
  \E t \in Starts :
    /\ start[t].pc = "idle" /\ \A u \in Starts : u < t => start[u].pc # "idle"
    /\ start' = [start EXCEPT ![t] = Begun]

\* apply_pending_dashboard
BoardShows == [board EXCEPT !.seen = "nothing"]
Fine == board.seen = "up" /\ board' = [BoardShows EXCEPT !.failures = 0] /\ UNCHANGED start
Ignored == board.seen = "down" /\ board.starting /\ board' = BoardShows /\ UNCHANGED start

\* maybe_restart_unhealthy_daemon
Failures == Min({board.failures + 1, Threshold})
Counted ==
  /\ board.seen = "down" /\ ~board.starting
  /\ IF Failures < Threshold \/ board.cooling
     THEN board' = [BoardShows EXCEPT !.failures = Failures] /\ UNCHANGED start
     ELSE board' = [BoardShows EXCEPT !.failures = 0, !.cooling = TRUE, !.starting = TRUE] /\ BeginStart

Apply == window = "open" /\ (Fine \/ Ignored \/ Counted) /\ Dashboard /\ UNCHANGED trouble

\* DAEMON_AUTO_RESTART_COOLDOWN_MS are over: a minute, and no start takes that
\* long, with every wait and poll of restart_daemon_for_gui run out
CooledDown ==
  /\ board.cooling /\ \A t \in Starts : start[t].pc = "idle"
  /\ board' = [board EXCEPT !.cooling = FALSE]
  /\ Dashboard /\ UNCHANGED <<start, trouble>>

Quitting(from, to) ==
  window = from /\ window' = to /\ UNCHANGED <<taken, start, board, ready, trouble>>

Close == Quitting("open", "closing") /\ UNCHANGED <<daemon, lock, hold>>

\* stop_pending_startup_daemon
StopPending ==
  /\ Quitting("closing", "emptied") /\ Without({hold.pending})
  /\ hold' = [hold EXCEPT !.pending = None]

\* seeded fault: on exit only the window's own child is stopped
AsksNobody == Quitting("emptied", "asked") /\ UNCHANGED <<daemon, lock, hold>>
\* stop_daemon_on_exit
AskToStop == Quitting("emptied", "asked") /\ ShutDown(Serving) /\ UNCHANGED hold
Exit == Quitting("asked", "exited") /\ Without({hold.managed}) /\ UNCHANGED hold

-----------------------------------------------------------------------------
SupervisionInit ==
  /\ daemon \in {[d \in Daemons |-> IF d = Other THEN state ELSE "none"] : state \in {"none", "serves"}}
  /\ lock = IF daemon[Other] = "serves" THEN Other ELSE None
  /\ taken \in (IF daemon[Other] = "serves" THEN {FALSE} ELSE BOOLEAN)
  /\ start = [t \in Starts |-> IF t = Min(Starts) THEN Begun ELSE NoStart]
  /\ board = [starting |-> TRUE, failures |-> 0, cooling |-> FALSE, seen |-> "nothing"]
  /\ hold = [pending |-> None, managed |-> None]
  /\ window = "open" /\ ready = {} /\ trouble = 0

DaemonStep(d) == Acquire(d) \/ Listen(d) \/ Leave(d)
WindowStep == \/ \E t \in Starts : Tick(t)
              \/ Poll \/ Apply \/ CooledDown
Quit == Close \/ StopPending \/ AskToStop \/ Exit

SupervisionNext ==
  \/ \E d \in Daemons : DaemonStep(d) \/ Crash(d)
  \/ \E t \in Starts : StartStep(t) \/ Watchdog(t)
  \/ WindowStep \/ Quit

-----------------------------------------------------------------------------
\* A daemon that answered the thread that started it before the user quit does
\* not outlive the program, whoever has its process by then: the thread, the
\* slot between the two, the window, or nobody since another start took the
\* slot.
ReadyIsStopped ==
  window = "exited" => \A d \in ready : daemon[d] # "serves"

\* The same of the time before; two starts that overlap break it, since the
\* slower one puts its process into the slot of the other's.
ReadyIsHeld ==
  \A d \in ready : window = "open" /\ daemon[d] = "serves" =>
    d \in {hold.pending, hold.managed} \cup {start[t].child : t \in Starts}

\* Once nothing goes wrong any more the service comes up and stays up, whoever
\* ran before and however many starts got in each other's way; only a program
\* that keeps the port prevents it.
ServiceComesBack ==
  (~taken) => <>[](Serving # {} \/ window # "open")

\* README.en.md, line 57: the program "stops the backend it started when the
\* GUI exits".
QuitStopsTheBackend ==
  window = "exited" => \A d \in Slots : daemon[d] \notin {"starting", "holds", "serves"}

\* threads run, daemons come up and go, timers tick
SupervisionFairness ==
  /\ \A d \in Daemons : WF_supervisionVars(DaemonStep(d))
  /\ \A t \in Starts : WF_supervisionVars(StartStep(t)) /\ WF_supervisionVars(Tick(t))
  /\ WF_supervisionVars(Poll) /\ WF_supervisionVars(Apply) /\ WF_supervisionVars(CooledDown)

SupervisionSpec == SupervisionInit /\ [][SupervisionNext]_supervisionVars /\ SupervisionFairness
=============================================================================
