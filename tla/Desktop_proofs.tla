----------------------------- MODULE Desktop_proofs -----------------------------
(***************************************************************************)
(* Proofs about the desktop program, for any number of daemons, starts,    *)
(* troubles, lists of models and moves: what it takes the daemon and the   *)
(* App for lasts.                                                          *)
(***************************************************************************)
EXTENDS Supervision, EnhancedApp, WellFoundedInduction, TLAPS

-----------------------------------------------------------------------------
(***************************************************************************)
(* The daemons and the program that starts and stops them (Supervision).   *)
(***************************************************************************)

States == {"none", "starting", "holds", "serves", "leaving", "dead"}
Kept == {None} \cup Daemons
Threads == [pc : {"idle", "ask", "metadata", "grace", "term", "kill", "spawn", "wait", "hand over", "reported"},
            targets : SUBSET Daemons, child : Kept, ok : BOOLEAN, warned : BOOLEAN]

HoldTypes ==
  /\ daemon \in [Daemons -> States]
  /\ start \in [Starts -> Threads]
  /\ \A t \in Starts : start[t].pc \in {"wait", "hand over"} => start[t].child \in Daemons
  /\ lock \in Kept /\ hold \in [pending : Kept, managed : Kept]
  /\ window \in {"open", "closing", "emptied", "asked", "exited"}

\* a daemon that answered in time serves, or has begun to leave and will not come back
ReadyAnswered ==
  \A d \in ready : d \in Daemons /\ daemon[d] \in {"serves", "leaving", "dead"}

\* the program has asked all of them to stop
AskedAll == window \in {"asked", "exited"} => \A d \in ready : daemon[d] # "serves"

HoldInv == HoldTypes /\ ReadyAnswered /\ AskedAll

LEMMA DaemonNumbers ==
  /\ Slots \subseteq Daemons /\ None \notin Daemons /\ Other \in Daemons
  /\ Kept \subseteq Nat
BY SupervisionAssumption DEF Daemons, None, Other, Kept

\* the least of some numbers is one of them
LEMMA MinIsMember ==
  ASSUME NEW S \in SUBSET Nat, S # {}
  PROVE  Min(S) \in S
<1>1. PICK n \in S : \A m \in S : ~(<<m, n>> \in OpToRel(<, Nat))
  BY NatLessThanWellFounded, WFMin
<1>2. ASSUME NEW m \in S PROVE n =< m
  <2>1. ~(<<m, n>> \in OpToRel(<, Nat)) /\ <<m, n>> \in Nat \X Nat
    BY <1>1
  <2>2. ~(m < n)
    BY <2>1 DEF OpToRel
  <2> QED BY <2>2
<1> QED BY <1>2 DEF Min

LEMMA FreeNumber ==
  ASSUME Free # {}
  PROVE  Min(Free) \in Slots /\ Min(Free) \in Daemons
BY MinIsMember, SupervisionAssumption, DaemonNumbers DEF Free

\* the daemons of a set that are killed, or are asked to leave
LEMMA WithoutKeeps ==
  ASSUME HoldInv, NEW ds, Without(ds)
  PROVE  /\ daemon' \in [Daemons -> States] /\ lock' \in Kept
         /\ \A d \in Daemons : daemon'[d] = daemon[d] \/ daemon'[d] = "dead"
BY DEF HoldInv, HoldTypes, Without, States, Kept

LEMMA ShutDownKeeps ==
  ASSUME HoldInv, ShutDown(Serving)
  PROVE  /\ daemon' \in [Daemons -> States] /\ lock' \in Kept
         /\ \A d \in Daemons : daemon[d] # "serves" => daemon'[d] = daemon[d]
         /\ \A d \in Daemons : daemon[d] = "serves" => daemon'[d] = "leaving"
BY DEF HoldInv, HoldTypes, ShutDown, Serving, States, Kept

LEMMA DaemonKeeps ==
  ASSUME HoldInv, NEW d \in Daemons, DaemonStep(d) \/ Crash(d)
  PROVE  HoldInv'
<1> USE DEF HoldInv, HoldTypes, ReadyAnswered, AskedAll, Becomes, States, Kept
<1>1. CASE Acquire(d)
  BY <1>1 DEF Acquire
<1>2. CASE Listen(d)
  BY <1>2 DEF Listen
<1>3. CASE Leave(d)
  BY <1>3 DEF Leave
<1>4. CASE Crash(d)
  BY <1>4 DEF Crash
<1> QED BY <1>1, <1>2, <1>3, <1>4 DEF DaemonStep

\* a thread's step that leaves the daemons alone, or asks or kills some
LEMMA ThreadKeeps ==
  ASSUME HoldInv, NEW t \in Starts,
         NEW r \in Threads,
         r.pc \in {"wait", "hand over"} => r.child \in Daemons,
         OnlyStart(t, r), UNCHANGED ready, hold' \in [pending : Kept, managed : Kept],
         daemon' \in [Daemons -> States], lock' \in Kept,
         \A d \in Daemons : \/ daemon'[d] = daemon[d]
                            \/ daemon'[d] = "dead"
                            \/ daemon[d] = "serves" /\ daemon'[d] = "leaving"
  PROVE  HoldInv'
<1>1. HoldTypes'
  BY DEF HoldInv, HoldTypes, OnlyStart
<1>2. ReadyAnswered'
  BY DEF HoldInv, ReadyAnswered
<1>3. AskedAll'
  BY DEF HoldInv, ReadyAnswered, AskedAll, OnlyStart
<1> QED BY <1>1, <1>2, <1>3 DEF HoldInv

\* what a step makes of the record of a thread
LEMMA ThreadMoves ==
  ASSUME NEW r \in Threads,
         NEW pc \in {"metadata", "grace", "term", "kill", "spawn", "hand over", "reported"}
  PROVE  LET q == [r EXCEPT !.pc = pc] IN q \in Threads /\ q.pc = pc /\ q.child = r.child
BY DEF Threads

LEMMA ThreadTargets ==
  ASSUME NEW r \in Threads, NEW ds \in SUBSET Daemons,
         NEW pc \in {"metadata", "grace", "term", "kill", "spawn", "hand over", "reported"}
  PROVE  LET q == [r EXCEPT !.pc = pc, !.targets = ds] IN q \in Threads /\ q.pc = pc
BY DEF Threads

LEMMA ThreadChild ==
  ASSUME NEW r \in Threads, NEW c \in Kept
  PROVE  /\ LET q == [r EXCEPT !.pc = "wait", !.child = c] IN q \in Threads /\ q.child = c
         /\ LET q == [r EXCEPT !.child = c] IN q \in Threads /\ q.pc = r.pc
         /\ LET q == [r EXCEPT !.pc = "reported", !.child = c, !.ok = TRUE] IN q \in Threads /\ q.pc = "reported"
BY DEF Threads

LEMMA StartKeeps ==
  ASSUME HoldInv, NEW t \in Starts, StartStep(t)
  PROVE  HoldInv'
<1>r. start[t] \in Threads
  BY DEF HoldInv, HoldTypes
<1>n. None \in Kept /\ Daemons \subseteq Kept /\ Kept \ {None} = Daemons
  BY DaemonNumbers DEF Kept
<1>0. /\ lock \in Kept /\ daemon \in [Daemons -> States]
      /\ hold \in [pending : Kept, managed : Kept]
  BY DEF HoldInv, HoldTypes
<1>a. Failed(t) \in Threads /\ Failed(t).pc = "reported"
  BY <1>r, ThreadTargets DEF Failed
<1>1. CASE AskFirst(t)
  <2>1. [start[t] EXCEPT !.pc = "metadata", !.targets = Serving] \in Threads
    BY <1>r, ThreadTargets DEF Serving
  <2>2. [start[t] EXCEPT !.pc = "metadata", !.targets = Serving].pc = "metadata"
    BY <1>r DEF Threads
  <2> QED BY <1>0, <1>1, <2>1, <2>2, ShutDownKeeps, ThreadKeeps DEF AskFirst
<1>2. CASE ReadMetadata(t)
  <2>1. [start[t] EXCEPT !.pc = "grace", !.targets = @ \cup ({lock} \ {None})]
          = [start[t] EXCEPT !.pc = "grace", !.targets = start[t].targets \cup ({lock} \ {None})]
    BY <1>r DEF Threads
  <2>2. start[t].targets \cup ({lock} \ {None}) \in SUBSET Daemons
    BY <1>0, <1>n, <1>r DEF Threads
  <2> DEFINE r == [start[t] EXCEPT !.pc = "grace", !.targets = start[t].targets \cup ({lock} \ {None})]
  <2>3. r \in Threads /\ r.pc = "grace"
    BY <1>r, <2>2, ThreadTargets
  <2>4. OnlyStart(t, r) /\ UNCHANGED <<daemon, lock, hold, ready>>
    BY <1>2, <2>1 DEF ReadMetadata
  <2> HIDE DEF r
  <2> QED BY <1>0, <2>3, <2>4, ThreadKeeps
<1>3. CASE StopSeen(t)
  <2> DEFINE r == [start[t] EXCEPT !.pc = "spawn", !.targets = {}]
  <2>1. r \in Threads /\ r.pc = "spawn"
    BY <1>r, ThreadTargets
  <2>2. OnlyStart(t, r) /\ UNCHANGED <<daemon, lock, hold, ready>>
    BY <1>3 DEF StopSeen
  <2> HIDE DEF r
  <2> QED BY <1>0, <2>1, <2>2, ThreadKeeps
<1>4. CASE ForceStop(t)
  <2> DEFINE targets == start[t].targets \cup Serving
  <2>1. targets \in SUBSET Daemons
    BY <1>r DEF Serving, Threads
  <2>2. CASE OnlyStart(t, Failed(t)) /\ UNCHANGED <<daemon, lock>>
    BY <1>0, <1>a, <1>4, <2>2, ThreadKeeps DEF ForceStop
  <2>3. CASE Without(targets) /\ OnlyStart(t, [start[t] EXCEPT !.pc = "term", !.targets = targets])
    <3> DEFINE r == [start[t] EXCEPT !.pc = "term", !.targets = targets]
    <3>1. r \in Threads /\ r.pc = "term"
      BY <1>r, <2>1, ThreadTargets
    <3>2. OnlyStart(t, r) /\ Without(targets) /\ UNCHANGED <<hold, ready>>
      BY <1>4, <2>3 DEF ForceStop
    <3> HIDE DEF r, targets
    <3> QED BY <1>0, <3>1, <3>2, WithoutKeeps, ThreadKeeps
  <2> QED BY <1>4, <2>2, <2>3 DEF ForceStop
<1>5. CASE ForceAgain(t)
  <2> DEFINE r == [start[t] EXCEPT !.pc = "kill"]
  <2>1. r \in Threads /\ r.pc = "kill"
    BY <1>r, ThreadMoves
  <2>2. OnlyStart(t, r) /\ Without(start[t].targets) /\ UNCHANGED <<hold, ready>>
    BY <1>5 DEF ForceAgain
  <2> HIDE DEF r
  <2> QED BY <1>0, <2>1, <2>2, WithoutKeeps, ThreadKeeps
<1>6. CASE StopFails(t)
  BY <1>0, <1>a, <1>6, ThreadKeeps DEF StopFails
<1>7. CASE Spawn(t)
  <2> DEFINE d == Min(Free)
             r == [start[t] EXCEPT !.pc = "wait", !.child = d]
  <2>1. d \in Daemons /\ r \in Threads /\ r.child = d
    BY <1>r, <1>n, <1>7, FreeNumber, ThreadChild DEF Spawn
  <2>2. /\ daemon' = [daemon EXCEPT ![d] = "starting"] /\ start' = [start EXCEPT ![t] = r]
        /\ ready' = ready \ {d} /\ UNCHANGED <<lock, hold, window>>
    BY <1>7 DEF Spawn, OnlyStart
  <2> HIDE DEF d, r
  <2> QED BY <2>1, <2>2 DEF HoldInv, HoldTypes, ReadyAnswered, AskedAll, States
<1>8. CASE ChildExited(t)
  <2>1. [Failed(t) EXCEPT !.child = None] \in Threads /\ [Failed(t) EXCEPT !.child = None].pc = "reported"
    BY <1>n, <1>a, ThreadChild
  <2> QED BY <1>0, <1>8, <2>1, ThreadKeeps DEF ChildExited
<1>9. CASE ChildReady(t)
  <2> DEFINE r == [start[t] EXCEPT !.pc = "hand over"]
  <2>1. r \in Threads /\ r.child = start[t].child /\ start[t].child \in Daemons
    <3>1. start[t].pc = "wait"
      BY <1>9 DEF ChildReady, At
    <3> QED BY <1>r, <3>1, ThreadMoves DEF HoldInv, HoldTypes
  <2>2. /\ start' = [start EXCEPT ![t] = r] /\ daemon[start[t].child] = "serves"
        /\ ready' = IF window = "open" THEN ready \cup {start[t].child} ELSE ready
        /\ UNCHANGED <<daemon, lock, hold, window>>
    BY <1>9 DEF ChildReady, OnlyStart
  <2> HIDE DEF r
  <2> QED BY <2>1, <2>2 DEF HoldInv, HoldTypes, ReadyAnswered, AskedAll
<1>10. CASE HandOver(t)
  <2> DEFINE r == [start[t] EXCEPT !.pc = "reported", !.child = None, !.ok = TRUE]
  <2>1. r \in Threads /\ r.pc = "reported" /\ start[t].child \in Kept
    <3>1. start[t].child \in Kept
      BY <1>r DEF Threads
    <3> QED BY <1>r, <1>n, <3>1, ThreadChild
  <2>2. CASE Without({start[t].child}) /\ UNCHANGED hold
    BY <1>0, <1>10, <2>1, <2>2, WithoutKeeps, ThreadKeeps DEF HandOver
  <2>3. CASE hold' = [hold EXCEPT !.pending = start[t].child] /\ UNCHANGED <<daemon, lock>>
    BY <1>0, <1>10, <2>1, <2>3, ThreadKeeps DEF HandOver
  <2> QED BY <1>10, <2>2, <2>3 DEF HandOver
<1>11. CASE StartTimeout(t)
  <2> DEFINE r == [Failed(t) EXCEPT !.child = None]
  <2>1. r \in Threads /\ r.pc = "reported"
    BY <1>n, <1>a, ThreadChild
  <2>2. OnlyStart(t, r) /\ Without({start[t].child}) /\ UNCHANGED <<hold, ready>>
    BY <1>11 DEF StartTimeout
  <2> HIDE DEF r
  <2> QED BY <1>0, <2>1, <2>2, WithoutKeeps, ThreadKeeps
<1> QED BY <1>1, <1>2, <1>3, <1>4, <1>5, <1>6, <1>7, <1>8, <1>9, <1>10, <1>11 DEF StartStep

LEMMA WindowKeeps ==
  ASSUME HoldInv, WindowStep \/ (\E t \in Starts : Watchdog(t))
  PROVE  HoldInv'
<1>0. NoStart \in Threads /\ NoStart.pc = "idle" /\ Begun \in Threads /\ Begun.pc = "ask"
  BY DEF NoStart, Begun, Kept, Threads
<1>1. ASSUME NEW t \in Starts, Tick(t)
      PROVE  HoldInv'
  <2>1. start' = [start EXCEPT ![t] = NoStart] /\ UNCHANGED <<taken, window, ready>>
    BY <1>1 DEF Tick
  <2>2. daemon' \in [Daemons -> States] /\ lock' \in Kept
        /\ (\A d \in Daemons : daemon'[d] = daemon[d] \/ daemon'[d] = "dead")
        /\ hold' \in [pending : Kept, managed : Kept]
    <3>1. CASE Without({hold.managed}) /\ hold' = [pending |-> None, managed |-> hold.pending]
      BY <3>1, WithoutKeeps DEF HoldInv, HoldTypes, Kept
    <3>2. CASE UNCHANGED <<hold, daemon, lock>>
      BY <3>2 DEF HoldInv, HoldTypes
    <3> QED BY <1>1, <3>1, <3>2 DEF Tick
  <2> QED BY <1>0, <2>1, <2>2 DEF HoldInv, HoldTypes, ReadyAnswered, AskedAll
<1>2. ASSUME start' = start \/ BeginStart, Dashboard
      PROVE  HoldInv'
  <2>1. start' \in [Starts -> Threads]
        /\ \A t \in Starts : start'[t].pc \in {"wait", "hand over"} => start'[t].child \in Daemons
    BY <1>0, <1>2 DEF BeginStart, HoldInv, HoldTypes
  <2> QED BY <1>2, <2>1 DEF Dashboard, HoldInv, HoldTypes, ReadyAnswered, AskedAll
<1>3. CASE Poll
  BY <1>2, <1>3 DEF Poll
<1>4. CASE Apply
  BY <1>2, <1>4 DEF Apply, Fine, Ignored, Counted
<1>5. CASE CooledDown
  BY <1>2, <1>5 DEF CooledDown
<1>6. ASSUME NEW t \in Starts, Watchdog(t)
      PROVE  HoldInv'
  <2>1. [start[t] EXCEPT !.warned = TRUE] \in Threads
    BY DEF HoldInv, HoldTypes, Threads
  <2>2. start' = [start EXCEPT ![t] = [start[t] EXCEPT !.warned = TRUE]]
    BY <1>6 DEF Watchdog, HoldInv, HoldTypes
  <2>3. /\ [start[t] EXCEPT !.warned = TRUE].pc = start[t].pc
        /\ [start[t] EXCEPT !.warned = TRUE].child = start[t].child
    BY DEF HoldInv, HoldTypes, Threads
  <2> QED BY <1>6, <2>1, <2>2, <2>3 DEF Watchdog, HoldInv, HoldTypes, ReadyAnswered, AskedAll
<1> QED BY <1>1, <1>3, <1>4, <1>5, <1>6 DEF WindowStep

LEMMA QuitKeeps ==
  ASSUME HoldInv, Quit
  PROVE  HoldInv'
<1> USE DEF HoldInv, HoldTypes, ReadyAnswered, AskedAll, Quitting
<1>1. CASE Close
  BY <1>1 DEF Close
<1>2. CASE StopPending
  <2>1. hold' \in [pending : Kept, managed : Kept]
    BY <1>2 DEF StopPending, Kept
  <2> QED BY <1>2, <2>1, WithoutKeeps DEF StopPending
<1>3. CASE AskToStop
  BY <1>3, ShutDownKeeps DEF AskToStop
<1>4. CASE Exit
  BY <1>4, WithoutKeeps DEF Exit
<1> QED BY <1>1, <1>2, <1>3, <1>4 DEF Quit

(* A daemon that answered the thread that started it while the window was   *)
(* open does not outlive the program (gui.rs on_close, stop_daemon_on_exit *)
(* of gui/daemon.rs): whoever has its process when the user quits, a thread,*)
(* the slot between, the window or nobody, for any number of starts that    *)
(* overlap.                                                                 *)
THEOREM ReadyDaemonsAreStopped == SupervisionSpec => []ReadyIsStopped
<1>1. SupervisionInit => HoldInv
  <2> SUFFICES ASSUME SupervisionInit PROVE HoldInv
    OBVIOUS
  <2>1. daemon \in [Daemons -> States]
    BY DEF SupervisionInit, States
  <2>2. NoStart \in Threads
        /\ Begun \in Threads
        /\ NoStart.pc = "idle" /\ Begun.pc = "ask"
    BY DEF NoStart, Begun, Kept, Threads
  <2>3. lock \in Kept /\ hold \in [pending : Kept, managed : Kept]
    BY DaemonNumbers DEF SupervisionInit, Kept
  <2> QED BY <2>1, <2>2, <2>3 DEF SupervisionInit, HoldInv, HoldTypes, ReadyAnswered, AskedAll
<1>2. HoldInv /\ [SupervisionNext]_supervisionVars => HoldInv'
  <2> SUFFICES ASSUME HoldInv, [SupervisionNext]_supervisionVars PROVE HoldInv'
    OBVIOUS
  <2>1. CASE SupervisionNext
    BY <2>1, DaemonKeeps, StartKeeps, WindowKeeps, QuitKeeps DEF SupervisionNext
  <2>2. CASE UNCHANGED supervisionVars
    BY <2>2 DEF supervisionVars, HoldInv, HoldTypes, ReadyAnswered, AskedAll
  <2> QED BY <2>1, <2>2
<1>3. HoldInv => ReadyIsStopped
  BY DEF HoldInv, AskedAll, ReadyIsStopped
<1> QED BY <1>1, <1>2, <1>3, PTL DEF SupervisionSpec

(***************************************************************************)
(* The enhanced launch (EnhancedApp).                                      *)
(***************************************************************************)

Pages == [script : Nat, client : {"none", "loading", "ready"}, shows : Nat, hooked : BOOLEAN,
          listens : BOOLEAN, applied : BOOLEAN, tries : Nat, queued : BOOLEAN]
Launches == [at : {"rest", "check", "open", "evaluate", "register", "apply", "status"},
             models : Nat, socket : BOOLEAN]

EnhancedTypes ==
  /\ app \in [up : BOOLEAN, port : BOOLEAN] /\ page \in Pages /\ launch \in Launches
  /\ own \in Nat /\ kept \in Nat /\ reported \in Nat /\ visible \in Lists

\* the request under way, what its socket has registered and what is kept
LaunchSound ==
  /\ app.port => app.up
  /\ launch.at # "rest" => launch.models \in Lists
  /\ launch.at = "apply" /\ launch.socket => own = launch.models
  /\ launch.at = "status" /\ app.port => kept = launch.models /\ own = NoModels

\* the page shows what its script says or less, unless it was evaluated just now
ScriptShown(p) == p.shows \in {NoModels, Plain, p.script}
ShownIsScripted ==
  launch.at \in {"register", "apply", "status"} /\ app.port =>
    page.script = launch.models \/ ScriptShown(page)

ReportStands ==
  reported # NoModels =>
    /\ launch.at = "rest" /\ own = NoModels /\ app.up
    /\ kept = reported /\ page.script = reported

LaunchInv == EnhancedTypes /\ LaunchSound /\ ShownIsScripted /\ ReportStands

LEMMA DocumentType ==
  ASSUME NEW n \in Nat
  PROVE  /\ Document(n) \in Pages /\ Document(n).script = n /\ Document(n).client = "none"
         /\ ScriptShown(Document(n))
BY DEF Document, Pages, ScriptShown, NoModels

LEMMA ScriptedType ==
  ASSUME NEW p \in Pages, NEW n \in Nat
  PROVE  /\ Scripted(p, n) \in Pages /\ Scripted(p, n).script = n
         /\ Scripted(p, n).shows = p.shows
BY DEF Scripted, Pages, NoModels

\* a new document runs what is kept and what is registered, and shows nothing
LEMMA NewDocumentType ==
  ASSUME kept \in Nat, own \in Nat, NEW p \in NewDocuments
  PROVE  /\ p \in Pages /\ ScriptShown(p)
         /\ own = NoModels => p.script = kept
<1>1. /\ Document(NoModels) \in Pages /\ Document(NoModels).shows = NoModels
      /\ Document(NoModels).script = NoModels
  BY DEF Document, Pages, NoModels
<1>2. ASSUME NEW m \in Nat, NEW n \in Nat
      PROVE  LET q == ScriptedTwice(Document(NoModels), m, n) IN
             /\ q \in Pages /\ q.shows = NoModels
             /\ n # NoModels => q.script = n
             /\ n = NoModels => q.script = m
  BY <1>1, ScriptedType DEF ScriptedTwice
<1>3. CASE p = ScriptedTwice(Document(NoModels), kept, own)
  BY <1>2, <1>3 DEF ScriptShown
<1>4. CASE p = ScriptedTwice(Document(NoModels), own, kept)
  BY <1>2, <1>4 DEF ScriptShown
<1> QED BY <1>3, <1>4 DEF NewDocuments

\* what the page does by itself leaves its script alone
OnlyPage ==
  /\ page' \in Pages /\ page'.script = page.script
  /\ ScriptShown(page) => ScriptShown(page')
  /\ UNCHANGED <<app, launch, own, kept, visible, reported>>

LEMMA OnlyPageKeeps ==
  ASSUME LaunchInv, OnlyPage
  PROVE  LaunchInv'
BY DEF LaunchInv, OnlyPage, EnhancedTypes, LaunchSound, ShownIsScripted, ReportStands, ScriptShown

\* the client takes what the script says, or refuses
LEMMA AppliedPage ==
  ASSUME NEW p \in Pages
  PROVE  LET q == [p EXCEPT !.hooked = TRUE, !.shows = p.script, !.applied = TRUE]
             r == [p EXCEPT !.hooked = TRUE] IN
         /\ q \in Pages /\ q.script = p.script /\ ScriptShown(q)
         /\ r \in Pages /\ r.script = p.script /\ r.shows = p.shows
BY DEF Pages, ScriptShown

LEMMA QueuedPage ==
  ASSUME NEW p \in Pages, NEW b \in BOOLEAN
  PROVE  LET q == [p EXCEPT !.queued = b] IN q \in Pages /\ q.script = p.script /\ q.shows = p.shows
BY DEF Pages

LEMMA StoresPage ==
  ASSUME NEW p \in Pages, NEW values \in {Plain, p.script}, Stores(p, values)
  PROVE  page' \in Pages /\ page'.script = p.script /\ ScriptShown(page')
<1> DEFINE stored == [p EXCEPT !.shows = Patched(p, values)]
<1>1. stored \in Pages /\ stored.script = p.script /\ ScriptShown(stored)
  BY DEF Pages, ScriptShown, Patched, Plain
<1>2. CASE page' = stored
  BY <1>1, <1>2
<1>3. CASE page' = Appliable(stored)
  BY <1>1, <1>3, AppliedPage DEF Appliable
<1>4. CASE page' = [[stored EXCEPT !.hooked = TRUE] EXCEPT !.queued = TRUE]
  <2> DEFINE r == [stored EXCEPT !.hooked = TRUE]
  <2>1. r \in Pages /\ r.script = p.script /\ r.shows = stored.shows
    BY <1>1, AppliedPage
  <2> QED BY <1>1, <1>4, <2>1, QueuedPage DEF ScriptShown
<1> QED BY <1>2, <1>3, <1>4 DEF Stores, Applies

LEMMA AttachKeeps ==
  ASSUME LaunchInv, Attach
  PROVE  LaunchInv'
<1>1. page \in Pages /\ MaxTry \in Nat
  BY EnhancedAssumption DEF LaunchInv, EnhancedTypes
<1> DEFINE tried == [page EXCEPT !.tries = @ + 1, !.queued = FALSE]
           heard == [tried EXCEPT !.listens = TRUE]
<1>2. tried \in Pages /\ tried.script = page.script /\ tried.shows = page.shows
  <2> DEFINE q == [page EXCEPT !.tries = @ + 1]
  <2>1. page.tries + 1 \in Nat
    BY <1>1 DEF Pages
  <2>2. q \in Pages /\ q.script = page.script /\ q.shows = page.shows
    BY <1>1, <2>1 DEF Pages
  <2>3. tried = [q EXCEPT !.queued = FALSE]
    BY <1>1 DEF Pages
  <2> QED BY <2>2, <2>3, QueuedPage
<1>3. heard \in Pages /\ heard.script = page.script /\ heard.shows = page.shows
  BY <1>2 DEF Pages
<1>4. ASSUME NEW p \in Pages
      PROVE  Again(p) \in Pages /\ Again(p).script = p.script /\ Again(p).shows = p.shows
  <2>1. (p.tries < MaxTry) \in BOOLEAN
    BY <1>1 DEF Pages
  <2> QED BY <2>1, QueuedPage DEF Again
<1>5. page' \in Pages /\ page'.script = page.script /\ (ScriptShown(page) => ScriptShown(page'))
  <2>1. CASE page' = Again(tried)
    BY <1>2, <1>4, <2>1 DEF ScriptShown
  <2>2. CASE page' = Appliable(heard)
    BY <1>3, <2>2, AppliedPage DEF Appliable
  <2>3. CASE page' = Again([heard EXCEPT !.hooked = TRUE])
    <3> DEFINE r == [heard EXCEPT !.hooked = TRUE]
    <3>1. r \in Pages /\ r.script = page.script /\ r.shows = page.shows
      BY <1>3, AppliedPage
    <3> QED BY <1>4, <2>3, <3>1 DEF ScriptShown
  <2> QED BY <2>1, <2>2, <2>3 DEF Attach, Applies
<1>6. OnlyPage
  BY <1>5 DEF OnlyPage, Attach
<1> QED BY <1>6, OnlyPageKeeps

\* the script of a document, and a client that is created or loads
LEMMA PageKeeps ==
  ASSUME LaunchInv, ClientCreated \/ ClientLoads \/ ServiceAnswers
  PROVE  LaunchInv'
<1>1. page \in Pages
  BY DEF LaunchInv, EnhancedTypes
<1>2. CASE ClientCreated
  <2>1. /\ page' \in Pages /\ page'.script = page.script /\ page'.shows = page.shows
    BY <1>1, <1>2 DEF ClientCreated, Pages
  <2> QED BY <1>2, <2>1, OnlyPageKeeps DEF OnlyPage, ClientCreated, PageOnly, ScriptShown
<1>3. CASE ClientLoads
  <2> DEFINE p == [page EXCEPT !.client = "ready"]
  <2>1. p \in Pages /\ p.script = page.script
    BY <1>1 DEF Pages
  <2>2. PICK values \in FirstValues : Stores(p, values)
    BY <1>3 DEF ClientLoads
  <2>3. page' \in Pages /\ page'.script = page.script /\ ScriptShown(page')
    BY <2>1, <2>2, StoresPage DEF FirstValues
  <2> QED BY <1>3, <2>3, OnlyPageKeeps DEF OnlyPage, ClientLoads
<1>4. CASE ServiceAnswers
  <2>1. page' \in Pages /\ page'.script = page.script /\ ScriptShown(page')
    BY <1>1, <1>4, StoresPage DEF ServiceAnswers
  <2> QED BY <1>4, <2>1, OnlyPageKeeps DEF OnlyPage, ServiceAnswers
<1> QED BY <1>2, <1>3, <1>4

LEMMA AppKeeps ==
  ASSUME LaunchInv, Navigate \/ OpenPlain \/ QuitApp \/ SaveModels \/ DaemonRestarts
  PROVE  LaunchInv'
<1> USE DEF LaunchInv, EnhancedTypes, LaunchSound, ShownIsScripted, ReportStands
<1>0. /\ Document(NoModels) \in Pages /\ ScriptShown(Document(NoModels))
      /\ NoModels \in Nat
  BY DocumentType DEF NoModels
<1>1. CASE Navigate
  <2>1. page' \in Pages /\ ScriptShown(page') /\ (own = NoModels => page'.script = kept)
    BY <1>1, NewDocumentType DEF Navigate
  <2> QED BY <1>1, <2>1 DEF Navigate, ScriptShown
<1>2. CASE OpenPlain
  BY <1>0, <1>2 DEF OpenPlain, ScriptShown
<1>3. CASE QuitApp
  BY <1>0, <1>3 DEF QuitApp, Shut, Launches
<1>4. CASE SaveModels
  BY <1>4 DEF SaveModels, ScriptShown
<1>5. CASE DaemonRestarts
  BY <1>0, <1>5 DEF DaemonRestarts, AtRest, Launches
<1> QED BY <1>1, <1>2, <1>3, <1>4, <1>5

LEMMA LaunchKeeps ==
  ASSUME LaunchInv,
         BeginLaunch \/ Check \/ OpenEnhanced \/ Evaluate \/ Register \/ Retain \/ Succeed \/ LaunchFails
  PROVE  LaunchInv'
<1> USE DEF LaunchInv, EnhancedTypes, LaunchSound, ShownIsScripted, ReportStands
<1>0. /\ Document(NoModels) \in Pages /\ ScriptShown(Document(NoModels))
      /\ NoModels \in Nat /\ Lists \subseteq Nat /\ NoModels \notin Lists /\ Plain \notin Lists
  BY DocumentType, EnhancedAssumption DEF NoModels, Plain
<1>1. CASE BeginLaunch
  BY <1>0, <1>1 DEF BeginLaunch, AtRest, Launches, ScriptShown
<1>2. CASE Check
  BY <1>0, <1>2 DEF Check, Launches, ScriptShown
<1>3. CASE OpenEnhanced
  <2>1. launch' \in Launches /\ launch'.at = "evaluate" /\ launch'.models = launch.models
    BY <1>3 DEF OpenEnhanced, Launches
  <2>2. page' \in Pages /\ app' \in [up : BOOLEAN, port : BOOLEAN] /\ (app'.port => app'.up)
    <3>1. CASE app.up
      BY <1>3, <3>1 DEF OpenEnhanced
    <3>2. CASE ~app.up
      <4>1. app' = [up |-> TRUE, port |-> TRUE] /\ page' = Document(NoModels)
        BY <1>3, <3>2 DEF OpenEnhanced
      <4> QED BY <1>0, <4>1
    <3> QED BY <3>1, <3>2
  <2>3. reported = NoModels /\ UNCHANGED <<own, kept, visible, reported>>
    BY <1>3 DEF OpenEnhanced
  <2>4. EnhancedTypes'
    BY <2>1, <2>2, <2>3
  <2>5. LaunchSound' /\ ShownIsScripted'
    BY <1>3, <2>1, <2>2, <2>3 DEF OpenEnhanced
  <2>6. ReportStands'
    BY <2>3
  <2> QED BY <2>4, <2>5, <2>6
<1>4. CASE Evaluate
  <2>1. launch.models \in Nat
    BY <1>0, <1>4 DEF Evaluate
  <2>2. page' \in Pages /\ page'.script = launch.models
    BY <1>4, <2>1, ScriptedType DEF Evaluate
  <2> QED BY <1>0, <1>4, <2>2 DEF Evaluate, Launches
<1>5. CASE Register
  BY <1>0, <1>5 DEF Register, Registered, Launches, ScriptShown
<1>6. CASE Retain
  BY <1>0, <1>6 DEF Retain, Launches, ScriptShown
<1>7. CASE Succeed
  BY <1>0, <1>7 DEF Succeed, AtRest, Launches, ScriptShown
<1>8. CASE LaunchFails
  BY <1>0, <1>8 DEF LaunchFails, AtRest, Launches, ScriptShown
<1> QED BY <1>1, <1>2, <1>3, <1>4, <1>5, <1>6, <1>7, <1>8

(* A launch reported as done lasts: every document the App goes on to has   *)
(* the script with the models that were reported (codex_app_enhanced.rs,    *)
(* retain_cdp_session), whatever page, service, launches and failures do    *)
(* meanwhile.                                                               *)
THEOREM ReportsLast == EnhancedSpec => []ReportLasts
<1>1. EnhancedInit => LaunchInv
  <2> SUFFICES ASSUME EnhancedInit PROVE LaunchInv
    OBVIOUS
  <2>1. Document(NoModels) \in Pages /\ NoModels \in Nat
    BY DocumentType DEF NoModels
  <2>2. /\ app \in [up : BOOLEAN, port : BOOLEAN] /\ ~app.port
    <3>1. \/ app = [up |-> FALSE, port |-> FALSE]
          \/ app = [up |-> TRUE, port |-> FALSE]
      BY DEF EnhancedInit, Shut
    <3>2. CASE app = [up |-> FALSE, port |-> FALSE]
      BY <3>2
    <3>3. CASE app = [up |-> TRUE, port |-> FALSE]
      BY <3>3
    <3> QED BY <3>1, <3>2, <3>3
  <2>3. launch \in Launches /\ launch.at = "rest"
    BY <2>1 DEF EnhancedInit, AtRest, Launches
  <2> QED BY <2>1, <2>2, <2>3 DEF EnhancedInit, LaunchInv, EnhancedTypes, LaunchSound,
                                  ShownIsScripted, ReportStands
<1>2. LaunchInv /\ [EnhancedNext]_enhancedVars => LaunchInv'
  <2> SUFFICES ASSUME LaunchInv, [EnhancedNext]_enhancedVars PROVE LaunchInv'
    OBVIOUS
  <2>1. CASE EnhancedNext
    BY <2>1, AttachKeeps, PageKeeps, AppKeeps, LaunchKeeps DEF EnhancedNext
  <2>2. CASE UNCHANGED enhancedVars
    BY <2>2 DEF enhancedVars, LaunchInv, EnhancedTypes, LaunchSound, ShownIsScripted,
                ReportStands, ScriptShown
  <2> QED BY <2>1, <2>2
<1>3. LaunchInv => ReportLasts
  BY DEF LaunchInv, ReportStands, ReportLasts
<1> QED BY <1>1, <1>2, <1>3, PTL DEF EnhancedSpec
=============================================================================
