------------------------------ MODULE EnhancedApp ------------------------------
(***************************************************************************)
(* The enhanced launch of the Codex App: codex_app_enhanced.rs, its request *)
(* in web/codex_app.rs, the launch button of gui/codex_tab.rs, and the      *)
(* script that is put into the App's page over its debugging port.          *)
(* The App is an Electron program with one page; it asks a feature service  *)
(* ("Statsig") which models to show.  The script makes the answers name the *)
(* models of the configuration.  It is evaluated in the present document,   *)
(* and registered for later ones; the registration lives as long as the     *)
(* socket that made it, which a successful launch therefore keeps.          *)
(* A list of models is a number; Plain stands for what the service itself   *)
(* answers, and NoModels for no list.                                       *)
(***************************************************************************)
EXTENDS Naturals

CONSTANTS
  Lists,        \* lists of visible models
  MaxTry,       \* tries of the script before it gives up (300 in the code)
  MaxRefusal,   \* bound: updates the page's client refuses
  MaxMove       \* bound: launches, navigations, answers of the service, exits

ASSUME EnhancedAssumption ==
  Lists \subseteq Nat /\ 0 \notin Lists /\ 1 \notin Lists /\ {MaxTry, MaxRefusal, MaxMove} \subseteq Nat

VARIABLES
  app,        \* the App runs; its debugging port is open
  page,       \* the document it shows
  launch,     \* the request under way: where it is, its models, its socket
  own, kept,  \* what the launch's socket and the retained one have registered
  visible,    \* ai_gateway.codex_visible_models
  reported,   \* history: the models of the last launch, if it succeeded and still stands
  moves, refusals

enhancedVars == <<app, page, launch, own, kept, visible, reported, moves, refusals>>

NoModels == 0
Plain == 1
Shut == [up |-> FALSE, port |-> FALSE]

\* hooked: the client's store is patched; listens: the script hears of new values
Document(script) ==
  [script |-> script, client |-> "none", shows |-> NoModels, hooked |-> FALSE,
   listens |-> FALSE, applied |-> FALSE, tries |-> 0, queued |-> script # NoModels]

AtRest == [at |-> "rest", models |-> NoModels, socket |-> FALSE]

Moves == moves < MaxMove /\ moves' = moves + 1
PageOnly == UNCHANGED <<app, launch, own, kept, visible, reported, moves, refusals>>

EnhancedInit ==
  /\ app \in {Shut, [up |-> TRUE, port |-> FALSE]} /\ page = Document(NoModels)
  /\ launch = AtRest /\ own = NoModels /\ kept = NoModels
  /\ visible \in Lists /\ reported = NoModels /\ moves = 0 /\ refusals = 0

-----------------------------------------------------------------------------
\* The page.

\* in a document that has it the script only takes the new list
Scripted(p, models) ==
  IF p.script = NoModels
  THEN [p EXCEPT !.script = models, !.hooked = p.client # "none", !.queued = TRUE]
  ELSE [p EXCEPT !.script = models, !.applied = FALSE, !.tries = 0, !.queued = TRUE]

ScriptedTwice(p, first, second) ==
  LET one == IF first = NoModels THEN p ELSE Scripted(p, first)
  IN IF second = NoModels THEN one ELSE Scripted(one, second)

NewDocuments == {ScriptedTwice(Document(NoModels), kept, own), ScriptedTwice(Document(NoModels), own, kept)}

\* what values become when the client stores them
Unpatched(p, values) == values
Patched(p, values) == IF p.hooked THEN p.script ELSE values

\* the global of the service may not be one the script can watch
ClientCreated ==
  /\ app.up /\ page.client = "none"
  /\ \E hooked \in {page.script # NoModels, FALSE} :
       page' = [page EXCEPT !.client = "loading", !.hooked = hooked]
  /\ PageOnly

\* applyClient; the client may refuse to store
Appliable(p) == [p EXCEPT !.hooked = TRUE, !.shows = p.script, !.applied = TRUE]
Applies(p, Then(_), Else(_)) ==
  \/ page' = Then(Appliable(p)) /\ UNCHANGED refusals
  \/ refusals < MaxRefusal /\ refusals' = refusals + 1 /\ page' = Else([p EXCEPT !.hooked = TRUE])

Again(p) == [p EXCEPT !.queued = p.tries < MaxTry]

Attach ==
  /\ app.up /\ page.queued
  /\ LET tried == [page EXCEPT !.tries = @ + 1, !.queued = FALSE]
     IN \/ page.client = "none" /\ page' = Again(tried) /\ UNCHANGED refusals
        \/ /\ page.client # "none"
           /\ Applies([tried EXCEPT !.listens = TRUE], LAMBDA p : p, Again)
  /\ UNCHANGED <<app, launch, own, kept, visible, reported, moves>>

\* the client stores values and tells its listeners ("values_updated")
Stores(p, values) ==
  LET stored == [p EXCEPT !.shows = Patched(p, values)]
  IN IF p.listens
     THEN Applies(stored, LAMBDA q : q, LAMBDA q : [q EXCEPT !.queued = TRUE])
     ELSE page' = stored /\ UNCHANGED refusals

\* from the cache, the bootstrap request or the network; the script answers
\* the first two itself
FirstValues == {Plain, page.script} \ {NoModels}

ClientLoads ==
  /\ app.up /\ page.client = "loading"
  /\ \E values \in FirstValues : Stores([page EXCEPT !.client = "ready"], values)
  /\ UNCHANGED <<app, launch, own, kept, visible, reported, moves>>

ServiceAnswers ==
  /\ app.up /\ page.client = "ready" /\ Moves /\ Stores(page, Plain)
  /\ UNCHANGED <<app, launch, own, kept, visible, reported>>

\* the App loads its document anew
Navigate ==
  /\ app.up /\ Moves /\ page' \in NewDocuments
  /\ UNCHANGED <<app, launch, own, kept, visible, reported, refusals>>

-----------------------------------------------------------------------------
\* The App, the daemon and the request.

OpenPlain ==
  /\ ~app.up /\ app' = [up |-> TRUE, port |-> FALSE] /\ page' = Document(NoModels)
  /\ Moves /\ UNCHANGED <<launch, own, kept, visible, reported, refusals>>

QuitApp ==
  /\ app.up /\ app' = Shut /\ page' = Document(NoModels)
  /\ own' = NoModels /\ kept' = NoModels /\ reported' = NoModels
  /\ launch' = [launch EXCEPT !.socket = FALSE]
  /\ UNCHANGED <<visible, moves, refusals>>

SaveModels ==
  /\ launch.at = "rest" /\ Moves /\ visible' \in Lists
  /\ UNCHANGED <<app, page, launch, own, kept, reported, refusals>>

\* the desktop program allows one at a time (in_flight)
BeginLaunch ==
  /\ launch.at = "rest" /\ Moves
  /\ launch' = [AtRest EXCEPT !.at = "check", !.models = visible]
  /\ reported' = NoModels
  /\ UNCHANGED <<app, page, own, kept, visible, refusals>>

Check ==
  /\ launch.at = "check" /\ (app.up => app.port)
  /\ launch' = [launch EXCEPT !.at = IF app.up THEN "evaluate" ELSE "open"]
  /\ UNCHANGED <<app, page, own, kept, visible, reported, moves, refusals>>

\* an App opened meanwhile is only brought to the front
OpenEnhanced ==
  /\ launch.at = "open" /\ launch' = [launch EXCEPT !.at = "evaluate"]
  /\ IF app.up THEN UNCHANGED <<app, page>>
     ELSE app' = [up |-> TRUE, port |-> TRUE] /\ page' = Document(NoModels)
  /\ UNCHANGED <<own, kept, visible, reported, moves, refusals>>

Evaluate ==
  /\ launch.at = "evaluate" /\ app.port
  /\ page' = Scripted(page, launch.models)
  /\ launch' = [launch EXCEPT !.at = "register", !.socket = TRUE]
  /\ UNCHANGED <<app, own, kept, visible, reported, moves, refusals>>

RegistersNothing == NoModels
Registered == launch.models

Register ==
  /\ launch.at = "register" /\ launch.socket
  /\ own' = Registered
  /\ launch' = [launch EXCEPT !.at = "apply"]
  /\ UNCHANGED <<app, page, kept, visible, reported, moves, refusals>>

\* retain_cdp_session: the socket kept before is closed
Retain ==
  /\ launch.at = "apply" /\ launch.socket /\ page.applied
  /\ kept' = own /\ own' = NoModels
  /\ launch' = [launch EXCEPT !.at = "status", !.socket = FALSE]
  /\ UNCHANGED <<app, page, visible, reported, moves, refusals>>

Succeed ==
  /\ launch.at = "status" /\ app.port
  /\ page.client # "none" /\ page.shows = launch.models
  /\ reported' = launch.models /\ launch' = AtRest
  /\ UNCHANGED <<app, page, own, kept, visible, moves, refusals>>

\* refused, out of time, an exception in the page, a closed socket, or the
\* desktop program has given up and the request is dropped
LaunchFails ==
  /\ launch.at # "rest" /\ launch' = AtRest /\ own' = NoModels
  /\ UNCHANGED <<app, page, kept, visible, reported, moves, refusals>>

DaemonRestarts ==
  /\ Moves /\ launch' = AtRest
  /\ own' = NoModels /\ kept' = NoModels /\ reported' = NoModels
  /\ UNCHANGED <<app, page, visible, refusals>>

EnhancedNext ==
  \/ ClientCreated \/ ClientLoads \/ Attach \/ ServiceAnswers \/ Navigate
  \/ OpenPlain \/ QuitApp \/ SaveModels
  \/ BeginLaunch \/ Check \/ OpenEnhanced \/ Evaluate \/ Register \/ Retain \/ Succeed
  \/ LaunchFails \/ DaemonRestarts

\* the App's own page goes on, and so do its timers
EnhancedFairness == WF_enhancedVars(ClientLoads) /\ WF_enhancedVars(Attach)

EnhancedSpec == EnhancedInit /\ [][EnhancedNext]_enhancedVars /\ EnhancedFairness

-----------------------------------------------------------------------------
\* A launch that was reported as done lasts: whatever document the App goes
\* on to has the script with the models reported, until the next launch, the
\* end of the App or of the daemon.
ReportLasts ==
  reported # NoModels => kept = reported /\ page.script = reported

\* ... and shows them once its client has values, unless the script used up its
\* tries on a client that refused, or came late and where it could not be seen.
GaveUp == /\ ~page.queued /\ ~page.applied /\ page.tries >= MaxTry
          /\ page.hooked => refusals > 0
ModelsComeBack ==
  \A list \in Lists :
    (reported = list /\ page.client = "ready") ~>
      (page.shows = list \/ reported # list \/ page.client # "ready" \/ GaveUp)
=============================================================================
