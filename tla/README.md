# Verification of codexhub

codexhub (the repository's Rust daemon) sits between Codex app-servers, instant messengers and model providers. An
app-server — the desktop app, the CLI, a VS Code window — opens a WebSocket *to* the daemon; over it the daemon acts as
several virtual remote-control clients. Users in Feishu, Telegram or WeChat talk to Codex threads through these clients:
they start turns, stop them, resume threads and answer approval requests. The same daemon is an AI gateway: Codex is
configured to send its model requests to it, and it translates and routes them to providers. A desktop program starts
and watches the daemon and patches the Codex apps.

This directory holds TLA+ modules of these parts, TLC configurations that check them on small instances, and theorems
that TLAPS checks for every instance. Paths below are relative to `src/` of the repository unless they name a module
here; `RB` stands for `src/remote_control_backend.rs`, `D/` for `src/remote_control_backend/`, `AG/` for
`src/ai_gateway/`.

## 1. The system and its parts

| Part | State it keeps | Operations | Hard behaviour | Modules |
|---|---|---|---|---|
| Connection and client registry (`D/client_state.rs`, `src/app_state.rs`) | `RemoteControlInner` behind one tokio mutex: connections by epoch, logical clients by key, the legacy summary | open, close, prune, select the active connection, ensure, move and reset clients | many short critical sections of unrelated tasks; keys held across awaits | `RemoteConnections` |
| WebSocket session (`D/websocket.rs`, `D/diagnostics.rs`) | reader, writer, heartbeat and server-work tasks per socket | open, initialize the own default client, read, ping, lose, abort, clean up | `abort()` takes effect at an await only; cleanup races senders | `RemoteControl`, `Enrollment` |
| Requests and recovery (`D/session_api.rs`, `D/outbound.rs`, `D/recovery.rs`, `RB`) | a pending map per client: id → response channel; a `recovering` flag | resolve key, wait, initialize, file, send, time out, retry, replay; refuse, reset, resubscribe | seven awaits in one call, each with its own view of the registry | `RemoteControl` |
| Server work (`D/server_work.rs`, `D/server_messages.rs`) | a bounded queue and one worker per socket | responses, initialize results, notices | the worker gives up the lock between steps | `RemoteControl`, `TurnGate` |
| Server envelopes (`D/server_envelopes.rs`, `D/protocol.rs`) | last sequence id per stream, ACK cursor, chunk assembly | deduplicate, assemble, enqueue, acknowledge | an acknowledged part may die with its connection | `ServerInbound`, `Inbox` |
| Enrollment and tokens (`D/{enrollment,auth_tokens,clients}.rs`) | enrolled servers, tokens, the hint of a connection's kind | enroll, refresh, revoke, connect, heartbeat | two app-servers of one installation share a hint | `Enrollment` |
| IM runtime (`src/im_runtime.rs`, `src/im/core/{turn,session}.rs`) | `RuntimeState`: route per thread, current and starting turns | bind, unbind, mark starting, started, completed | every message is a task; a completion is marked by two tasks | `TurnGate` |
| Choosing threads (`src/im/core/{routing,thread_list}.rs`, platform flows) | pending lists, pages, forms | list, page, choose, create, settings | a typed number refers to a list that has been replaced | `ThreadRouting` |
| IM approvals (`src/im/core/approval.rs`, `src/bridge.rs`, `src/codex.rs`) | queue of approvals per conversation and the set of their keys | file, prompt, answer, settle, prompt for the next | router, replies and outbound worker act on one queue | `Approvals`, `ApprovalForms` |
| Bridges and generations (`src/bridge.rs`, `src/web/im_api.rs`, `src/im/{telegram,wechat}/polling.rs`) | one bridge task, its generation, router, listener, saved buffer | start, stop, replace, abort, route, poll | an aborted bridge runs beside its successor | `Bridges` |
| Feishu listener (`src/im/feishu/ws.rs`) | one socket, a watchdog | read, acknowledge, work off, ping, give up | reading, working and judging silence in one loop | `Listeners` |
| Rendering and sending (`src/im/core/outbound.rs`, `src/im/events.rs`, `src/im/feishu/{runtime,api}.rs`, senders) | streaming cards, delivery records, replay queue, tokens | claim, send, retry, defer, replay, renew | deltas and final texts race; a failure between send and record | `Rendering`, `Senders` |
| AI gateway (`src/ai_gateway`) | routing state, request log, histories | route, fail over, translate requests and streams, log | partial streams, racing ends, interrupted histories | `Gateway`, `Streams`, `StreamItems`, `ChatStream`, `AnthropicStream`, `ResponsesProtocol`, `Histories`, `ToolCalls` |
| Configuration takeover (`src/codex_app_config.rs`, `src/vscode_extension_patch.rs`) | the user's files, backups, manifest | set up, restore, repair, patch | a crash between two file operations | `Takeover`, `ExtensionPatch` |
| Enhanced app (`src/codex_app_enhanced.rs`) | the registered script, the models reported | launch, attach, register, evaluate | documents load while the script is registered | `EnhancedApp` |
| Accounts (`src/config.rs`, `src/web/im_api.rs`, `src/gui/`) | one saved document with an old and a new form | switch, delete, scan, migrate | the two forms undo each other | `Accounts`, `AccountBook` |
| Daemon and desktop program (`src/gui/daemon.rs`, `src/daemon_process.rs`) | lock, metadata, child process | start, watch, replace, shut down, quit | a look and an act that are apart | `Supervision` |
| HTTP API, GUI, installers, logs | — | handlers that change the state above are in its modules | presentation, packaging | — |

How they interact: sockets and requests share the registry and the pending maps through one mutex and wake each other
through oneshot channels; envelopes become items of the server-work queues, whose workers broadcast notices (capacity
512) to the event router of the bridge; the router, the message handlers and the outbound worker share `RuntimeState`
behind a second mutex and an unbounded queue; the handlers issue requests. The gateway shares nothing with them but the
configuration and the HTTP server; takeover and enhanced app change files and processes outside the daemon, on calls
from the API and the desktop program.

What makes each part correct is stated with its module in section 2. Every hazard, at its line, with the properties
that would catch it, is in `PROJECT.json`, and so is the map from definitions to lines.

## 2. Modules

### Abstract specifications

* `RemoteConnections` — the registry as one record, each critical section (or a helper of one) a function from record to
  record, each disjunct of `RegistryNext` a critical section with the inputs its callers can hold. `RemoteControl`
  implements it (`RegistrySpec`; the mapping is the identity on `remote`).
* `Inbox` — what a connection promises of a stream: messages are handed over in order and once. `ServerInbound`
  implements it (`DeliversInOrder`).
* `ResponsesProtocol` — what a client of the Responses API may read: items opened, filled, closed once, numbered upwards.
  The translations of `Streams` implement it (`AnswersAreResponses`).
* `AccountBook` — accounts as a user sees them. `Accounts` implements it (`BooksAreKept`).

### RemoteConnections — the registry

One variable, `remote`: open connections with kind, default client key and initialized flag, the known clients with
stream, initialized and recovering flags, the legacy summary. `last_ws_inbound_at_ms`, which breaks ties, is a strict
order `newer`; `connected` of the summary stands for the legacy outbound channel too; a stream id is the pair it is
hashed from; `default:<kind>` is written as the kind.
Properties: `SelectionIsSound` (while connections are open exactly one is selected, and the selected one is open);
`DefaultClientsRegistered` (two connections may share a default client and a result may move it);
`StreamsStayRouted` (no step makes replies on a known stream unroutable).

### RemoteControl — sockets, requests, recovery

Adds the pending maps (`pend`), the program counter of every request, recovery and socket, worker and queue of every
socket, and the external app-servers. An action is a critical section with the code up to the next await. `SocketOpen`,
`DropSocket`, `WorkerAbort`, `SocketCleanup` split `run_websocket` where another task can get in between; an aborted
worker may still finish what it does until its next await. A request runs `Begin … Ensure, Decide, InitReserve,
InitSend … Reserve, Send, Receive/GiveUp/Retry`; a recovery `RecoveryReset`, an initialize, `RecoveryFinish`,
`RecoveryResubscribe`, `RecoveryForce`.
Abstractions: request ids are named after the task that draws them; looking a client up by stream and starting its
recovery are one step; so are a failed send and the removal of its entry; one bound thread stands for all in the
resubscription; pings go to default clients only.
Properties: `RequestsAreTracked` (`RequestNotLost`: someone can still answer every request in flight; `NoOrphanRequest`:
nothing stays in a pending map for a caller that has gone); `NoStaleInitialize` (a leftover initialize would block its
client); `OwnInitializeIsSent` (the early return of `run_websocket` that skips the cleanup is never taken);
`RegistrySpec`; `EveryCallReturns`. An initialize may be answered by an error, after which nothing is announced or replayed. `RequestsAreTracked` and `NoStaleInitialize` name the exception of section 4 (moved keys).

### ServerInbound — envelopes, chunks, acknowledgements

One stream from the app-server's buffer through the readers into the queues, over connections lost and reopened and
app-servers restarted. Properties: `DeliversInOrder`; `NothingForgotten` (an ACK takes an envelope out of the peer's
buffer for good, so what is not buffered was handed over or waits in an assembly; only a chunked message of which a
lost connection confirmed a part may be torn); `BufferDrains`. Bounds: `MaxSession`, `MaxMessage`, `MaxResend`,
`MaxMoves` (times the registry forgets the stream); `Whole` stands for a missing segment id.

### Enrollment — who connects, and whether it lives

Enroll, refresh and the hint in which a refresh announces the kind of the next connection, connections, frames, pings and
the heartbeat's judgement, on a clock. The hint is one for all app-servers of an installation, and whoever connects first
takes it. Property: `ConnectionsAreKnown`: `KindsAreTold` (a connection is taken for the kind of its own app-server, for none,
or for that of another one of the installation which had announced itself and not connected when it was opened) and
`HeartbeatsTellTheTruth` (nobody is given up for a silence of the connection the summary follows that was none, and a real one
is noticed in time after the summary came to it for good). `rivals` (who else was about to connect) and `silence` (how long the
summary has followed a silent app-server without a break) are history. `PongAssumption` (`PingPeriod + MaxLatency +
MaxBlock < PongTimeout`) is what the code's constants intend. The end of a reader and its cleanup are one step.

### TurnGate — which message may start a turn

`runtime` holds routes, current and starting turns and origins; a task per message runs check, lookup, gate, request,
outcome; `work` is the server-work task that marks started and completed turns, `router` the event router, which marks a
completion a second time. The two timestamps that make a message stale are the set `late`. Abstractions: one remote
client per conversation; the worker's reads and the updates they decide on are one step; `/new` behaves as a resume. Of
the app-server it is assumed that it answers `turn/start` before it announces the turn, and announces it before
completing it. Properties: `StartingIsOwned` (a thread marked as starting has a task that will take the mark back — the
one piece of state no later message can repair); `StartingEnds`.

### Approvals and ApprovalForms

`pending` is the pair of `pending_approvals_by_conversation` and `pending_approval_request_keys`; `outbox` and `chat` are
prompts queued and sent; `router` and a `task` per reply hold what `codex_event_router` and a reply handler carry between
critical sections. Abstractions: a thread's conversation is fixed, a notice without a route is dropped
nondeterministically, a deferred WeChat prompt counts as refused. An approval is a request with the number of its filing;
requests of different app-servers may bear one id. Property: `OneIsPrompted` (neither one behind the current approval
is prompted for, nor is the current one overlooked).
`ApprovalForms` is the pure part: the options made from what the app-server sent and the words that choose them.
Properties: `WordsKeepTheirMeaning` (a word chooses an option that does what the word says), `OptionsCanBeMade` (refuted, section 5).

### ThreadRouting, Listeners, Bridges

`ThreadRouting`: lists, pages, numbers, buttons and forms of three platforms, handlers that overlap. Property:
`NumbersMeanWhatWasShown` (a thread is bound only if it was offered in that place; the prompt answered is the latest).
`Listeners`: the Feishu socket on a clock — frames, acknowledgements, downloads, pings, silence. A frame that cannot be decoded
ends the connection, and so does an event whose payload is not of its type, after its acknowledgement. Property:
`NothingIsMissed`: `SilenceIsTold` (a working connection is given up only where the ping interval Feishu told last, or the longest
download, leaves a pong no time before the timeout, which nothing in the code rules out; one that fell silent is noticed in time)
and `AckedIsHandled` (what was acknowledged is in hand, handed over or dropped by a rule).
`Bridges`: calls of the API and the daemon's start against one bridge slot, generations, routers and listeners of
bridges that run beside each other, the polling slot and WeChat's saved buffer. Properties: `WorkedOnOnce` (no notice
rendered twice, no message handled twice, unless a buffer was overwritten, section 4); `MessageArrives`.

### Rendering and Senders

`Rendering`: turns of one conversation rendered into a Feishu card, or texts and pictures; the driver of a card claims a
text, waits and sends; the outbound worker sends, defers, drops and replays; delivery records; restarts. A card of an agent
message is one of CardKit: each of its requests carries a sequence number larger than the last, kept with the card only when the
answer came; a send that fails may have done any part of its requests. The platform
and the schedule of a turn are chosen by `Init`. Properties: `DeliveredOnce` (though `item/completed` and `turn/completed`
both carry a reply, and what WeChat refused is replayed), `CardNeverGoesBack`, `CardCatchesUp` (all that is said of an
item is shown in the end, but for a CardKit card of which Feishu took an update without the answer arriving: each retry
repeats a sequence it has taken), `AllIsSettled` (what is queued is delivered or given up with an error). `Senders`: tenant tokens on a clock and messages of several chunks. Property: `SendsAreSound` (a
request carries a token that is good when it arrives; a message is sent whole and in order, or its failure told).

### Gateway and the translations

`Gateway`: requests of sessions against routing, circuit breaker, clock, request log and its queue. Properties:
`LogIsTrue` (a final row is the end its request came to, first and for good; a listing waits for the ends that are queued
when it is asked for), `BlacklistIsEarned`
(only requests that failed at the provider, or could not be built for it, shut it out; what the client caused does not), `LogSettles` (a row does not stay "running"). `StreamItems`, `ChatStream`, `AnthropicStream`, `Streams`: upstream
chunks of two dialects, over several rounds when the gateway answers a web search itself, translated to Responses events;
`AnswersAreResponses`. `Histories`: interrupted and reordered histories repaired for each dialect; `RoundsAreComplete`.
`ToolCalls`: tool names shortened, hashed, told in four dialects and told back; `NamesHold` (a call comes back to the tool whose
name the provider used, in the history too, and no two tools have one name, unless a tool is called like the tool search or
the web search, whose names are fixed).

### Takeover, ExtensionPatch, EnhancedApp, Accounts, Supervision

`Takeover` and `ExtensionPatch` are file systems whose every operation may fail or be the last before a crash, within it too
where it is not atomic: a copy of the login of which a part was written, a manifest of which a part was written, a backup
directory of which one file was removed. Files hold "the user's" or "managed" contents and a version; config.toml holds what
names a port. Properties: `LoginIsKept` (while the local identity is in use the backup can give the login back),
`RestoreGivesBack` (a restore that reports success leaves nothing of the present port and no local identity, and where every
setup was made under that port nothing of the takeover at all; what it gives back is what was there), both until one of three
things happened that the code does not guard against and `before.harm` records: a torn manifest, a removal that took the copy
and left the manifest, a job begun while another ran. `ConnectionIsRestored` (whatever port the setups had; refuted),
`FlagIsTakenBack` (a stop that reports success leaves no patched script).
`EnhancedApp`: launch, check, attach, register for new documents, evaluate, report; `ReportLasts` (whatever document
the app goes on to has the models reported), `ModelsComeBack`.
`Accounts`: accounts of three platforms in one saved document, of each a record of the old form beside or instead of the new
ones, and the pollers the migration leaves; `BooksAreKept` (an implementation of `AccountBook`: no switch, delete, login or load
changes an account it is not about, and a deleted account does not come back, but for one whose bot the old record of Telegram
or WeChat also holds, under another id or none: the entry made of that record is `spare`). `Supervision`: starts, the
lock, the slots of the system's processes, the watchdog and quitting; `ReadyIsStopped` (a daemon that answered its start
before the user quit does not outlive the program), `ServiceComesBack`, `QuitStopsTheBackend` (refuted).

MC modules: `MCTransport` composes `Enrollment`, `RemoteConnections` and `ServerInbound`; `MCConversations` composes
`Approvals`, `ThreadRouting`, `Listeners` and `ApprovalForms`; `MCRendering` composes `Rendering`, `Senders` and
`TurnGate`; `MCGateway`, `MCTakeover` and `MCDesktop` the modules of their sections; `MCRemoteControl` gives
`RemoteControl` its constants. Where a run explores several components they are explored side by side: a variable
chooses one in the initial state and the others stay as they are, since they share no state in the code (or share it
only through what one module models as the other's environment).

## 3. Runs

| Run | Instance | What it shows |
|---|---|---|
| `transport` | two app-servers of one computer and of two kinds; two connections, one IM key; one chunked and one whole message over two connections | the selection, clients and streams stay sound, envelopes are handed over in order and once and none is forgotten, connections are taken for what they are or for what another one was about to be |
| `discovery` | two sockets of kinds `cli` and `unknown`; a request that names its connection while default clients move | no initialize outlives its connection, the own initialize is always sent, the tasks implement the registry |
| `recovery` | one socket, one idempotent, cancellable request, one recovery, queue of two | requests are tracked and every call returns although the app-server may fall silent |
| `conversations` | a Feishu and a Telegram conversation, four requests of which two share an id, one reply; two lists, two handlers; a Feishu listener with two events, a ping interval that leaves a pong its time and one that does not; every approval form against every word | one prompt at a time, numbers mean what was shown, nothing is missed, words keep their meaning |
| `bridges` | the daemon's start and one call of the API, two bridges, two notices and messages, channel and queue of one | none is worked on twice, none of Telegram's is lost |
| `rendering` | two turns of three events, one picture, one long text, one failure, expiry and restart; two sends of two texts on a clock; one thread, a resume and two texts | items are delivered once, the card never goes back and catches up unless its sequence was left behind, the gate is owned and opens again |
| `gateway` | three requests of two sessions, two providers; three chunks in each of two rounds; histories of five loose items; five sets of tools, three of them with names like the fixed ones, told three times | rows match ends, blacklists are earned, streams are well formed, histories and names hold |
| `takeover` | one job, two ports, every file operation may fail, be the last or be cut off in its middle, two acts and faults; four changes of an extension's files | the login is never lost, a restore gives back what was there, the flag is taken back |
| `desktop` | two starts, three process slots; two bots and people on three platforms, with a record of the old form or without; two model lists | the service comes back and is stopped, accounts and models stay what they were chosen to be |
| `quit`, `restored`, `heartbeats` | expected violations | the disagreements of section 5 |

Every property of a passing run has a *seeded fault* beside the definition it damages (`PROJECT.json`, `mutants`): a
dropped guard, a forgotten cleanup, a swapped test. TLC finds the property violated with each of them.

### Bounds and why they are enough

* `MaxEpoch`, `MaxSession` — connections opened. Two give every pairwise race (shared default client, hand-over of the
  active connection, late cleanup, a repetition on the next connection).
* `OpenKinds` — two kinds of different priority, one of them `unknown`, since only a client of an unknown kind moves.
  `DerivationBound` — a stream id is derived from a stream id at most twice.
* `Slots` — recoveries; `QueueCap`, `ChannelCap`, `NoticeCap`, `Capacity` — 1 to 3 instead of the code's 256 or 512: a
  full queue has the same effect at any capacity.
* `MaxTurns`, `MaxIdle`, `MaxAsks`, messages — two turns are needed for a completion to meet another turn's start,
  three messages for two starts and an intruder.
* `MaxAsks`, `MaxWire` of `Approvals` — each request asked once, two notices under way; the shared id makes a key be
  filed again after it was settled.
* `MaxBridge` — two bridges beside each other. The proof of section 4 showed this bound to be too small for one thing
  (the third bridge reads what the first overwrote), which is why the property has its exception.
* Clocks (`MaxTime`, `MaxClock`, `MaxLatency`, `MaxDownload`, …) keep the order of the code's constants: a pong arrives
  before its timeout, a token outlives its skew (`2 * MaxDelay <= Skew`).
* `MaxChunk`, `MaxRound`, `MaxItem`, `MaxLoose`, `MaxTold`, `MaxChars` — enough for an item to be opened, filled,
  interrupted by another and closed, in a second round too; for a call, its output and a stray of each; for two names
  that are cut to the same prefix; for a text cut in three.
* `MaxFail`, `MaxExpire`, `MaxRestart`, `MaxMishap`, `MaxTrouble`, `MaxRefusal`, `MaxTry`, `MaxMove`, `MaxChange`,
  `MaxEvent` — each fault once or twice, so that a fault meets the repair of another.
* `takeover` and `restored` do not go on after a fault the properties except (`CONSTRAINT Unharmed`: `before.harm` only grows
  and both properties hold of any state with harm). `Jobs` has one member there; two jobs begun together are harm.

`CHECK_DEADLOCK FALSE` is set where the bounded environment has nothing more to say and all work is done: everywhere but
`discovery`, `recovery` and `gateway`.

### Fairness

* `RemoteControl`: weak fairness of the steps of requests, callers and recoveries; `TurnGate`: of message handlers.
  It stands for three facts: tokio polls a ready task, timers fire, tokio's mutex is first come, first served. Nothing is
  assumed of sockets, app-servers or server-work tasks: they may stop at any point, so every wait has to have its timer.
* `ServerInbound`: a reader that can read does so or its connection ends, it notes its cursor, the network delivers
  acknowledgements. Nothing is assumed of the worker.
* `Bridges`: each bridge's own steps, its router, its listener and the cancellation of its tasks.
* `Rendering`: the drivers of cards and the outbound worker; a user who keeps writing (which gives WeChat its token) and
  the replay that answers; strong fairness of `Deliver` only: requests that are tried again and again get through in the
  end, since failures are bounded.
* `Gateway`: the log's writer, a stream's consumer that flushes, reads or finds the end, the end of each request.
* `EnhancedApp`: documents load, the launcher attaches. `Supervision`: the daemon's own steps, start threads, the timer
  of the watchdog, and that troubles end.

## 4. Proofs

Eight modules of proofs, checked by TLAPS for every value of the constants, from the named `ASSUME`s only (sets and
functions of the right type; TLC evaluates them in the runs).

`RemoteControl_proofs`, the registry — `RegistryTypes`, `ActiveConnectionIsOpen`, `DefaultClientsStayRegistered`,
`StreamsRemainRouted`, `RegistryInvariant`, `TheSelectionIsSound`. The inductive invariant `Good(r)` joins the type,
`ActiveOpen` and `Registered`: a stale active id or a default key that leads nowhere would be turned by the next critical
section into the other fault, so neither is inductive alone. `Ordered(r)` (every set of open connections has a newest)
is what the choice of the selected one needs and is inductive by itself. One lemma per operator says what it does to an
arbitrary record (`SameRegistry`: most change only the summary and flags).

`RemoteControl_proofs`, the tasks — `TheBackendIsSound`, `TheBackendImplementsTheRegistry`, `TheBackendSelectsSoundly`,
`OwnInitializesAreSent`. A task may apply a registry operator to a key it resolved earlier, so that the refinement holds
only if such keys are still keys of the registry: `Sound` adds to `Good` that sockets that are up are in the registry,
that the keys, epochs and streams held by tasks and workers are based on it (`Based`, `TasksSound`, `WorkersSound`) and
the types of the rest. With it each action is shown to be a step of `RegistryNext` or a stutter; the registry's theorems
then hold of the running backend.

`RemoteControl_proofs`, the pending maps — `TheRequestsAreTracked` and `NoInitializeIsStale`. The inductive invariant
`Tracked` follows an id through its life: it is drawn once (`IdsAreUnique`), its entry is removed under the key it was
filed with unless its client moved or its caller was cancelled (`EntriesSound`), its answer is taken out once
(`AnswersSound`, `ResultSound`).

`ServerInbound_proofs`, the envelopes — `InboundImplementsInbox`, `NothingSentIsForgotten`. Of a connection, the
difference of message and sequence id is constant as long as nothing restarts, so that the cursor decides the same as
the message number; whatever was handed over is covered by the cursor or by the mark that precedes it. With that, every
step maps to one of `Inbox` or a stutter. `NothingForgotten` needs to know where each piece of an envelope is: the
inductive invariant `Kept` says that a piece still owed is in the peer's buffer, in order, or in the assembly of the open
connection (`BufferKept`, `BufferOrdered`); that on a connection it is in the assembly or on the wire, and nothing that
comes after it overtakes it there (`WireKept`); and that an acknowledgement leaves nothing behind that is owed and not
in the assembly (`AcksKept`). An ACK then takes away a prefix of the buffer only, of which nothing is owed but what is
in the assembly, and when a connection ends what it had confirmed a part of is the torn message the property excepts.

`ServerInbound_proofs`, the connections — `ConnectionsAreTold`. `HintsAreOwned`: a hint is that of an
app-server of its installation which has announced itself and not connected since, which is why the opening that takes a hint
has to remove it, in time or not: then it is the opener's own or that of a rival.
`HeartbeatsInTime`: the age of the last pong is bounded by the ping's period, the latency and the time the reader was kept from
the frames (`Prompt`); this with `PongAssumption` (the three do not use up the timeout) is why a connection that answers is
not given up. A silence is bounded by what is still on its way, then by the age of the last pong, then by the next check
(`Quiet`), each of which the next step has to keep up with.

`Rendering_proofs`, the turn gate — `GateIsTyped`, `MarksAreOwned`. The type includes where a task's thread comes from, which is all
that `StartingIsOwned` needs beside itself.

`Approvals_proofs`, the approvals — `KeysStayInStep`, `OneAtATime`, `NoneOverlooked`, `OneIsPromptedAtATime`. The inductive invariant
`IInv` adds `Shape` (only a reply between taking an approval out and prompting carries a next approval, and at most one)
and `AnnouncedOnce` (an approval still on the wire or in the router's hands is not yet queued, shown or about to be —
otherwise filing it behind another one would put a prompt before its turn). `ResolvePlaces` does the index arithmetic
once, as an injection from the places left to the places before; after that every step is set reasoning.

`Approvals_proofs`, the listener — `ListenersMissNothing`. An event acknowledged is handed over, ignored or in hand
(`AckedIsKept`); the age of the last frame is bounded by the ping that is due, the pong that is owed or the frame that
waits (`UpIsHeard`); a silent peer's time by the attachments still to be fetched, the silence and the next check
(`SilentIsCounted`, whose last two parts tell a loop that reads in time from one that gives up a connection it has left
waiting). Nothing is assumed of intervals and times; that a working connection is kept is claimed under `InTime`, of the state
in which it is given up.

`Approvals_proofs`, the choosers — `NumbersAreMeant`. `Offered`: every list a request or a handler holds was shown under
that request, so that a number that finds a thread finds one that was shown. For WeChat, where a number is read against
the newest request and not the message it stands under, `Answered`: as long as messages are handled one after the other,
the newest request is the one of the last prompt and says what that prompt says, so that the number means what the user
saw; a request that waits for a path is the newest, or the path would go to another.

`Rendering_proofs`, messages and cards — `MessagesAreDeliveredOnce`, `CardsGoForward`. Messages: each one is in one place only, the queue, the
replay list, the worker's hand or sent (`InOnePlace`), and what was handed over belongs to a turn that is over or to what
was said of this one (`HandedOver`, `SaidOnce`), so that neither a second notice nor a replay makes it anew. Cards: one
driver sends at a time (`OneSends`), what it sends is not older than what is shown nor newer than the card's text
(`SendsForward`), and a card that was dropped does not come back with an older text (`TextsGrow`); the sequences only decide whether Feishu takes
a text, so that the lemmas on them are about types (`SequenceParts`, `PostedParts`). The three hold until
a restart of the bridge forgets the cards (`restarts = 0`), which is what the property is stated for: a driver that is still sending then
knows nothing of the new card.

`Rendering_proofs`, the tokens — `TokensAreGood`. The invariant says more of a token than that it is good: as long as it is
handed out it outlasts a whole request (`CacheOutlasts`), and in hand what is left of one (`TokenOutlasts`). It holds because
the skew covers two delays, that of the answer which brought the token and that of the request which uses it, and because
a token shorter than the skew is handed out for one unit of time only.

`Bridges_proofs` — `NothingIsWorkedOnTwice`. A bridge works only while the generation it was given is the one in force,
a generation belongs to one bridge (`GenerationsDiffer`) and never comes back, the daemon starts one bridge at most
(`BootsOnce`); so at most one router and one listener work, and what was worked on lies behind the place from which any
of them reads on (`RoutersGoOn`, `BatchesWait`, `ListenersGoOn`).

`Desktop_proofs` — `ReadyDaemonsAreStopped`: a daemon that answered its start is not one that is still to start
(`ReadyAnswered`), and once the program has asked, none of them serves any more (`AskedAll`); who holds the process does not matter.
`ReportsLast`: a report is made when the script kept and the page's script are those of the launch, and no later step of a
document, the App or the daemon changes one of them and leaves the report standing (`LaunchSound`, `ReportStands`).

`Takeover_proofs` — `LoginsAreKept`, `RestoresGiveBack` and `FlagsAreTakenBack`, for any number of jobs, ports and faults. The
invariant `Sound` says that harm once done stays, and the rest of states without harm. `LoginSound`
follows the three files of the login: the manifest says there is a login to give back before the local one is written, and is
removed after it was given back, so that a job may end between any two writes and within the copy. `ConfigSound` says of the configuration's document
and its backup which provider is chosen and that it is one the user had or the gateway, `PortSound` that the ports named anywhere are those of
setups (`before.ports`), so that a restore under the only one leaves none. `BackupFirst`: an extension's backup is
never a patched script, and without a backup there is no patch.

`Gateway_proofs` — `TheLogFollowsTheRequests`, `RowsMatchEnds`, `ListingsAreCurrent`, `TheLogIsTrue`, `BlacklistsAreEarned`.
`IInv` adds to `RowMatchesEnd` and `BlacklistIsEarned` that an update in the queue carries the end its request came to
(`QueueMatchesEnd`), that a request which was not answered has no end yet (`EndsAreLate`, so the failure a handler notes is never a second end), and that the breaker's
count is at most the number of requests it was told of, each once (`FailuresWereTold`, an argument on cardinalities; this
is why the requests are assumed finite; a request that could not be built is one of them, as `classify_outcome` counts it). Every step of a handler but `Record` is brought into one form (`HandlerStep`),
for which the invariant is proved once. The lost writes and the deletions need no argument of their own: they only
shorten the queue or empty rows.
`ListingsAreCurrent` and `TheLogIsTrue` rest on `BarrierInv` besides: the end of a logged request has been written or
stands in the queue behind the request's insert (`Coming`), there is one barrier at most, and all that is owed to the
listing stands before it. A handler says one of four things to the log (`LogStep`), the writer takes the first command
off; for each it is shown once what becomes of `Coming` and `Shown`.

The inductive invariants were checked by TLC on the instances of the runs before they were proved. Two proofs failed for
good reasons and changed what is claimed:

* *Moved keys.* A default client `unknown` moves to the key of its kind while a recovery or a request holds the old key.
  The error path of `send_initialize_for_client_on_connection` (`D/outbound.rs:154-158`) and the timeout
  (`D/session_api.rs:281-287`) then remove the entry under the old key, and the moved entry stays for ever. TLC confirms
  it with `MaxEpoch = 2`, kinds `cli` and `unknown` and one recovery slot, in 26 steps. `NoStaleInitialize` and
  `NoOrphanRequest` therefore except clients that moved.
* *Overwritten buffers.* An aborted WeChat listener saves the buffer it polled with after its successor saved a newer one
  (`src/im/wechat/polling.rs:122`; nothing orders the save with the abort), so a third bridge loads the older buffer and
  handles messages again. TLC confirms it with three bridges, in 35 steps. `HandledOnce` therefore excepts histories
  (`overwritten`) in which that happened.

Only model-checked: all liveness (`EveryCallReturns`, `MessageArrives`, `CardCatchesUp`, `AllIsSettled`, `StartingEnds`,
`LogSettles`, `BufferDrains`, `ServiceComesBack`, `ModelsComeBack`), since fairness and ENABLED are beyond the prover;
the translations `AnswersAreResponses`, `RoundsAreComplete`, `NamesHold`, `WordsKeepTheirMeaning`
and `SendsAreWhole`, one half of `SendsAreSound`, which rest on recursive functions over sequences, so that a proof would be
an induction over data (the other half, `TokenIsGood`, is proved);
and for the same reason `BooksAreKept`, whose mapping to `AccountBook` filters and searches lists. No module declares a RECURSIVE operator.

## 5. Where code and documents disagree

With a run that shows it:

* `quit` — quitting while a start is under way leaves a daemon behind that the program started (`src/gui/daemon.rs:297`);
  `README.en.md:57` says the backend it started is stopped.
* `restored` — a setup, a change of `bind` and a restore: the restore takes out only what names the running daemon's URL
  (`src/codex_app_config.rs:1964`, `:2656`), reports success, drops its backup and leaves `chatgpt_base_url`, the gateway's table
  and the active provider of the old port; `README.en.md:176` says that after a restore Codex no longer sends model requests
  through the gateway.
* `heartbeats` — every connection's heartbeat is judged by the summary of the active one (`D/diagnostics.rs:497`): a live
  connection is given up for another's silence; `docs/remote-control-multi-endpoint-routing.zh-CN.md:40` and `:101` have
  connections live on their own.

Refuted by TLC on instances of the same modules, without a run of their own (the definitions are in the modules):

* `OptionsCanBeMade` — a command approval whose proposed policy amendment has a line break: `command_decision_option` gives
  None (`src/codex.rs:783`), the unwrap at `src/codex.rs:606` panics in `codex_event_router` (`src/bridge.rs:482`), and all that is
  left of it is "bridge_task_failed" (`src/bridge.rs:315`).
* `ClientsHaveDistinctStreams` — a client that moved away from a default key keeps its stream id, and the next client with
  that key gets the same one (`D/client_state.rs:25`); `docs/remote-control-protocol-audit.zh-CN.md:386` tells clients apart by it.
* `NonIdempotentSentOnce` — a `turn/start` pending from a lost socket is sent again on the next one (`RB:721`), which the
  same document excludes at :252.
* `SentToInitializedClient` — a client initialized on a lost socket is used on the next without an initialize (`RB:646`);
  the document says at :383 that every known client is initialized again.
* `ParallelStartsBlocked` — `mark_turn_completed` ignores its turn id (`src/im_runtime.rs:241`): the second mark of an
  earlier turn opens the gate that a start has just closed.
* `OneThreadPerConversation` — the router binds the route it has read under an earlier lock (`src/bridge.rs:519`): a
  conversation that resumed another thread meanwhile is bound to two.
* `NextIsPrompted` — a confirmation that cannot be sent ends the reply's handler before the next prompt
  (`src/im/telegram/flow.rs:1220`, `src/im/wechat/flow.rs:1207`); the later approvals then wait unseen.
* `DisabledForwardsNothing` — `start_bridge_task` reads the configuration before it locks the bridge's slot
  (`src/web/im_api.rs:339-366`): a start that overlaps a disabling leaves a bridge at work while `bridge.enabled` is off,
  which `docs/configuration.md:215-217` excludes.
* `HistoryStaysWellFormed` — an answer that called a tool, searched the web and went on is told in an order that is not
  well formed, which `AG/providers/anthropic_messages/request_content.rs:80-83` claims without a condition.
* `ReadyIsHeld` — two overlapping starts: the slower puts its process into the slot of the other's.
* `ListIsAnswered` — on Telegram a number typed after a list may answer an earlier prompt that is still open
  (`docs/telegram-integration-plan.zh-CN.md` has threads chosen by /1, /2).
* `ZeroedIsRecovered` — a setup fails on a zero-filled config that a valid backup could recover (`src/codex_app_config.rs:2579-2583`;
  `docs/codex-app-cdp-model-diagnostics.zh-CN.md:373-374`).

## 6. Remarks

What the models show and no document denies; each is visible in a behaviour of the module.

* Remote control: when the last connection closes, the summary still says connected (`run_websocket` removes the
  connection before it prunes, so `D/client_state.rs:319-332` is not taken). A recovery refuses the requests pending on
  other connections too. Sequence ids are drawn under the lock and sent after it (`D/outbound.rs:398`).
* Enrollment: app-servers of one installation that are about to connect at the same time take each other's hint (the kind a
  connection is then taken for decides which one is active); a mismatched server id leads to 404 and a new
  enrollment, which overwrites the global record; the hint's age is checked at opening only; a silent connection that is
  not the active one is never noticed by heartbeats, and neither is the active one if another connection opens before
  each of its checks and ends after it, since the summary goes back and forth; the client list is read under two locks.
* Turns: a completion worked off before `mark_turn_started` leaves the ended turn recorded as running until `/s` or a
  status. A start refused with "thread not found" relies on the thread still being bound for its mark to be taken back
  (the exception in `StartingIsOwned`).
* Approvals: a text reply answers whatever is current when it is handled, also an approval not shown yet; a second
  app-server's request with an id that is pending is taken for a replay. A list with only `acceptForSession` gives `/y`
  nothing to find; `/n` picks "block this host" if it comes before cancel; empty permissions make "allow" a refusal;
  unknown decisions alone fall back to the default list; `mcp_accept_content` fills defaults and booleans only.
* Choosing threads: WeChat's lists never expire; "create" twice creates two threads; a directory that is asked for
  swallows the next text; option numbers are those of the page; `/q` while a bind is in flight binds all the same.
* Listener: a frame is acknowledged before it is handled, so that an event of the wrong type ends the connection and is not sent
  again; a redelivered event is handled twice; the ping interval Feishu tells is only bounded below (`src/im/feishu/ws.rs:168`) and
  a download has no total timeout (`src/outbound_http.rs:54-60`): one longer than the silence makes a live connection be given
  up; missed ticks come in a burst.
* Bridges: a restart invalidates the generation after it spawned (`src/web/im_api.rs:381`); a leaving bridge invalidates
  its successor's (`src/bridge.rs:327`); `claim_polling_slot` discards updates; `abort_all` drops handlers.
* Rendering: a CardKit card whose update was taken while its answer was lost stays as it is, since each retry carries the
  sequence Feishu has taken (`src/im/feishu/runtime.rs:450`, `:628-633`); a first send that fails after the card was posted posts
  another card; of the summaries of a growing item that is shown from its start, only the first is taken
  (`src/im/feishu/runtime.rs:221-225`); two pictures can put each other off for ever if the user writes exactly between the look and the deferral; an
  item whose cache write fails after its delivery record is lost; a card that fails after it was posted is posted
  again for pictures; "turn completed" may come before its card is up to date; a wakeup can be lost
  (`src/im/feishu/runtime.rs:346-363`); card drivers survive a bridge's restart; WeChat captions are sent again on replay.
* Senders: a cached token is not dropped when Feishu calls it invalid; a send of several chunks that failed starts from
  the first again; the HTML fallback repeats an ambiguous failure; WeChat's "(1/2)" mark is not counted.
* Gateway: a row stays "running" if the client leaves before the headers, the queue of 256 is full, or the daemon dies;
  success is noted at the headers, for an internal web search before the upstream is asked; a request that cannot be built
  for a provider is a 502 (`AG/providers/openai_responses.rs:216-222`) and counts against the provider although nothing was sent
  (`AG/handler.rs:732` speaks of upstream failures); a late success clears a
  blacklist, and one failure after the cooldown renews it; a silent upstream never times out; a cut-off stream is
  reported completed; own web searches are shown twice; sequence numbers skip.
* Tools: a tool search is told under its own name although a function took it, and a call of that name goes to one of the two
  (`AG/transform/responses_to_chat.rs:252`, `:259`); native Anthropic tools join without a check for
  collisions; a function named `WebSearch` becomes a web search; foreign reasoning is removed only after one refusal.
* Histories: calls with an empty id bypass the repair; the thinking of a round is filled in after invalid ones were dropped.
* Takeover: a manifest of which a part was written (`src/codex_app_config.rs:2599`) passes for one at the next setup and fails
  every restore; after a removal that took the copy and left the manifest (`:2642`) the next setup saves nothing
  (`:2561`) and replaces a login nothing keeps; nothing locks the files against two jobs at a time; a restore overwrites a
  login made meanwhile; an older version of an extension stays patched.
* Accounts: several writers of one document lose each other's updates; a failed save leaves memory changed; a redirect
  writes an old session over a newer; an old record of Telegram or WeChat that holds a bot under another id or none
  (`src/web/im_api.rs:846`) outlives the bot's deletion, since `clear_legacy_im_account` compares ids (`src/web/im_api.rs:557-562`):
  the bot is listed again and the bridge stays enabled, where `src/gui/text.rs:2242` says it was deleted.
* Enhanced app, desktop: a registration is lost with the daemon; a failed launch leaves the script and the environment;
  `stop_daemon_on_exit` kills right after `/api/shutdown`; the shutdown reaches daemons the program did not start.

## 7. Not modelled

Platform payloads and their parsing, markdown and wording, the TOML of single keys, model catalogs, the private state of providers (reasoning kept for the account it came from), CLI commands, the
read-only handlers of the HTTP API, drawing, packaging, logs, exports and history: I/O or presentation over the parts
above. The list of enrolled clients, the device challenge and the compatibility routes build answers only.
`PROJECT.json` lists each part with what is left out of it.

## 8. Plan

Done: the core (registry, tasks, gate, approvals), the remaining components, and the proofs of section 4. To come:

1. The properties that are only model-checked (section 4) wait for a prover that can use an induction theorem: those of
   the translations, the forms, the senders and the accounts.
2. The daemon's logs, exports and history, if they come to carry state.
