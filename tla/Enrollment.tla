----------------------------- MODULE Enrollment -----------------------------
(***************************************************************************)
(* App-servers find the hub: they enroll or refresh their enrollment over  *)
(* HTTP (remote_control_backend/enrollment.rs), then open a WebSocket      *)
(* whose heartbeats tell a silent one from a live one (websocket.rs,       *)
(* diagnostics.rs).  The WebSocket need not say what kind of program it is *)
(* from; the refresh just before it does, and is remembered as a hint: one *)
(* for all app-servers of an installation, so that one that connects takes *)
(* the hint of another that is about to.                                   *)
(* Every reader judges by the legacy summary, which follows one connection *)
(* only.                                                                   *)
(*                                                                         *)
(* Time passes in units of REMOTE_CONTROL_STALE_CHECK_INTERVAL.            *)
(***************************************************************************)
EXTENDS Integers, FiniteSets, Sequences

CONSTANTS Servers,         \* app-servers
          InstallationOf,  \* the installation an app-server belongs to
          AgentOf,         \* its kind by its user agent, or "unknown"
          HintTtl,         \* REMOTE_CONTROL_SOURCE_HINT_TTL_MS
          PingPeriod,      \* REMOTE_CONTROL_WEBSOCKET_PING_INTERVAL
          PongTimeout,     \* REMOTE_CONTROL_PONG_TIMEOUT
          MaxLatency,      \* bound: how long a pong is under way
          MaxBlock,        \* bound: how long envelopes keep the reader between two pongs
          MaxRefresh,      \* bound: refreshes
          Watched          \* bound: the app-servers whose heartbeats are followed

Nobody == "nobody"
Installations == {InstallationOf[s] : s \in Servers}
CheckPeriod == 1

ASSUME EnrollmentAssumption ==
  /\ DOMAIN InstallationOf = Servers /\ DOMAIN AgentOf = Servers /\ Nobody \notin Servers
  /\ {HintTtl, MaxLatency, MaxBlock, MaxRefresh} \subseteq Nat
  /\ Watched \subseteq Servers
  /\ {PingPeriod, PongTimeout} \subseteq Nat \ {0}

\* a ping, its pong and a reader that is kept from it do not use up the time to
\* the timeout: 10 of its 60 seconds are the ping's in the code
ASSUME PongAssumption == PingPeriod + MaxLatency + MaxBlock < PongTimeout

VARIABLES server,     \* app-servers: pc, enrollment they keep, whether they still answer
          hints,      \* pending_source_hints_by_installation: kind, age
          socket,     \* connections: kind, initialized, heartbeats
          recent,     \* open connections, the one heard of last at the end
          summary,    \* whose times RemoteControlInner itself has
          refreshes,  \* refreshes so far
          givenUp,    \* history: live connections found stale, and whose silence it was
          silence,    \* history: how long the summary has followed a silent app-server without a break
          rivals      \* history: of a connection, who else was about to connect when it was opened

enrollmentVars == <<server, hints, socket, recent, summary, refreshes, givenUp, silence, rivals>>

NoHint == [kind |-> "unknown", age |-> 0]
NoSocket == [on |-> FALSE, kind |-> "unknown", initialized |-> FALSE, age |-> 0, since |-> 0,
             pinged |-> FALSE, ping |-> 0, check |-> 0, pong |-> -1, busy |-> 0, held |-> 0]

\* what an app-server has kept may be from another installation
EnrollmentInit ==
  /\ server \in [Servers -> [pc : {"off"}, kept : Installations \cup {"none"}, alive : {TRUE}]]
  /\ hints = [i \in Installations |-> NoHint]
  /\ socket = [s \in Servers |-> NoSocket]
  /\ recent = << >> /\ summary = Nobody
  /\ refreshes = 0 /\ givenUp = {} /\ silence = 0 /\ rivals = [s \in Servers |-> {}]

-----------------------------------------------------------------------------
(* sync_legacy_from_active_connection_locked, called by everything that     *)
(* changes a connection but its opening.                                    *)

\* source_kind_priority
Rank(kind) == CASE kind = "codex_app" -> 4 [] kind = "vscode" -> 3 [] kind = "cli" -> 2 [] OTHER -> 1

\* select_active_connection_id_locked: initialized, then its kind, then the
\* one heard of last
Preferred(sockets, s, t) ==
  \/ sockets[s].initialized /\ ~sockets[t].initialized
  \/ /\ sockets[s].initialized = sockets[t].initialized
     /\ Rank(sockets[s].kind) > Rank(sockets[t].kind)

Active(sockets, order) ==
  IF order = << >> THEN Nobody
  ELSE order[CHOOSE i \in DOMAIN order :
         \A j \in DOMAIN order \ {i} : /\ ~Preferred(sockets, order[j], order[i])
                                      /\ j > i => Preferred(sockets, order[i], order[j])]

OpenBut(s) == SelectSeq(recent, LAMBDA t : t # s)
Sync ==
  /\ summary' = Active(socket', recent')
  /\ silence' = IF summary' = summary THEN silence ELSE 0
\* last_ws_inbound_at_ms
HeardOf(s) == recent' = Append(OpenBut(s), s)

-----------------------------------------------------------------------------
(* HTTP: enroll and refresh.                                                *)

\* the server id follows from the installation
Enroll(s) ==
  /\ server[s].pc = "off" /\ server[s].kept = "none"
  /\ server' = [server EXCEPT ![s].pc = "ready", ![s].kept = InstallationOf[s]]
  /\ UNCHANGED <<hints, socket, recent, summary, refreshes, givenUp, silence, rivals>>

\* an enrollment of another installation is not found: the app-server enrolls again
RefreshServer(s) ==
  /\ server[s].pc \in {"off", "ready"} /\ server[s].kept # "none" /\ refreshes < MaxRefresh
  /\ refreshes' = refreshes + 1
  /\ LET i == InstallationOf[s]
     IN  IF server[s].kept # i
         THEN server' = [server EXCEPT ![s].pc = "off", ![s].kept = "none"] /\ UNCHANGED hints
         ELSE /\ server' = [server EXCEPT ![s].pc = "ready"]
              /\ hints' = IF AgentOf[s] = "unknown" THEN hints
                          ELSE [hints EXCEPT ![i] = [kind |-> AgentOf[s], age |-> 0]]
  /\ UNCHANGED <<socket, recent, summary, givenUp, silence, rivals>>

-----------------------------------------------------------------------------
(* The WebSocket: run_websocket.                                            *)

\* seeded fault: the hint stays for the next connection
KeptHint(i) == hints

\* the hint of the installation is taken, in time or not
TakenHint(i) == [hints EXCEPT ![i] = NoHint]

Fresh(hint) == hint.kind # "unknown" /\ hint.age <= HintTtl

\* who has refreshed or enrolled and not connected since, were it because it stopped
AboutToConnect(s) ==
  {t \in Servers \ {s} : InstallationOf[t] = InstallationOf[s] /\ server[t].pc = "ready"}

\* without a hint the user agent counts, if the WebSocket has one
OpenSocket(s) ==
  /\ server[s].pc = "ready"
  /\ LET i == InstallationOf[s]
     IN  /\ \E agent \in {AgentOf[s], "unknown"} :
              socket' = [socket EXCEPT ![s] =
                [NoSocket EXCEPT !.on = TRUE, !.ping = PingPeriod,
                                 !.kind = IF Fresh(hints[i]) THEN hints[i].kind ELSE agent]]
         /\ hints' = TakenHint(i)
  /\ server' = [server EXCEPT ![s].pc = "open"]
  /\ rivals' = [rivals EXCEPT ![s] = AboutToConnect(s)]
  /\ HeardOf(s) /\ summary' = s /\ silence' = 0
  /\ UNCHANGED <<refreshes, givenUp>>

Shut(s) == /\ socket' = [socket EXCEPT ![s] = NoSocket]
           /\ server' = [server EXCEPT ![s].pc = "off", ![s].alive = TRUE]
           /\ rivals' = [rivals EXCEPT ![s] = {}]
           /\ recent' = OpenBut(s) /\ Sync

\* the app-server closes it, or the reader ends with an error: the queue of the
\* server work is full (enqueue_remote_server_work)
CloseSocket(s) == socket[s].on /\ server[s].alive /\ Shut(s) /\ UNCHANGED <<hints, refreshes, givenUp>>

\* the answer to initialize
BeInitialized(s) ==
  /\ socket[s].on /\ server[s].alive /\ ~socket[s].initialized /\ socket[s].busy = 0
  /\ socket' = [socket EXCEPT ![s].initialized = TRUE,
                              ![s].kind = IF @ = "unknown" THEN AgentOf[s] ELSE @]
  /\ HeardOf(s) /\ Sync
  /\ UNCHANGED <<server, hints, refreshes, givenUp, rivals>>

\* no more pongs: the computer sleeps, or the network is gone
FallSilent(s) ==
  /\ s \in Watched /\ socket[s].on /\ server[s].alive
  /\ server' = [server EXCEPT ![s].alive = FALSE]
  /\ UNCHANGED <<hints, socket, recent, summary, refreshes, givenUp, silence, rivals>>

\* MissedTickBehavior::Skip: a tick that is late by d is not made up for
NextTick(late, period) == period - (late % period)
Reads(s) == s \in Watched /\ socket[s].on /\ socket[s].busy = 0
Beat == UNCHANGED <<hints, refreshes>>

\* mark_remote_ws_ping, send_ws_control_ping
SendPing(s) ==
  /\ Reads(s) /\ socket[s].ping <= 0
  /\ \E latency \in 0..MaxLatency :
       socket' = [socket EXCEPT ![s].pinged = TRUE, ![s].ping = NextTick(-@, PingPeriod),
                                ![s].pong = IF @ = -1 /\ server[s].alive THEN latency ELSE @]
  /\ UNCHANGED recent /\ Sync
  /\ UNCHANGED <<server, givenUp, rivals>> /\ Beat

\* remote_control_liveness_stale_reason
Stale(c) == \/ ~c.initialized /\ c.age >= PongTimeout
            \/ c.pinged /\ c.since >= PongTimeout

\* remote_control_stale_reason looks at the summary
CheckSocket(s) ==
  /\ Reads(s) /\ socket[s].check <= 0
  /\ IF summary # Nobody /\ Stale(socket[summary])
     THEN /\ Shut(s)
          /\ givenUp' = IF server[s].alive /\ socket[s].initialized THEN givenUp \cup {<<s, summary>>} ELSE givenUp
     ELSE /\ socket' = [socket EXCEPT ![s].check = CheckPeriod]
          /\ UNCHANGED <<server, recent, summary, givenUp, silence, rivals>>
  /\ Beat

\* mark_remote_ws_pong
ReadPongFrame(s) ==
  /\ Reads(s) /\ socket[s].pong = 0
  /\ socket' = [socket EXCEPT ![s].pong = -1, ![s].since = 0, ![s].pinged = FALSE, ![s].held = 0]
  /\ HeardOf(s) /\ Sync
  /\ UNCHANGED <<server, givenUp, rivals>> /\ Beat

\* handle_server_envelope and the marks wait for the lock of the registry, never
\* for room in the queue of the server work (try_send); frames are read in the
\* order they came, so a pong that is here comes first
ReadEnvelope(s) ==
  /\ Reads(s) /\ server[s].alive /\ socket[s].pong # 0
  /\ \E block \in 1..(MaxBlock - socket[s].held) :
       socket' = [socket EXCEPT ![s].busy = block, ![s].held = @ + block]
  /\ HeardOf(s) /\ Sync
  /\ UNCHANGED <<server, givenUp, rivals>> /\ Beat

(* Time passes when no reader has anything left to do.  Ages are counted    *)
(* up to the limit they are compared with.                                  *)
Due(s) == Reads(s) /\ (socket[s].ping <= 0 \/ socket[s].check <= 0 \/ socket[s].pong = 0)
UpTo(limit, n) == IF n < limit THEN n + 1 ELSE n
Aged(c) == IF ~c.on THEN c
           ELSE [c EXCEPT !.age = UpTo(PongTimeout, @), !.since = UpTo(PongTimeout, @), !.ping = @ - 1,
                          !.check = @ - 1, !.pong = IF @ > 0 THEN @ - 1 ELSE @,
                          !.busy = IF @ > 0 THEN @ - 1 ELSE 0]

NoticedBy == PongTimeout + PingPeriod + MaxLatency + MaxBlock + CheckPeriod

PassTime ==
  /\ ~\E s \in Servers : Due(s)
  /\ socket' = [s \in Servers |-> IF s \in Watched THEN Aged(socket[s]) ELSE socket[s]]
  /\ hints' = [i \in Installations |-> IF hints[i].kind = "unknown" THEN hints[i]
                                       ELSE [hints[i] EXCEPT !.age = UpTo(HintTtl + 1, @)]]
  /\ silence' = IF summary \in Servers /\ ~server[summary].alive THEN UpTo(NoticedBy + 1, silence) ELSE 0
  /\ UNCHANGED <<server, recent, summary, refreshes, givenUp, rivals>>

EnrollmentNext ==
  \/ PassTime
  \/ \E s \in Servers : \/ Enroll(s) \/ RefreshServer(s) \/ OpenSocket(s) \/ CloseSocket(s) \/ BeInitialized(s)
                        \/ FallSilent(s) \/ SendPing(s) \/ CheckSocket(s) \/ ReadPongFrame(s) \/ ReadEnvelope(s)
EnrollmentSpec == EnrollmentInit /\ [][EnrollmentNext]_enrollmentVars

-----------------------------------------------------------------------------
(* Properties.                                                              *)

(* A connection is taken for the kind of its own app-server, or for none,   *)
(* however refreshes and connections of one installation mix; but for that  *)
(* of another that has announced itself and not connected since.            *)
KindsAreTold ==
  \A s \in Servers :
    socket[s].on => socket[s].kind \in {"unknown", AgentOf[s]} \cup {AgentOf[t] : t \in rivals[s]}

(* The heartbeats tell the truth of the connection the summary follows: if  *)
(* its app-server answers and was initialized it is not given up, however   *)
(* late the reader gets to a pong within the bounds, and if it has fallen   *)
(* silent it is given up in time.  The time starts again when the summary   *)
(* goes elsewhere: a connection that comes before each check and ends after *)
(* it hides the silence of another.                                         *)
HeartbeatsTellTheTruth ==
  /\ \A g \in givenUp : g[1] # g[2]
  /\ silence <= NoticedBy

(* What the hub takes a connection for, it is: of its kind, unless another  *)
(* app-server of the installation was about to connect, and alive if it is  *)
(* the one the summary follows.                                             *)
ConnectionsAreKnown == KindsAreTold /\ HeartbeatsTellTheTruth

(* Not so: "connections do not override each other"                         *)
(* (docs/remote-control-multi-endpoint-routing.zh-CN.md, section 2), no     *)
(* live connection is given up for the silence of another.                  *)
ConnectionsLiveOnTheirOwn == \A g \in givenUp : g[1] = g[2]
=============================================================================
