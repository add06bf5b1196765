-------------------------- MODULE RemoteConnections --------------------------
(***************************************************************************)
(* The registry behind the mutex RemoteControlState.inner of codexhub      *)
(* (src/remote_control_backend/client_state.rs and its callers): the open  *)
(* app-server WebSocket connections, the logical ("virtual") clients keyed *)
(* by client key, and the legacy summary fields that older code reads.     *)
(*                                                                         *)
(* A critical section of that mutex is one operator on the record r of the *)
(* protected state, and one action of this module.  Sections are taken     *)
(* here in any order, with any arguments their callers could hold, stale   *)
(* ones included; RemoteControl.tla says which order the tasks really use  *)
(* and is checked to implement this specification.                         *)
(***************************************************************************)
EXTENDS Naturals, Sequences

CONSTANTS MaxEpoch,   \* bound: WebSockets opened in one run of the program
          ImKeys,     \* client keys of IM routes ("im:<platform>:<chat>")
          OpenKinds   \* source kinds the app-servers of this instance have

Kinds == {"codex_app", "vscode", "cli", "unknown"}
Priority == [codex_app |-> 40, vscode |-> 30, cli |-> 20, unknown |-> 10]

(* The key "default:<kind>" is represented by its kind.                     *)
Default == "default"
NoKey == "no key"
DefaultKeys == Kinds \cup {Default}
Keys == ImKeys \cup DefaultKeys

Epochs == 1..MaxEpoch
None == 0

ASSUME MaxEpochAssumption == MaxEpoch \in Nat \ {0}
ASSUME OpenKindsAssumption == OpenKinds \subseteq Kinds /\ OpenKinds # {}
ASSUME ImKeysAssumption == ImKeys \cap (DefaultKeys \cup {NoKey}) = {}

(* stable_id("stream", base:key) is a hash, taken to be injective; the root *)
(* is the random id drawn when the first client is made.                    *)
Streams == Seq(Keys)
StreamId(base, key) == Append(base, key)
RootStream == << >>

VARIABLE remote

(***************************************************************************)
(* live      epochs in the connections map; every entry has connected=true *)
(*           and an outbound_tx, no code resets either, so that "live" is  *)
(*           also the filter of prune and select                           *)
(* kind, init, dkey   source_kind, initialized, default_client_key of each *)
(* newer     <<e, f>>: last_ws_inbound_at_ms of e is later than that of f  *)
(* next      next_connection_epoch                                         *)
(* connected, initialized, epoch, active, stream   the legacy summary;     *)
(*           "connected" also stands for outbound_tx.is_some(): the two    *)
(*           are written together everywhere                               *)
(* known     keys of the clients map; cstream, cinit, recovering: stream   *)
(*           id, initialized, recovery_started_at_ms of each client        *)
(***************************************************************************)
InitialRemote ==
  [live |-> {}, kind |-> [e \in Epochs |-> "unknown"],
   init |-> [e \in Epochs |-> FALSE], dkey |-> [e \in Epochs |-> Default],
   newer |-> {}, next |-> 0,
   connected |-> FALSE, initialized |-> FALSE, epoch |-> None,
   active |-> None, stream |-> RootStream,
   known |-> {}, cstream |-> [k \in Keys |-> RootStream],
   cinit |-> [k \in Keys |-> FALSE], recovering |-> [k \in Keys |-> FALSE]]

-----------------------------------------------------------------------------
(* Choosing the active connection.                                          *)

\* e comes after f in the order of max_by_key
Better(r, e, f) ==
  IF r.init[e] # r.init[f] THEN r.init[e]
  ELSE IF r.kind[e] # r.kind[f] THEN Priority[r.kind[e]] > Priority[r.kind[f]]
  ELSE <<e, f>> \in r.newer

Selected(r) == {e \in r.live : \A f \in r.live \ {e} : Better(r, e, f)}

SelectActive(r) ==
  IF Selected(r) = {} THEN None ELSE CHOOSE e \in Selected(r) : TRUE

ActiveKey(r) == IF SelectActive(r) = None THEN Default ELSE r.dkey[SelectActive(r)]

\* legacy fields from the client that is the default of the active connection
SyncDefault(r) ==
  LET k == ActiveKey(r)
  IN  IF k \in r.known
      THEN [r EXCEPT !.initialized = r.cinit[k], !.stream = r.cstream[k]]
      ELSE r

\* the same, when the client just changed is a default one
SyncIfDefault(r, k) == IF k \in DefaultKeys THEN SyncDefault(r) ELSE r

\* legacy fields from the active connection
SyncLegacy(r) ==
  LET e == SelectActive(r)
  IN  IF r.live = {}
      THEN IF r.connected THEN SyncDefault([r EXCEPT !.active = None])
           ELSE [r EXCEPT !.active = None, !.initialized = FALSE]
      ELSE IF e = None  \* never: OneConnectionIsSelected
      THEN [r EXCEPT !.active = None, !.initialized = FALSE]
      ELSE [r EXCEPT !.active = e, !.connected = TRUE, !.epoch = e,
                     !.initialized = r.init[e],
                     !.cinit[Default] = IF Default \in r.known THEN r.init[e] ELSE @]

\* connection_exists_locked: without connections the legacy fields decide
Exists(r, e) ==
  IF r.live = {} THEN r.epoch = e /\ r.connected ELSE e \in r.live

\* outbound_tx_for_connection_epoch_locked finds a sender for e
HasTx(r, e) == Exists(r, e)

\* resolve_remote_client_key_for_connection_locked
ResolveOn(r, e, k) ==
  IF k \notin DefaultKeys THEN k
  ELSE IF e \in r.live THEN r.dkey[e] ELSE Default

KeysForStream(r, s) == {k \in r.known : r.cstream[k] = s}

-----------------------------------------------------------------------------
(* Critical sections that change the registry.                              *)

EnsureClient(r, k) ==
  IF k \in r.known THEN r
  ELSE [r EXCEPT !.known = @ \cup {k},
                 !.cstream[k] = IF k = Default THEN r.stream
                                ELSE StreamId(r.stream, k),
                 !.cinit[k] = FALSE, !.recovering[k] = FALSE]

\* seeded fault: connections that are not initialized yet are pruned too
PruneUninitialized(r) ==
  LET kept == {e \in r.live : r.init[e]}
  IN  [r EXCEPT !.live = kept, !.active = IF @ \in kept THEN @ ELSE None,
                !.newer = {p \in @ : p[1] \in kept /\ p[2] \in kept}]

\* every entry of the map passes the filter, so only a dangling active id goes
Prune(r) == [r EXCEPT !.active = IF @ \in r.live THEN @ ELSE None]

MakeNewest(r, e) ==
  [r EXCEPT !.newer = {p \in @ : p[1] # e /\ p[2] # e}
                      \cup {<<e, f>> : f \in r.live \ {e}}]

\* run_websocket: the section that registers a new connection
OpenConnection(r, kind) ==
  LET e  == r.next + 1
      r1 == EnsureClient([r EXCEPT !.next = e, !.epoch = e, !.connected = TRUE,
                                   !.initialized = FALSE], kind)
      r2 == [r1 EXCEPT !.live = @ \cup {e}, !.kind[e] = kind,
                       !.init[e] = FALSE, !.dkey[e] = kind]
  IN  SyncDefault(Prune(MakeNewest(r2, e)))

\* seeded fault: neither pruned nor synchronized after the removal
CloseConnectionOnly(r, e) ==
  [r EXCEPT !.live = @ \ {e}, !.newer = {p \in @ : p[1] # e /\ p[2] # e}]

\* run_websocket: the section that unregisters a connection
CloseConnection(r, e) ==
  SyncLegacy(Prune([r EXCEPT !.live = @ \ {e},
                             !.newer = {p \in @ : p[1] # e /\ p[2] # e}]))

Owners(r, k) == {e \in r.live : r.dkey[e] = k}

\* seeded fault: owner_count is not checked
CanMigrateShared(r, e, k, kind, s) ==
  /\ kind # "unknown" /\ k \in DefaultKeys /\ k # kind
  /\ e \in Owners(r, k)
  /\ kind \notin r.known
  /\ k \in r.known /\ r.cstream[k] = s

CanMigrate(r, e, k, kind, s) ==
  /\ kind # "unknown"
  /\ k \in DefaultKeys
  /\ k # kind
  /\ Owners(r, k) = {e}
  /\ kind \notin r.known
  /\ k \in r.known /\ r.cstream[k] = s

MigratedKey(r, e, k, kind, s) == IF CanMigrate(r, e, k, kind, s) THEN kind ELSE k

\* seeded fault: the new key gets a new client
MigrateAfresh(r, e, k, kind, s) ==
  IF ~CanMigrate(r, e, k, kind, s) THEN r
  ELSE EnsureClient([r EXCEPT !.known = @ \ {k}, !.dkey[e] = kind], kind)

Migrate(r, e, k, kind, s) ==
  IF ~CanMigrate(r, e, k, kind, s) THEN r
  ELSE [r EXCEPT !.known = (@ \ {k}) \cup {kind},
                 !.cstream = [@ EXCEPT ![kind] = r.cstream[k], ![k] = RootStream],
                 !.cinit = [@ EXCEPT ![kind] = r.cinit[k], ![k] = FALSE],
                 !.recovering = [@ EXCEPT ![kind] = r.recovering[k], ![k] = FALSE],
                 !.dkey[e] = kind]

MarkInitialized(r, k) ==
  IF k \in r.known
  THEN [r EXCEPT !.cinit[k] = TRUE, !.recovering[k] = FALSE] ELSE r

\* the kind and the client key an initialize result on e ends up with
ResultKind(r, e, ua) == IF e \in r.live /\ r.kind[e] # "unknown" THEN r.kind[e] ELSE ua
ResultKey(r, e, k, s, ua) ==
  IF k = NoKey THEN NoKey ELSE MigratedKey(r, e, k, ResultKind(r, e, ua), s)

\* observe_app_server_message: the result of an initialize, received on e with
\* user agent ua, for stream s, whose client key was k when it was looked up
InitializeResult(r, e, k, s, ua) ==
  LET kind == ResultKind(r, e, ua)
      r1   == IF e \in r.live
              THEN [r EXCEPT !.init[e] = TRUE, !.kind[e] = kind] ELSE r
      k2   == ResultKey(r, e, k, s, ua)
      r2   == IF k = NoKey THEN r1
              ELSE SyncIfDefault(MarkInitialized(Migrate(r1, e, k, kind, s), k2), k2)
  IN  SyncLegacy(r2)

\* observe_app_server_message: the "initialized" notification
InitializedNotification(r, e, k) ==
  LET r1 == IF e \in r.live THEN [r EXCEPT !.init[e] = TRUE] ELSE r
  IN  SyncLegacy(IF k = NoKey THEN r1 ELSE SyncIfDefault(MarkInitialized(r1, k), k))

\* mark_remote_ws_inbound, mark_remote_ws_pong
TouchConnection(r, e) ==
  IF e \in r.live THEN SyncLegacy(MakeNewest(r, e)) ELSE r

\* record_remote_app_pong, after the mark_remote_ws_inbound of its frame
RecordPong(r, e, k) == SyncIfDefault(TouchConnection(r, e), k)

\* reset_remote_control_client_for_key, and the first section of
\* start_remote_control_client_recovery when it starts one
ResetClient(r, k) ==
  SyncIfDefault([EnsureClient(r, k) EXCEPT !.cinit[k] = FALSE], k)
BeginRecovery(r, k) ==
  SyncIfDefault([EnsureClient(r, k) EXCEPT !.cinit[k] = FALSE,
                                           !.recovering[k] = TRUE], k)
EndRecovery(r, k) ==
  SyncIfDefault([r EXCEPT !.recovering[k] = FALSE], k)

\* any section that only makes sure a client exists before it uses it
UseClient(r, k) == SyncIfDefault(EnsureClient(r, k), k)

-----------------------------------------------------------------------------
\* keys a caller can hold: IM routes, kinds seen, and the bare default
UsableKeys == ImKeys \cup OpenKinds \cup {Default}

Open == /\ remote.next < MaxEpoch
        /\ \E kind \in OpenKinds : remote' = OpenConnection(remote, kind)

Close == \E e \in remote.live : remote' = CloseConnection(remote, e)

Touch == \E e \in remote.live :
           remote' \in {TouchConnection(remote, e), RecordPong(remote, e, Default)}

Result ==
  remote' \in {InitializeResult(remote, e, k, s, ua) :
                 e \in 1..remote.next, k \in UsableKeys \cup {NoKey},
                 s \in {remote.cstream[j] : j \in remote.known}, ua \in OpenKinds}

Notification ==
  remote' \in {InitializedNotification(remote, e, k) : e \in 1..remote.next, k \in remote.known \cup {NoKey}}

UseAnyClient == \E k \in UsableKeys :
  /\ \E e \in Epochs : Exists(remote, e)
  /\ remote' \in {UseClient(remote, k), EnsureClient(remote, k), ResetClient(remote, k)}

Recover == \E k \in UsableKeys :
  /\ \E e \in Epochs : Exists(remote, e)
  /\ \/ remote' = BeginRecovery(remote, k)
     \/ k \in remote.known /\ remote' = EndRecovery(remote, k)

\* status_snapshot, connection_epoch_for_client_key_locked and the error paths
\* of a failed send
Refresh == remote' \in {SyncLegacy(Prune(remote)), SyncLegacy(remote),
                        SyncDefault(remote)}

RegistryInit == remote = InitialRemote

RegistryNext == Open \/ Close \/ Touch \/ Result \/ Notification
                  \/ UseAnyClient \/ Recover \/ Refresh

RegistrySpec == RegistryInit /\ [][RegistryNext]_remote

-----------------------------------------------------------------------------
(* Types of the protected record.                                           *)
RemoteType ==
  [live : SUBSET Epochs, kind : [Epochs -> Kinds], init : [Epochs -> BOOLEAN],
   dkey : [Epochs -> DefaultKeys], newer : SUBSET (Epochs \X Epochs),
   next : 0..MaxEpoch, connected : BOOLEAN, initialized : BOOLEAN,
   epoch : Epochs \cup {None}, active : Epochs \cup {None}, stream : Streams,
   known : SUBSET Keys, cstream : [Keys -> Streams],
   cinit : [Keys -> BOOLEAN], recovering : [Keys -> BOOLEAN]]

TypeOK == remote \in RemoteType

(* The default client of every open connection is registered, and its key   *)
(* is of the connection's kind or still "unknown": although two connections *)
(* may share a key and an initialize result may move the client of one of   *)
(* them to another key, the other is never left with a key that leads       *)
(* nowhere (owner_count in migrate_source_default_client_key_locked).       *)
DefaultClientsRegistered ==
  \A e \in remote.live : /\ remote.dkey[e] \in remote.known
                         /\ remote.dkey[e] \in {remote.kind[e], "unknown"}

(* active_connection_id never dangles between critical sections: a section  *)
(* that removes the connection it names moves or clears it.                 *)
ActiveIsOpen == remote.active \in remote.live \cup {None}

(* The order of select_active_connection_id_locked has exactly one greatest *)
(* connection whenever one is open, so the legacy summary always has a      *)
(* connection to follow.                                                    *)
OneConnectionIsSelected ==
  remote.live # {} => \E e \in remote.live : Selected(remote) = {e}

(* Whatever order connections open, close and are used in, there is always  *)
(* an open one to select, one only, and what is selected is open.           *)
SelectionIsSound == ActiveIsOpen /\ OneConnectionIsSelected

(* A stream id handed to an app-server stays the stream id of some client   *)
(* for good: neither closing a connection nor moving a client to the key of *)
(* its kind makes replies on that stream unroutable.                        *)
StreamsStayRouted ==
  [][\A k \in remote.known :
       \/ k \in remote'.known /\ remote'.cstream[k] = remote.cstream[k]
       \/ \E j \in remote'.known \ remote.known :
             remote'.cstream[j] = remote.cstream[k]]_remote
=============================================================================
