-------------------------- MODULE RemoteControl_proofs --------------------------
(***************************************************************************)
(* Proofs about the remote-control backend, for every number of            *)
(* connections, requests, recoveries, IM keys and source kinds: what the   *)
(* registry keeps (RemoteConnections), that what the tasks do to it is     *)
(* what RemoteConnections allows (the refinement), and that what the       *)
(* pending maps hold is what somebody waits for.                           *)
(***************************************************************************)
EXTENDS RemoteControl, TLAPS

-----------------------------------------------------------------------------
(* The registry.  The lemmas say of each critical section what it does to   *)
(* an arbitrary record r; the theorems put them together along RegistryNext.*)

(* The inductive invariant, of a record.                                    *)
ActiveOpen(r) == r.active \in r.live \cup {None}
Registered(r) == \A e \in r.live : /\ r.dkey[e] \in r.known
                                   /\ r.dkey[e] \in {r.kind[e], "unknown"}
Good(r) == r \in RemoteType /\ ActiveOpen(r) /\ Registered(r)

(* q differs from r at most in the legacy summary and in initialized flags. *)
SameRegistry(q, r) ==
  /\ q.live = r.live /\ q.kind = r.kind /\ q.dkey = r.dkey
  /\ q.known = r.known /\ q.cstream = r.cstream

-----------------------------------------------------------------------------
LEMMA KeyFacts ==
  /\ Kinds \subseteq DefaultKeys /\ Default \in DefaultKeys
  /\ DefaultKeys \subseteq Keys /\ ImKeys \subseteq Keys
  /\ "unknown" \in Kinds /\ Default \notin Kinds
  /\ OpenKinds \subseteq Kinds
BY OpenKindsAssumption DEF Kinds, DefaultKeys, Default, Keys

\* the greatest connection, if there is one, is open
LEMMA SelectActiveIsOpen ==
  ASSUME NEW r PROVE SelectActive(r) \in r.live \cup {None}
BY DEF SelectActive, Selected

LEMMA ActiveKeyType ==
  ASSUME NEW r \in RemoteType PROVE ActiveKey(r) \in DefaultKeys
BY SelectActiveIsOpen, KeyFacts DEF ActiveKey, RemoteType

\* refreshing the legacy fields leaves the registry alone
LEMMA SyncDefaultLemma ==
  ASSUME NEW r \in RemoteType
  PROVE  /\ SyncDefault(r) \in RemoteType
         /\ SameRegistry(SyncDefault(r), r)
         /\ SyncDefault(r).active = r.active
<1> DEFINE k == ActiveKey(r)
<1>1. k \in Keys
  BY ActiveKeyType, KeyFacts
<1>2. CASE k \in r.known
  <2>1. r.cinit[k] \in BOOLEAN /\ r.cstream[k] \in Streams
    BY <1>1 DEF RemoteType
  <2>2. SyncDefault(r) = [r EXCEPT !.initialized = r.cinit[k], !.stream = r.cstream[k]]
    BY <1>2 DEF SyncDefault
  <2> QED
    BY <2>1, <2>2 DEF RemoteType, SameRegistry
<1>3. CASE k \notin r.known
  BY <1>3 DEF SyncDefault, SameRegistry
<1> QED
  BY <1>2, <1>3

LEMMA SyncIfDefaultLemma ==
  ASSUME NEW r \in RemoteType, NEW k
  PROVE  /\ SyncIfDefault(r, k) \in RemoteType
         /\ SameRegistry(SyncIfDefault(r, k), r)
         /\ SyncIfDefault(r, k).active = r.active
BY SyncDefaultLemma DEF SyncIfDefault, SameRegistry

\* the legacy summary follows an open connection
LEMMA SyncLegacyLemma ==
  ASSUME NEW r \in RemoteType
  PROVE  /\ SyncLegacy(r) \in RemoteType
         /\ SameRegistry(SyncLegacy(r), r)
         /\ ActiveOpen(SyncLegacy(r))
<1> DEFINE e == SelectActive(r)
           r1 == [r EXCEPT !.active = None]
<1>1. e \in r.live \cup {None}
  BY SelectActiveIsOpen
<1>2. CASE r.live = {}
  <2>1. r1 \in RemoteType
    BY DEF RemoteType, None
  <2>2. /\ SyncDefault(r1) \in RemoteType
        /\ SameRegistry(SyncDefault(r1), r1)
        /\ SyncDefault(r1).active = r1.active
    BY <2>1, SyncDefaultLemma
  <2>3. CASE r.connected
    <3>1. SyncLegacy(r) = SyncDefault(r1)
      BY <1>2, <2>3 DEF SyncLegacy
    <3>2. SameRegistry(r1, r) /\ r1.active = None
      BY DEF SameRegistry, RemoteType
    <3> QED
      BY <2>2, <3>1, <3>2 DEF SameRegistry, ActiveOpen
  <2>4. CASE ~r.connected
    <3>1. SyncLegacy(r) = [r EXCEPT !.active = None, !.initialized = FALSE]
      BY <1>2, <2>4 DEF SyncLegacy
    <3> QED
      BY <3>1 DEF RemoteType, SameRegistry, ActiveOpen
  <2> QED
    BY <2>3, <2>4
<1>3. CASE r.live # {} /\ e = None
  <2>1. SyncLegacy(r) = [r EXCEPT !.active = None, !.initialized = FALSE]
    BY <1>3 DEF SyncLegacy
  <2> QED
    BY <2>1 DEF RemoteType, SameRegistry, ActiveOpen
<1>4. CASE r.live # {} /\ e # None
  <2> DEFINE v == IF Default \in r.known THEN r.init[e] ELSE r.cinit[Default]
             ci == [r.cinit EXCEPT ![Default] = v]
  <2>1. e \in r.live /\ e \in Epochs
    BY <1>1, <1>4 DEF RemoteType
  <2>2. r.init[e] \in BOOLEAN /\ v \in BOOLEAN /\ Default \in Keys
    BY <2>1, KeyFacts DEF RemoteType
  <2>3. SyncLegacy(r) =
          [r EXCEPT !.active = e, !.connected = TRUE, !.epoch = e,
                    !.initialized = r.init[e], !.cinit = ci]
    BY <1>4, <2>2 DEF SyncLegacy, RemoteType
  <2>4. ci \in [Keys -> BOOLEAN]
    BY <2>2 DEF RemoteType
  <2> HIDE DEF e, ci
  <2> QED
    BY <2>1, <2>2, <2>3, <2>4 DEF RemoteType, SameRegistry, ActiveOpen
<1> QED
  BY <1>2, <1>3, <1>4

\* making sure of a client adds at most its own key
LEMMA EnsureClientLemma ==
  ASSUME NEW r \in RemoteType, NEW k \in Keys
  PROVE  /\ EnsureClient(r, k) \in RemoteType
         /\ EnsureClient(r, k).known = r.known \cup {k}
         /\ \A j \in r.known : EnsureClient(r, k).cstream[j] = r.cstream[j]
         /\ EnsureClient(r, k).live = r.live /\ EnsureClient(r, k).kind = r.kind
         /\ EnsureClient(r, k).dkey = r.dkey /\ EnsureClient(r, k).active = r.active
<1>1. CASE k \in r.known
  BY <1>1 DEF EnsureClient
<1>2. CASE k \notin r.known
  <2> DEFINE s == IF k = Default THEN r.stream ELSE StreamId(r.stream, k)
  <2>1. s \in Streams
    BY DEF Streams, StreamId, RemoteType
  <2> DEFINE cs == [r.cstream EXCEPT ![k] = s]
             ci == [r.cinit EXCEPT ![k] = FALSE]
             rec == [r.recovering EXCEPT ![k] = FALSE]
             kn == r.known \cup {k}
  <2>2. EnsureClient(r, k) = [r EXCEPT !.known = kn, !.cstream = cs,
                                       !.cinit = ci, !.recovering = rec]
    BY <1>2 DEF EnsureClient, RemoteType
  <2>3. /\ cs \in [Keys -> Streams] /\ ci \in [Keys -> BOOLEAN]
        /\ rec \in [Keys -> BOOLEAN] /\ kn \in SUBSET Keys
        /\ \A j \in r.known : cs[j] = r.cstream[j]
    BY <1>2, <2>1 DEF RemoteType
  <2> HIDE DEF cs, ci, rec, kn
  <2> QED
    BY <2>2, <2>3 DEF RemoteType, kn
<1> QED
  BY <1>1, <1>2

LEMMA PruneLemma ==
  ASSUME NEW r \in RemoteType
  PROVE  /\ Prune(r) \in RemoteType
         /\ SameRegistry(Prune(r), r)
         /\ ActiveOpen(Prune(r))
BY DEF Prune, RemoteType, SameRegistry, ActiveOpen

LEMMA MakeNewestLemma ==
  ASSUME NEW r \in RemoteType, NEW e \in Epochs
  PROVE  /\ MakeNewest(r, e) \in RemoteType
         /\ SameRegistry(MakeNewest(r, e), r)
         /\ MakeNewest(r, e).active = r.active
BY DEF MakeNewest, RemoteType, SameRegistry

-----------------------------------------------------------------------------
(* The order of the connections.  That a greatest one exists needs no       *)
(* induction on their number: every set of open connections has a newest    *)
(* one is itself kept by each critical section.                             *)
Newest(r, e, S) == e \in S /\ \A f \in S \ {e} : <<e, f>> \in r.newer
Ordered(r) == /\ \A S \in SUBSET r.live : S # {} => \E e \in S : Newest(r, e, S)
              /\ \A e, f \in r.live : <<e, f>> \in r.newer => <<f, e>> \notin r.newer
SameOrder(q, r) == q.live = r.live /\ q.newer = r.newer

LEMMA SameOrderOrdered ==
  ASSUME NEW r, Ordered(r), NEW q, SameOrder(q, r)
  PROVE  Ordered(q)
BY DEF Ordered, SameOrder, Newest

\* the newest of several open connections of one kind and flag is the greatest
LEMMA OrderedSelects ==
  ASSUME NEW r \in RemoteType, Ordered(r), r.live # {}
  PROVE  \E e \in r.live : Selected(r) = {e}
<1> DEFINE S1 == IF \E e \in r.live : r.init[e] THEN {e \in r.live : r.init[e]} ELSE r.live
           Of(kind) == {e \in S1 : r.kind[e] = kind}
           S2 == IF Of("codex_app") # {} THEN Of("codex_app")
                 ELSE IF Of("vscode") # {} THEN Of("vscode")
                 ELSE IF Of("cli") # {} THEN Of("cli") ELSE Of("unknown")
<1>1. /\ Priority["codex_app"] = 40 /\ Priority["vscode"] = 30
      /\ Priority["cli"] = 20 /\ Priority["unknown"] = 10
  BY DEF Priority
<1>2. /\ r.live \subseteq Epochs
      /\ \A e \in r.live : r.init[e] \in BOOLEAN /\ r.kind[e] \in Kinds
  BY DEF RemoteType
<1>3. S1 # {} /\ S1 \subseteq r.live
  OBVIOUS
<1>4. \A e \in S1, f \in S1 : r.init[e] = r.init[f]
  BY <1>2
<1>5. \A e \in S1, f \in r.live : f \notin S1 => r.init[e] /\ ~r.init[f]
  BY <1>2
<1> HIDE DEF S1
<1>6. S2 # {} /\ S2 \subseteq S1
  BY <1>2, <1>3 DEF Kinds
<1>7. \A e \in S2, f \in S1 : /\ f \in S2 => r.kind[e] = r.kind[f]
                              /\ f \notin S2 => r.kind[e] # r.kind[f]
                                              /\ Priority[r.kind[e]] > Priority[r.kind[f]]
  BY <1>1, <1>2, <1>3 DEF Kinds
<1> HIDE DEF S2, Of
<1>8. PICK e \in S2 : Newest(r, e, S2)
  BY <1>3, <1>6 DEF Ordered
<1>9. e \in r.live /\ e \in S1
  BY <1>3, <1>6
<1>10. \A f \in r.live \ {e} : Better(r, e, f) /\ ~Better(r, f, e)
  <2> SUFFICES ASSUME NEW f \in r.live \ {e} PROVE Better(r, e, f) /\ ~Better(r, f, e)
    OBVIOUS
  <2>1. CASE f \notin S1
    BY <1>5, <1>9, <2>1 DEF Better
  <2>2. CASE f \in S1 /\ f \notin S2
    <3>1. r.init[e] = r.init[f] /\ r.kind[e] # r.kind[f]
      BY <1>4, <1>7, <1>9, <2>2
    <3>2. Priority[r.kind[e]] > Priority[r.kind[f]] /\ ~(Priority[r.kind[f]] > Priority[r.kind[e]])
      BY <1>1, <1>2, <1>7, <1>9, <2>2 DEF Kinds
    <3> QED
      BY <3>1, <3>2 DEF Better
  <2>3. CASE f \in S2
    <3>1. r.init[e] = r.init[f] /\ r.kind[e] = r.kind[f]
      BY <1>4, <1>6, <1>7, <1>9, <2>3
    <3>2. <<e, f>> \in r.newer /\ <<f, e>> \notin r.newer
      BY <1>8, <1>9, <2>3 DEF Newest, Ordered
    <3> QED
      BY <3>1, <3>2 DEF Better
  <2> QED
    BY <2>1, <2>2, <2>3
<1>11. Selected(r) = {e}
  BY <1>9, <1>10 DEF Selected
<1> QED
  BY <1>9, <1>11

\* becoming the newest keeps the order, also for a connection just opened
LEMMA MakeNewestOrders ==
  ASSUME NEW r \in RemoteType, NEW e \in r.live,
         \A S \in SUBSET (r.live \ {e}) : S # {} => \E f \in S : Newest(r, f, S),
         \A f, g \in r.live \ {e} : <<f, g>> \in r.newer => <<g, f>> \notin r.newer
  PROVE  Ordered(MakeNewest(r, e))
<1> DEFINE nw == {p \in r.newer : p[1] # e /\ p[2] # e} \cup {<<e, f>> : f \in r.live \ {e}}
           q  == MakeNewest(r, e)
<1>1. q.live = r.live /\ q.newer = nw
  BY DEF MakeNewest, RemoteType
<1>2. \A f, g : f # e /\ g # e => (<<f, g>> \in nw <=> <<f, g>> \in r.newer)
  OBVIOUS
<1>3. \A f \in r.live \ {e} : <<e, f>> \in nw /\ <<f, e>> \notin nw
  OBVIOUS
<1>4. <<e, e>> \notin nw
  OBVIOUS
<1> HIDE DEF nw, q
<1>5. ASSUME NEW S \in SUBSET r.live, S # {} PROVE \E f \in S : Newest(q, f, S)
  <2>1. CASE e \in S
    BY <1>1, <1>3, <2>1 DEF Newest
  <2>2. CASE e \notin S
    <3>1. PICK f \in S : Newest(r, f, S)
      BY <1>5, <2>2
    <3> QED
      BY <1>1, <1>2, <2>2, <3>1 DEF Newest
  <2> QED
    BY <2>1, <2>2
<1>6. ASSUME NEW f \in r.live, NEW g \in r.live, <<f, g>> \in nw PROVE <<g, f>> \notin nw
  BY <1>2, <1>3, <1>4, <1>6
<1> QED
  BY <1>1, <1>5, <1>6 DEF Ordered, q

-----------------------------------------------------------------------------
(* A client that is known stays known, or its stream moves to a new key.    *)
Routed(r, q) ==
  \A k \in r.known : \/ k \in q.known /\ q.cstream[k] = r.cstream[k]
                     \/ \E j \in q.known \ r.known : q.cstream[j] = r.cstream[k]

\* what each critical section does with a good record r
Keeps(r, q) == Good(q) /\ Routed(r, q)

LEMMA RefreshKeeps ==
  ASSUME NEW r, NEW q \in RemoteType, Registered(r), SameRegistry(q, r), ActiveOpen(q)
  PROVE  Keeps(r, q)
BY DEF Keeps, Good, Routed, Registered, SameRegistry

LEMMA EnsureClientKeeps ==
  ASSUME NEW r, Good(r), NEW k \in Keys
  PROVE  Keeps(r, EnsureClient(r, k))
<1>1. r \in RemoteType /\ ActiveOpen(r) /\ Registered(r)
  BY DEF Good
<1> QED
  BY <1>1, EnsureClientLemma DEF Keeps, Good, Routed, Registered, ActiveOpen

LEMMA SyncIfDefaultKeeps ==
  ASSUME NEW r, Good(r), NEW q, Keeps(r, q), NEW k
  PROVE  Keeps(r, SyncIfDefault(q, k))
<1>1. q \in RemoteType /\ ActiveOpen(q) /\ Registered(q) /\ Routed(r, q)
  BY DEF Keeps, Good
<1>2. /\ SyncIfDefault(q, k) \in RemoteType
      /\ SameRegistry(SyncIfDefault(q, k), q)
      /\ SyncIfDefault(q, k).active = q.active
  BY <1>1, SyncIfDefaultLemma
<1>3. ActiveOpen(SyncIfDefault(q, k))
  BY <1>1, <1>2 DEF ActiveOpen, SameRegistry
<1> QED
  BY <1>1, <1>2, <1>3 DEF Keeps, Good, Registered, Routed, SameRegistry

LEMMA SyncLegacyKeeps ==
  ASSUME NEW r, NEW q \in RemoteType, Registered(q), Routed(r, q)
  PROVE  Keeps(r, SyncLegacy(q))
<1>1. /\ SyncLegacy(q) \in RemoteType /\ SameRegistry(SyncLegacy(q), q)
      /\ ActiveOpen(SyncLegacy(q))
  BY SyncLegacyLemma
<1> QED
  BY <1>1 DEF Keeps, Good, Registered, Routed, SameRegistry

\* a new connection starts out with its own default client
LEMMA OpenConnectionKeeps ==
  ASSUME NEW r, Good(r), NEW kind \in Kinds, r.next < MaxEpoch
  PROVE  Keeps(r, OpenConnection(r, kind))
<1> DEFINE e  == r.next + 1
           r0 == [r EXCEPT !.next = e, !.epoch = e, !.connected = TRUE,
                           !.initialized = FALSE]
           r1 == EnsureClient(r0, kind)
           lv == r1.live \cup {e}
           kd == [r1.kind EXCEPT ![e] = kind]
           it == [r1.init EXCEPT ![e] = FALSE]
           dk == [r1.dkey EXCEPT ![e] = kind]
           r2 == [r1 EXCEPT !.live = lv, !.kind = kd, !.init = it, !.dkey = dk]
           r3 == MakeNewest(r2, e)
<1>1. r \in RemoteType /\ ActiveOpen(r) /\ Registered(r)
  BY DEF Good
<1>2. e \in Epochs /\ e \in 0..MaxEpoch
  BY <1>1, MaxEpochAssumption DEF RemoteType, Epochs
<1>3. /\ r0 \in RemoteType /\ r0.live = r.live /\ r0.kind = r.kind /\ r0.dkey = r.dkey
      /\ r0.known = r.known /\ r0.cstream = r.cstream
  <2> HIDE DEF e
  <2> QED
    BY <1>1, <1>2 DEF RemoteType
<1>4. kind \in Keys /\ kind \in DefaultKeys
  BY KeyFacts
<1>5. /\ r1 \in RemoteType /\ r1.known = r.known \cup {kind}
      /\ r1.live = r.live /\ r1.kind = r.kind /\ r1.dkey = r.dkey
      /\ \A j \in r.known : r1.cstream[j] = r.cstream[j]
  <2> HIDE DEF r0
  <2> QED
    BY <1>3, <1>4, EnsureClientLemma
<1> HIDE DEF r0, r1, e
<1>6. /\ lv \in SUBSET Epochs /\ kd \in [Epochs -> Kinds]
      /\ it \in [Epochs -> BOOLEAN] /\ dk \in [Epochs -> DefaultKeys]
  BY <1>2, <1>4, <1>5 DEF RemoteType
<1>7. \A f \in lv : dk[f] \in r1.known /\ dk[f] \in {kd[f], "unknown"}
  BY <1>1, <1>2, <1>5 DEF Registered, RemoteType
<1>8. OpenConnection(r, kind) = SyncDefault(Prune(r3))
  BY DEF OpenConnection, e, r0, r1
<1> HIDE DEF lv, kd, it, dk
<1>9. /\ r2 \in RemoteType /\ r2.live = lv /\ r2.kind = kd /\ r2.dkey = dk
      /\ r2.known = r1.known /\ r2.cstream = r1.cstream
  BY <1>5, <1>6 DEF RemoteType
<1> HIDE DEF r2
<1>10. r3 \in RemoteType /\ SameRegistry(r3, r2)
  BY <1>2, <1>9, MakeNewestLemma
<1> HIDE DEF r3
<1>11. Prune(r3) \in RemoteType /\ SameRegistry(Prune(r3), r3) /\ ActiveOpen(Prune(r3))
  BY <1>10, PruneLemma
<1>12. /\ SyncDefault(Prune(r3)) \in RemoteType
       /\ SameRegistry(SyncDefault(Prune(r3)), Prune(r3))
       /\ SyncDefault(Prune(r3)).active = Prune(r3).active
  BY <1>11, SyncDefaultLemma
<1>13. SameRegistry(SyncDefault(Prune(r3)), r2) /\ ActiveOpen(SyncDefault(Prune(r3)))
  BY <1>10, <1>11, <1>12 DEF SameRegistry, ActiveOpen
<1>14. Registered(r2) /\ Routed(r, r2)
  BY <1>5, <1>7, <1>9 DEF Registered, Routed
<1> QED
  BY <1>8, <1>12, <1>13, <1>14 DEF Keeps, Good, Registered, Routed, SameRegistry

LEMMA CloseConnectionKeeps ==
  ASSUME NEW r, Good(r), NEW e \in r.live
  PROVE  Keeps(r, CloseConnection(r, e))
<1> DEFINE lv == r.live \ {e}
           nw == {p \in r.newer : p[1] # e /\ p[2] # e}
           q  == [r EXCEPT !.live = lv, !.newer = nw]
<1>1. r \in RemoteType /\ Registered(r)
  BY DEF Good
<1>2. q \in RemoteType
  BY <1>1 DEF RemoteType
<1>3. /\ q.live = lv /\ q.kind = r.kind /\ q.dkey = r.dkey
      /\ q.known = r.known /\ q.cstream = r.cstream
  BY <1>1 DEF RemoteType
<1>4. Registered(q) /\ Routed(r, q)
  BY <1>1, <1>3 DEF Registered, Routed
<1>5. Prune(q) \in RemoteType /\ SameRegistry(Prune(q), q)
  BY <1>2, PruneLemma
<1>6. Registered(Prune(q)) /\ Routed(r, Prune(q))
  BY <1>4, <1>5 DEF Registered, Routed, SameRegistry
<1>7. CloseConnection(r, e) = SyncLegacy(Prune(q))
  BY DEF CloseConnection
<1> QED
  BY <1>5, <1>6, <1>7, SyncLegacyKeeps

LEMMA TouchConnectionKeeps ==
  ASSUME NEW r, Good(r), NEW e \in Epochs
  PROVE  Keeps(r, TouchConnection(r, e))
<1>1. r \in RemoteType /\ ActiveOpen(r) /\ Registered(r)
  BY DEF Good
<1>2. MakeNewest(r, e) \in RemoteType /\ SameRegistry(MakeNewest(r, e), r)
  BY <1>1, MakeNewestLemma
<1>3. Registered(MakeNewest(r, e)) /\ Routed(r, MakeNewest(r, e))
  BY <1>1, <1>2 DEF Registered, Routed, SameRegistry
<1>4. Keeps(r, SyncLegacy(MakeNewest(r, e)))
  BY <1>2, <1>3, SyncLegacyKeeps
<1>5. Keeps(r, r)
  BY <1>1, RefreshKeeps DEF SameRegistry
<1> QED
  BY <1>4, <1>5 DEF TouchConnection

\* a client moves to another key only when nobody else leads to its old one
LEMMA MigrateLemma ==
  ASSUME NEW r \in RemoteType, Registered(r), NEW e \in r.live, NEW k,
         NEW kind \in Kinds, NEW s, r.kind[e] = kind
  PROVE  /\ Migrate(r, e, k, kind, s) \in RemoteType
         /\ Registered(Migrate(r, e, k, kind, s))
         /\ Routed(r, Migrate(r, e, k, kind, s))
<1>1. CASE ~CanMigrate(r, e, k, kind, s)
  BY <1>1 DEF Migrate, Routed
<1>2. CASE CanMigrate(r, e, k, kind, s)
  <2> DEFINE kn  == (r.known \ {k}) \cup {kind}
             cs  == [r.cstream EXCEPT ![kind] = r.cstream[k], ![k] = RootStream]
             ci  == [r.cinit EXCEPT ![kind] = r.cinit[k], ![k] = FALSE]
             rec == [r.recovering EXCEPT ![kind] = r.recovering[k], ![k] = FALSE]
             dk  == [r.dkey EXCEPT ![e] = kind]
             q   == [r EXCEPT !.known = kn, !.cstream = cs, !.cinit = ci,
                              !.recovering = rec, !.dkey = dk]
  <2>1. /\ k \in Keys /\ kind \in Keys /\ kind \in DefaultKeys /\ k # kind
        /\ kind \notin r.known /\ k \in r.known /\ e \in Epochs
        /\ \A f \in r.live \ {e} : r.dkey[f] # k
    BY <1>2, KeyFacts DEF CanMigrate, Owners, RemoteType
  <2>2. RootStream \in Streams
    BY DEF RootStream, Streams
  <2>3. /\ kn \in SUBSET Keys /\ cs \in [Keys -> Streams]
        /\ ci \in [Keys -> BOOLEAN] /\ rec \in [Keys -> BOOLEAN]
        /\ dk \in [Epochs -> DefaultKeys]
    BY <2>1, <2>2 DEF RemoteType
  <2>4. Migrate(r, e, k, kind, s) = q
    BY <1>2 DEF Migrate, RemoteType
  <2>5. cs[kind] = r.cstream[k] /\ \A j \in r.known \ {k} : cs[j] = r.cstream[j]
    BY <2>1 DEF RemoteType
  <2>6. \A f \in r.live : dk[f] \in kn /\ dk[f] \in {r.kind[f], "unknown"}
    BY <2>1 DEF Registered, RemoteType
  <2> HIDE DEF kn, cs, ci, rec, dk
  <2>7. /\ q \in RemoteType /\ q.live = r.live /\ q.kind = r.kind
        /\ q.dkey = dk /\ q.known = kn /\ q.cstream = cs
    BY <2>3 DEF RemoteType
  <2>8. kn = (r.known \ {k}) \cup {kind}
    BY DEF kn
  <2> HIDE DEF q
  <2>9. Registered(q)
    BY <2>6, <2>7 DEF Registered
  <2>10. Routed(r, q)
    BY <2>1, <2>5, <2>7, <2>8 DEF Routed
  <2> QED
    BY <2>4, <2>7, <2>9, <2>10
<1> QED
  BY <1>1, <1>2

LEMMA MarkInitializedLemma ==
  ASSUME NEW r \in RemoteType, NEW k
  PROVE  /\ MarkInitialized(r, k) \in RemoteType
         /\ SameRegistry(MarkInitialized(r, k), r)
<1>1. CASE k \in r.known
  <2> DEFINE ci  == [r.cinit EXCEPT ![k] = TRUE]
             rec == [r.recovering EXCEPT ![k] = FALSE]
  <2>1. ci \in [Keys -> BOOLEAN] /\ rec \in [Keys -> BOOLEAN]
    BY DEF RemoteType
  <2>2. MarkInitialized(r, k) = [r EXCEPT !.cinit = ci, !.recovering = rec]
    BY <1>1 DEF MarkInitialized
  <2> HIDE DEF ci, rec
  <2> QED
    BY <2>1, <2>2 DEF RemoteType, SameRegistry
<1>2. CASE k \notin r.known
  BY <1>2 DEF MarkInitialized, SameRegistry
<1> QED
  BY <1>1, <1>2

\* the steps an initialize result or notification takes on a client that is
\* not moved: mark it, and refresh the legacy fields
LEMMA MarkAndSync ==
  ASSUME NEW r, NEW q \in RemoteType, Registered(q), Routed(r, q), NEW k
  PROVE  LET p == SyncIfDefault(MarkInitialized(q, k), k)
         IN  p \in RemoteType /\ Registered(p) /\ Routed(r, p)
<1> DEFINE m == MarkInitialized(q, k)
           p == SyncIfDefault(m, k)
<1>1. m \in RemoteType /\ SameRegistry(m, q)
  BY MarkInitializedLemma
<1>2. p \in RemoteType /\ SameRegistry(p, m)
  BY <1>1, SyncIfDefaultLemma
<1> QED
  BY <1>1, <1>2 DEF Registered, Routed, SameRegistry

LEMMA InitializeResultKeeps ==
  ASSUME NEW r, Good(r), NEW e \in Epochs, NEW k, NEW s, NEW ua \in Kinds
  PROVE  Keeps(r, InitializeResult(r, e, k, s, ua))
<1> DEFINE kind == ResultKind(r, e, ua)
           it   == [r.init EXCEPT ![e] = TRUE]
           kd   == [r.kind EXCEPT ![e] = kind]
           r1   == IF e \in r.live THEN [r EXCEPT !.init = it, !.kind = kd] ELSE r
           k2   == ResultKey(r, e, k, s, ua)
           m    == Migrate(r1, e, k, kind, s)
           r2   == IF k = NoKey THEN r1 ELSE SyncIfDefault(MarkInitialized(m, k2), k2)
<1>1. r \in RemoteType /\ Registered(r)
  BY DEF Good
<1>2. kind \in Kinds /\ (e \in r.live /\ r.kind[e] # "unknown" => kind = r.kind[e])
  BY <1>1 DEF ResultKind, RemoteType
<1>3. /\ InitializeResult(r, e, k, s, ua) = SyncLegacy(r2)
  BY DEF InitializeResult
<1> HIDE DEF kind, k2
<1>4. /\ r1 \in RemoteType /\ r1.live = r.live /\ r1.dkey = r.dkey
      /\ r1.known = r.known /\ r1.cstream = r.cstream
      /\ r1.kind = IF e \in r.live THEN kd ELSE r.kind
  <2>1. it \in [Epochs -> BOOLEAN] /\ kd \in [Epochs -> Kinds]
    BY <1>1, <1>2 DEF RemoteType
  <2> HIDE DEF it, kd
  <2> QED
    BY <1>1, <2>1 DEF RemoteType
<1>5. e \in r.live => r1.kind[e] = kind
  BY <1>1, <1>4 DEF RemoteType
<1>6. Registered(r1) /\ Routed(r, r1)
  <2>1. Registered(r1)
    BY <1>1, <1>2, <1>4 DEF Registered, RemoteType
  <2>2. Routed(r, r1)
    BY <1>4 DEF Routed
  <2> QED
    BY <2>1, <2>2
<1> HIDE DEF r1, it, kd
<1>7. m \in RemoteType /\ Registered(m) /\ Routed(r1, m)
  <2>1. CASE e \in r.live
    BY <1>2, <1>4, <1>5, <1>6, <2>1, MigrateLemma
  <2>2. CASE e \notin r.live
    <3>1. ~CanMigrate(r1, e, k, kind, s)
      BY <1>4, <2>2 DEF CanMigrate, Owners
    <3>2. m = r1
      BY <3>1 DEF Migrate
    <3> QED
      BY <1>4, <1>6, <3>2 DEF Routed
  <2> QED
    BY <2>1, <2>2
<1>8. Routed(r, m)
  BY <1>4, <1>7 DEF Routed
<1> HIDE DEF m
<1>9. r2 \in RemoteType /\ Registered(r2) /\ Routed(r, r2)
  BY <1>4, <1>6, <1>7, <1>8, MarkAndSync
<1> QED
  BY <1>3, <1>9, SyncLegacyKeeps

LEMMA InitializedNotificationKeeps ==
  ASSUME NEW r, Good(r), NEW e \in Epochs, NEW k
  PROVE  Keeps(r, InitializedNotification(r, e, k))
<1> DEFINE it == [r.init EXCEPT ![e] = TRUE]
           r1 == IF e \in r.live THEN [r EXCEPT !.init = it] ELSE r
           r2 == IF k = NoKey THEN r1 ELSE SyncIfDefault(MarkInitialized(r1, k), k)
<1>1. r \in RemoteType /\ Registered(r)
  BY DEF Good
<1>2. r1 \in RemoteType /\ SameRegistry(r1, r)
  <2>1. it \in [Epochs -> BOOLEAN]
    BY <1>1 DEF RemoteType
  <2> HIDE DEF it
  <2> QED
    BY <1>1, <2>1 DEF RemoteType, SameRegistry
<1>3. InitializedNotification(r, e, k) = SyncLegacy(r2)
  BY DEF InitializedNotification
<1>4. Registered(r1) /\ Routed(r, r1)
  BY <1>1, <1>2 DEF Registered, Routed, SameRegistry
<1> HIDE DEF r1
<1>5. r2 \in RemoteType /\ Registered(r2) /\ Routed(r, r2)
  BY <1>2, <1>4, MarkAndSync
<1> QED
  BY <1>3, <1>5, SyncLegacyKeeps

\* overwriting the flags of a client is no more than a refresh
LEMMA FlagsKeep ==
  ASSUME NEW r, Good(r), NEW q, Keeps(r, q), NEW ci \in [Keys -> BOOLEAN],
         NEW rec \in [Keys -> BOOLEAN]
  PROVE  Keeps(r, [q EXCEPT !.cinit = ci, !.recovering = rec])
<1> DEFINE p == [q EXCEPT !.cinit = ci, !.recovering = rec]
<1>1. q \in RemoteType /\ ActiveOpen(q) /\ Registered(q) /\ Routed(r, q)
  BY DEF Keeps, Good
<1>2. p \in RemoteType /\ SameRegistry(p, q) /\ p.active = q.active
  BY <1>1 DEF RemoteType, SameRegistry
<1> HIDE DEF p
<1>3. Registered(p) /\ ActiveOpen(p) /\ Routed(r, p)
  BY <1>1, <1>2 DEF Registered, ActiveOpen, Routed, SameRegistry
<1> QED
  BY <1>2, <1>3 DEF Keeps, Good, p

LEMMA UseClientKeeps ==
  ASSUME NEW r, Good(r), NEW k \in Keys
  PROVE  Keeps(r, UseClient(r, k))
BY EnsureClientKeeps, SyncIfDefaultKeeps DEF UseClient

LEMMA ResetClientKeeps ==
  ASSUME NEW r, Good(r), NEW k \in Keys
  PROVE  Keeps(r, ResetClient(r, k)) /\ Keeps(r, BeginRecovery(r, k))
<1> DEFINE q   == EnsureClient(r, k)
           ci  == [q.cinit EXCEPT ![k] = FALSE]
           rec == [q.recovering EXCEPT ![k] = TRUE]
<1>1. Keeps(r, q)
  BY EnsureClientKeeps
<1>2. q \in RemoteType
  BY <1>1 DEF Keeps, Good
<1> HIDE DEF q
<1>3. /\ ci \in [Keys -> BOOLEAN] /\ rec \in [Keys -> BOOLEAN]
      /\ q.recovering \in [Keys -> BOOLEAN]
  BY <1>2 DEF RemoteType
<1>4. /\ ResetClient(r, k) =
           SyncIfDefault([q EXCEPT !.cinit = ci, !.recovering = q.recovering], k)
      /\ BeginRecovery(r, k) =
           SyncIfDefault([q EXCEPT !.cinit = ci, !.recovering = rec], k)
  <2>1. [q EXCEPT !.cinit = ci] = [q EXCEPT !.cinit = ci, !.recovering = q.recovering]
    BY <1>2 DEF RemoteType
  <2> QED
    BY <1>2, <2>1 DEF ResetClient, BeginRecovery, q, RemoteType
<1> HIDE DEF ci, rec
<1>5. /\ Keeps(r, [q EXCEPT !.cinit = ci, !.recovering = q.recovering])
      /\ Keeps(r, [q EXCEPT !.cinit = ci, !.recovering = rec])
  BY <1>1, <1>3, FlagsKeep
<1> QED
  BY <1>4, <1>5, SyncIfDefaultKeeps

LEMMA EndRecoveryKeeps ==
  ASSUME NEW r, Good(r), NEW k \in Keys
  PROVE  Keeps(r, EndRecovery(r, k))
<1> DEFINE rec == [r.recovering EXCEPT ![k] = FALSE]
           q   == [r EXCEPT !.cinit = r.cinit, !.recovering = rec]
<1>1. r \in RemoteType /\ ActiveOpen(r) /\ Registered(r)
  BY DEF Good
<1>2. rec \in [Keys -> BOOLEAN] /\ r.cinit \in [Keys -> BOOLEAN]
  BY <1>1 DEF RemoteType
<1>3. Keeps(r, r)
  BY <1>1, RefreshKeeps DEF SameRegistry
<1>4. Keeps(r, q)
  BY <1>2, <1>3, FlagsKeep
<1>5. EndRecovery(r, k) = SyncIfDefault(q, k)
  BY <1>1 DEF EndRecovery, RemoteType
<1> QED
  BY <1>4, <1>5, SyncIfDefaultKeeps

-----------------------------------------------------------------------------
LEMMA InitialIsGood == Good(InitialRemote)
<1>1. RootStream \in Streams
  BY DEF RootStream, Streams
<1>2. InitialRemote \in RemoteType
  BY <1>1, KeyFacts, MaxEpochAssumption DEF InitialRemote, RemoteType, None
<1>3. InitialRemote.live = {} /\ InitialRemote.active = None
  BY DEF InitialRemote
<1> QED
  BY <1>2, <1>3 DEF Good, ActiveOpen, Registered

LEMMA NextKeeps ==
  ASSUME Good(remote), RegistryNext
  PROVE  Keeps(remote, remote')
<1>1. remote \in RemoteType /\ ActiveOpen(remote) /\ Registered(remote)
  BY DEF Good
<1>2. Keeps(remote, remote)
  BY <1>1, RefreshKeeps DEF SameRegistry
<1>3. UsableKeys \subseteq Keys
  BY KeyFacts DEF UsableKeys
<1>4. remote.live \subseteq Epochs /\ 1..remote.next \subseteq Epochs
  BY <1>1, MaxEpochAssumption DEF RemoteType, Epochs
<1>5. CASE Open
  BY <1>5, KeyFacts, OpenConnectionKeeps DEF Open
<1>6. CASE Close
  BY <1>6, CloseConnectionKeeps DEF Close
<1>7. CASE Touch
  <2> PICK e \in remote.live :
        remote' \in {TouchConnection(remote, e), RecordPong(remote, e, Default)}
    BY <1>7 DEF Touch
  <2>1. Keeps(remote, TouchConnection(remote, e))
    BY <1>4, TouchConnectionKeeps
  <2>2. Keeps(remote, RecordPong(remote, e, Default))
    BY <2>1, SyncIfDefaultKeeps DEF RecordPong
  <2> QED
    BY <2>1, <2>2
<1>8. CASE Result
  BY <1>4, <1>8, KeyFacts, InitializeResultKeeps DEF Result
<1>9. CASE Notification
  BY <1>4, <1>9, InitializedNotificationKeeps DEF Notification
<1>10. CASE UseAnyClient
  BY <1>3, <1>10, UseClientKeeps, EnsureClientKeeps, ResetClientKeeps DEF UseAnyClient
<1>11. CASE Recover
  BY <1>3, <1>11, ResetClientKeeps, EndRecoveryKeeps DEF Recover
<1>12. CASE Refresh
  <2>1. Keeps(remote, SyncLegacy(remote))
    BY <1>1, <1>2, SyncLegacyKeeps DEF Keeps
  <2>2. Keeps(remote, SyncLegacy(Prune(remote)))
    <3>1. Prune(remote) \in RemoteType /\ SameRegistry(Prune(remote), remote)
      BY <1>1, PruneLemma
    <3>2. Registered(Prune(remote)) /\ Routed(remote, Prune(remote))
      BY <1>1, <3>1 DEF Registered, Routed, SameRegistry
    <3> QED
      BY <3>1, <3>2, SyncLegacyKeeps
  <2>3. Keeps(remote, SyncDefault(remote))
    BY <1>1, SyncDefaultLemma, RefreshKeeps DEF ActiveOpen, SameRegistry
  <2> QED
    BY <1>12, <2>1, <2>2, <2>3 DEF Refresh
<1> QED
  BY <1>5, <1>6, <1>7, <1>8, <1>9, <1>10, <1>11, <1>12 DEF RegistryNext

-----------------------------------------------------------------------------
(* What the critical sections do to the order: all but three leave it alone.*)

LEMMA SyncsKeepOrder ==
  ASSUME NEW r \in RemoteType
  PROVE  /\ SameOrder(SyncDefault(r), r)
         /\ \A k : SameOrder(SyncIfDefault(r, k), r)
         /\ SameOrder(Prune(r), r)
         /\ \A k : SameOrder(EnsureClient(r, k), r)
         /\ \A k : SameOrder(MarkInitialized(r, k), r)
<1>1. SameOrder(SyncDefault(r), r)
  BY DEF SyncDefault, SameOrder, RemoteType
<1>2. \A k : SameOrder(SyncIfDefault(r, k), r)
  BY <1>1 DEF SyncIfDefault, SameOrder
<1>3. SameOrder(Prune(r), r)
  BY DEF Prune, SameOrder, RemoteType
<1>4. ASSUME NEW k PROVE SameOrder(EnsureClient(r, k), r)
  BY DEF EnsureClient, SameOrder, RemoteType
<1>5. ASSUME NEW k PROVE SameOrder(MarkInitialized(r, k), r)
  BY DEF MarkInitialized, SameOrder, RemoteType
<1> QED
  BY <1>1, <1>2, <1>3, <1>4, <1>5

LEMMA SyncLegacyKeepsOrder ==
  ASSUME NEW r \in RemoteType
  PROVE  SameOrder(SyncLegacy(r), r)
<1> DEFINE r1 == [r EXCEPT !.active = None]
<1>1. r1 \in RemoteType /\ SameOrder(r1, r)
  BY DEF RemoteType, None, SameOrder
<1>2. SameOrder(SyncDefault(r1), r1)
  BY <1>1, SyncsKeepOrder
<1> HIDE DEF r1
<1>3. CASE r.live = {} /\ r.connected
  <2>1. SyncLegacy(r) = SyncDefault(r1)
    BY <1>3 DEF SyncLegacy, r1
  <2> QED
    BY <1>1, <1>2, <2>1 DEF SameOrder
<1>4. CASE ~(r.live = {} /\ r.connected)
  BY <1>4 DEF SyncLegacy, SameOrder, RemoteType
<1> QED
  BY <1>3, <1>4

LEMMA MigrateKeepsOrder ==
  ASSUME NEW r \in RemoteType, NEW e, NEW k, NEW kind, NEW s
  PROVE  SameOrder(Migrate(r, e, k, kind, s), r)
BY DEF Migrate, SameOrder, RemoteType

\* the order after a section is that of one that leaves it alone
LEMMA SameOrderKeeps ==
  ASSUME NEW r, Ordered(r), NEW q, SameOrder(q, r), NEW p, SameOrder(p, q)
  PROVE  Ordered(p) /\ SameOrder(p, r)
BY SameOrderOrdered DEF SameOrder

LEMMA TouchOrders ==
  ASSUME NEW r, Good(r), Ordered(r), NEW e \in r.live
  PROVE  /\ Ordered(TouchConnection(r, e))
         /\ \A k : Ordered(RecordPong(r, e, k))
<1> DEFINE m == MakeNewest(r, e)
           t == TouchConnection(r, e)
<1>1. r \in RemoteType /\ e \in Epochs
  BY DEF Good, RemoteType
<1>2. m \in RemoteType
  BY <1>1, MakeNewestLemma
<1>3. Ordered(m)
  BY <1>1, MakeNewestOrders DEF Ordered
<1>4. t = SyncLegacy(m)
  BY DEF TouchConnection
<1> HIDE DEF m
<1>5. Ordered(t)
  BY <1>2, <1>3, <1>4, SyncLegacyKeepsOrder, SameOrderOrdered
<1>6. t \in RemoteType
  BY <1>1, TouchConnectionKeeps DEF Keeps, Good
<1> HIDE DEF t
<1>7. ASSUME NEW k PROVE Ordered(SyncIfDefault(t, k))
  BY <1>5, <1>6, SyncsKeepOrder, SameOrderOrdered
<1> QED
  BY <1>5, <1>7 DEF RecordPong, t

LEMMA CloseConnectionOrders ==
  ASSUME NEW r, Good(r), Ordered(r), NEW e \in r.live
  PROVE  Ordered(CloseConnection(r, e))
<1> DEFINE lv == r.live \ {e}
           nw == {p \in r.newer : p[1] # e /\ p[2] # e}
           q  == [r EXCEPT !.live = lv, !.newer = nw]
<1>1. r \in RemoteType
  BY DEF Good
<1>2. q \in RemoteType /\ q.live = lv /\ q.newer = nw
  BY <1>1 DEF RemoteType
<1>3. \A f, g \in lv : <<f, g>> \in nw <=> <<f, g>> \in r.newer
  OBVIOUS
<1>4. CloseConnection(r, e) = SyncLegacy(Prune(q))
  BY DEF CloseConnection
<1> HIDE DEF nw, q
<1>5. Ordered(q)
  <2>1. ASSUME NEW S \in SUBSET lv, S # {} PROVE \E f \in S : Newest(q, f, S)
    <3>1. PICK f \in S : Newest(r, f, S)
      BY <2>1 DEF Ordered
    <3> QED
      BY <1>2, <1>3, <3>1 DEF Newest
  <2>2. \A f, g \in lv : <<f, g>> \in nw => <<g, f>> \notin nw
    BY <1>3 DEF Ordered
  <2> HIDE DEF lv
  <2> QED
    BY <1>2, <2>1, <2>2 DEF Ordered
<1>6. Prune(q) \in RemoteType /\ Ordered(Prune(q))
  BY <1>2, <1>5, PruneLemma, SyncsKeepOrder, SameOrderOrdered
<1> QED
  BY <1>4, <1>6, SyncLegacyKeepsOrder, SameOrderOrdered

LEMMA OpenConnectionOrders ==
  ASSUME NEW r, Good(r), Ordered(r), NEW kind \in Kinds, r.next < MaxEpoch
  PROVE  Ordered(OpenConnection(r, kind))
<1> DEFINE e  == r.next + 1
           r0 == [r EXCEPT !.next = e, !.epoch = e, !.connected = TRUE,
                           !.initialized = FALSE]
           r1 == EnsureClient(r0, kind)
           lv == r1.live \cup {e}
           kd == [r1.kind EXCEPT ![e] = kind]
           it == [r1.init EXCEPT ![e] = FALSE]
           dk == [r1.dkey EXCEPT ![e] = kind]
           r2 == [r1 EXCEPT !.live = lv, !.kind = kd, !.init = it, !.dkey = dk]
           r3 == MakeNewest(r2, e)
<1>1. r \in RemoteType
  BY DEF Good
<1>2. e \in Epochs /\ e \in 0..MaxEpoch
  BY <1>1, MaxEpochAssumption DEF RemoteType, Epochs
<1>3. r0 \in RemoteType /\ SameOrder(r0, r)
  <2> HIDE DEF e
  <2> QED
    BY <1>1, <1>2 DEF RemoteType, SameOrder
<1>4. kind \in Keys /\ kind \in DefaultKeys
  BY KeyFacts
<1>5. r1 \in RemoteType /\ SameOrder(r1, r)
  <2> HIDE DEF r0
  <2> QED
    BY <1>3, <1>4, EnsureClientLemma, SyncsKeepOrder DEF SameOrder
<1> HIDE DEF r0, r1, e
<1>6. /\ lv \in SUBSET Epochs /\ kd \in [Epochs -> Kinds]
      /\ it \in [Epochs -> BOOLEAN] /\ dk \in [Epochs -> DefaultKeys]
  BY <1>2, <1>4, <1>5 DEF RemoteType
<1>7. OpenConnection(r, kind) = SyncDefault(Prune(r3))
  BY DEF OpenConnection, e, r0, r1
<1>8. lv \ {e} \subseteq r.live /\ e \in lv
  BY <1>5 DEF SameOrder
<1> HIDE DEF lv, kd, it, dk
<1>9. r2 \in RemoteType /\ r2.live = lv /\ r2.newer = r.newer
  BY <1>5, <1>6 DEF RemoteType, SameOrder
<1> HIDE DEF r2
<1>10. Ordered(r3)
  <2>1. \A S \in SUBSET (r2.live \ {e}) : S # {} => \E f \in S : Newest(r2, f, S)
    BY <1>8, <1>9 DEF Ordered, Newest
  <2>2. \A f, g \in r2.live \ {e} : <<f, g>> \in r2.newer => <<g, f>> \notin r2.newer
    BY <1>8, <1>9 DEF Ordered
  <2> QED
    BY <1>8, <1>9, <2>1, <2>2, MakeNewestOrders
<1>11. r3 \in RemoteType
  BY <1>2, <1>9, MakeNewestLemma
<1> HIDE DEF r3
<1>12. Prune(r3) \in RemoteType /\ Ordered(Prune(r3))
  BY <1>10, <1>11, PruneLemma, SyncsKeepOrder, SameOrderOrdered
<1> QED
  BY <1>7, <1>12, SyncsKeepOrder, SameOrderOrdered

LEMMA InitializeResultKeepsOrder ==
  ASSUME NEW r, Good(r), NEW e \in Epochs, NEW k, NEW s, NEW ua \in Kinds
  PROVE  SameOrder(InitializeResult(r, e, k, s, ua), r)
<1> DEFINE kind == ResultKind(r, e, ua)
           it   == [r.init EXCEPT ![e] = TRUE]
           kd   == [r.kind EXCEPT ![e] = kind]
           r1   == IF e \in r.live THEN [r EXCEPT !.init = it, !.kind = kd] ELSE r
           k2   == ResultKey(r, e, k, s, ua)
           m    == Migrate(r1, e, k, kind, s)
           mi   == MarkInitialized(m, k2)
           r2   == IF k = NoKey THEN r1 ELSE SyncIfDefault(mi, k2)
<1>1. r \in RemoteType /\ Registered(r)
  BY DEF Good
<1>2. kind \in Kinds /\ (e \in r.live /\ r.kind[e] # "unknown" => kind = r.kind[e])
  BY <1>1 DEF ResultKind, RemoteType
<1>3. InitializeResult(r, e, k, s, ua) = SyncLegacy(r2)
  BY DEF InitializeResult
<1> HIDE DEF kind, k2
<1>4. /\ r1 \in RemoteType /\ r1.live = r.live /\ r1.dkey = r.dkey /\ r1.known = r.known
      /\ SameOrder(r1, r) /\ r1.kind = IF e \in r.live THEN kd ELSE r.kind
  <2>1. it \in [Epochs -> BOOLEAN] /\ kd \in [Epochs -> Kinds]
    BY <1>1, <1>2 DEF RemoteType
  <2> HIDE DEF it, kd
  <2> QED
    BY <1>1, <2>1 DEF RemoteType, SameOrder
<1>5. e \in r.live => r1.kind[e] = kind
  BY <1>1, <1>4 DEF RemoteType
<1>6. Registered(r1)
  BY <1>1, <1>2, <1>4 DEF Registered, RemoteType
<1> HIDE DEF r1, it, kd
<1>7. m \in RemoteType /\ SameOrder(m, r)
  <2>1. CASE e \in r.live
    BY <1>2, <1>4, <1>5, <1>6, <2>1, MigrateLemma, MigrateKeepsOrder DEF SameOrder
  <2>2. CASE e \notin r.live
    BY <1>4, <2>2 DEF Migrate, CanMigrate, Owners
  <2> QED
    BY <2>1, <2>2
<1> HIDE DEF m
<1>8. mi \in RemoteType /\ SameOrder(mi, r)
  BY <1>7, MarkInitializedLemma, SyncsKeepOrder DEF SameOrder
<1> HIDE DEF mi
<1>9. r2 \in RemoteType /\ SameOrder(r2, r)
  BY <1>4, <1>8, SyncIfDefaultLemma, SyncsKeepOrder DEF SameOrder
<1> QED
  BY <1>3, <1>9, SyncLegacyKeepsOrder DEF SameOrder

LEMMA NotificationKeepsOrder ==
  ASSUME NEW r, Good(r), NEW e \in Epochs, NEW k
  PROVE  SameOrder(InitializedNotification(r, e, k), r)
<1> DEFINE it == [r.init EXCEPT ![e] = TRUE]
           r1 == IF e \in r.live THEN [r EXCEPT !.init = it] ELSE r
           mi == MarkInitialized(r1, k)
           r2 == IF k = NoKey THEN r1 ELSE SyncIfDefault(mi, k)
<1>1. r \in RemoteType
  BY DEF Good
<1>2. r1 \in RemoteType /\ SameOrder(r1, r)
  <2>1. it \in [Epochs -> BOOLEAN]
    BY <1>1 DEF RemoteType
  <2> HIDE DEF it
  <2> QED
    BY <1>1, <2>1 DEF RemoteType, SameOrder
<1>3. InitializedNotification(r, e, k) = SyncLegacy(r2)
  BY DEF InitializedNotification
<1> HIDE DEF r1
<1>4. mi \in RemoteType /\ SameOrder(mi, r)
  BY <1>2, MarkInitializedLemma, SyncsKeepOrder DEF SameOrder
<1> HIDE DEF mi
<1>5. r2 \in RemoteType /\ SameOrder(r2, r)
  BY <1>2, <1>4, SyncIfDefaultLemma, SyncsKeepOrder DEF SameOrder
<1> QED
  BY <1>3, <1>5, SyncLegacyKeepsOrder DEF SameOrder

\* what is done to a client
LEMMA ClientsKeepOrder ==
  ASSUME NEW r, Good(r), NEW k \in Keys
  PROVE  /\ SameOrder(EnsureClient(r, k), r) /\ SameOrder(UseClient(r, k), r)
         /\ SameOrder(ResetClient(r, k), r) /\ SameOrder(BeginRecovery(r, k), r)
         /\ SameOrder(EndRecovery(r, k), r)
<1> DEFINE q  == EnsureClient(r, k)
           ci == [q.cinit EXCEPT ![k] = FALSE]
           on == [q.recovering EXCEPT ![k] = TRUE]
           off == [r.recovering EXCEPT ![k] = FALSE]
           q1 == [q EXCEPT !.cinit = ci]
           q2 == [q EXCEPT !.cinit = ci, !.recovering = on]
           q3 == [r EXCEPT !.recovering = off]
<1>1. r \in RemoteType
  BY DEF Good
<1>2. q \in RemoteType /\ SameOrder(q, r)
  BY <1>1, EnsureClientLemma, SyncsKeepOrder
<1>3. /\ ResetClient(r, k) = SyncIfDefault(q1, k) /\ BeginRecovery(r, k) = SyncIfDefault(q2, k)
      /\ EndRecovery(r, k) = SyncIfDefault(q3, k) /\ UseClient(r, k) = SyncIfDefault(q, k)
  BY DEF ResetClient, BeginRecovery, EndRecovery, UseClient
<1> HIDE DEF q
<1>4. ci \in [Keys -> BOOLEAN] /\ on \in [Keys -> BOOLEAN] /\ off \in [Keys -> BOOLEAN]
  BY <1>1, <1>2 DEF RemoteType
<1> HIDE DEF ci, on, off
<1>5. /\ q1 \in RemoteType /\ SameOrder(q1, q) /\ q2 \in RemoteType /\ SameOrder(q2, q)
      /\ q3 \in RemoteType /\ SameOrder(q3, r)
  BY <1>1, <1>2, <1>4 DEF RemoteType, SameOrder
<1> HIDE DEF q1, q2, q3
<1>6. /\ SameOrder(SyncIfDefault(q, k), q) /\ SameOrder(SyncIfDefault(q1, k), q1)
      /\ SameOrder(SyncIfDefault(q2, k), q2) /\ SameOrder(SyncIfDefault(q3, k), q3)
  BY <1>2, <1>5, SyncsKeepOrder
<1> QED
  BY <1>2, <1>3, <1>5, <1>6 DEF SameOrder, q

LEMMA NextOrders ==
  ASSUME Good(remote), Ordered(remote), RegistryNext
  PROVE  Ordered(remote')
<1>1. remote \in RemoteType
  BY DEF Good
<1>2. UsableKeys \subseteq Keys
  BY KeyFacts DEF UsableKeys
<1>3. remote.live \subseteq Epochs /\ 1..remote.next \subseteq Epochs /\ remote.known \subseteq Keys
  BY <1>1, MaxEpochAssumption DEF RemoteType, Epochs
<1>4. CASE Open
  BY <1>4, KeyFacts, OpenConnectionOrders DEF Open
<1>5. CASE Close
  BY <1>5, CloseConnectionOrders DEF Close
<1>6. CASE Touch
  BY <1>6, TouchOrders DEF Touch
<1>7. CASE Result
  BY <1>3, <1>7, KeyFacts, InitializeResultKeepsOrder, SameOrderOrdered DEF Result
<1>8. CASE Notification
  BY <1>3, <1>8, NotificationKeepsOrder, SameOrderOrdered DEF Notification
<1>9. CASE UseAnyClient
  BY <1>2, <1>9, ClientsKeepOrder, SameOrderOrdered DEF UseAnyClient
<1>10. CASE Recover
  BY <1>2, <1>10, ClientsKeepOrder, SameOrderOrdered DEF Recover
<1>11. CASE Refresh
  <2>1. /\ Prune(remote) \in RemoteType
        /\ SameOrder(Prune(remote), remote) /\ SameOrder(SyncDefault(remote), remote)
    BY <1>1, PruneLemma, SyncsKeepOrder
  <2>2. /\ SameOrder(SyncLegacy(remote), remote)
        /\ SameOrder(SyncLegacy(Prune(remote)), Prune(remote))
    BY <1>1, <2>1, SyncLegacyKeepsOrder
  <2> QED
    BY <1>11, <2>1, <2>2, SameOrderOrdered DEF Refresh, SameOrder
<1> QED
  BY <1>4, <1>5, <1>6, <1>7, <1>8, <1>9, <1>10, <1>11 DEF RegistryNext

(* The registry invariant: every reachable record is well typed, its active *)
(* connection is open and the default client of each connection registered. *)
THEOREM RegistryInvariant == RegistrySpec => []Good(remote)
<1>1. RegistryInit => Good(remote)
  BY InitialIsGood DEF RegistryInit
<1>2. Good(remote) /\ [RegistryNext]_remote => Good(remote)'
  <2> SUFFICES ASSUME Good(remote), [RegistryNext]_remote PROVE Good(remote)'
    OBVIOUS
  <2>1. CASE RegistryNext
    BY <2>1, NextKeeps DEF Keeps, Good, RemoteType, ActiveOpen, Registered
  <2>2. CASE UNCHANGED remote
    BY <2>2 DEF Good, RemoteType, ActiveOpen, Registered
  <2> QED
    BY <2>1, <2>2
<1> QED
  BY <1>1, <1>2, PTL DEF RegistrySpec

(* Whatever the critical sections of the mutex do, in whatever order, the   *)
(* protected record keeps its type.                                         *)
THEOREM RegistryTypes == RegistrySpec => []TypeOK
<1>1. Good(remote) => TypeOK
  BY DEF Good, TypeOK
<1> QED
  BY <1>1, RegistryInvariant, PTL

(* The active connection id always names an open connection, or none.       *)
THEOREM ActiveConnectionIsOpen == RegistrySpec => []ActiveIsOpen
<1>1. Good(remote) => ActiveIsOpen
  BY DEF Good, ActiveOpen, ActiveIsOpen
<1> QED
  BY <1>1, RegistryInvariant, PTL

(* The open connections stay in the order they were last heard of, so there *)
(* is always exactly one that select_active_connection_id_locked can take,  *)
(* and the one it took is open.                                             *)
THEOREM TheSelectionIsSound == RegistrySpec => []SelectionIsSound
<1>1. RegistryInit => Ordered(remote)
  BY DEF RegistryInit, InitialRemote, Ordered
<1>2. Good(remote) /\ Ordered(remote) /\ [RegistryNext]_remote => Ordered(remote)'
  BY NextOrders DEF Ordered, Newest
<1>3. Good(remote) /\ Ordered(remote) => SelectionIsSound
  BY OrderedSelects DEF SelectionIsSound, ActiveIsOpen, OneConnectionIsSelected, Good, ActiveOpen
<1> QED
  BY <1>1, <1>2, <1>3, RegistryInvariant, PTL DEF RegistrySpec

(* The default key of every open connection leads to a client, and is of    *)
(* the kind of the connection or not yet known.                             *)
THEOREM DefaultClientsStayRegistered == RegistrySpec => []DefaultClientsRegistered
<1>1. Good(remote) => DefaultClientsRegistered
  BY DEF Good, Registered, DefaultClientsRegistered
<1> QED
  BY <1>1, RegistryInvariant, PTL

(* No step of the registry makes the replies on a known stream unroutable.  *)
THEOREM StreamsRemainRouted == RegistrySpec => StreamsStayRouted
<1> DEFINE Stay == \A k \in remote.known :
              \/ k \in remote'.known /\ remote'.cstream[k] = remote.cstream[k]
              \/ \E j \in remote'.known \ remote.known :
                    remote'.cstream[j] = remote.cstream[k]
<1>1. Good(remote) /\ [RegistryNext]_remote => [Stay]_remote
  BY NextKeeps DEF Keeps, Routed
<1> QED
  BY <1>1, RegistryInvariant, PTL DEF RegistrySpec, StreamsStayRouted

-----------------------------------------------------------------------------
(* What the sections of the registry leave alone, whoever runs them.        *)

(* Once a connection has been opened the summary names one for good, and    *)
(* every key in use is one a caller can hold.                               *)
Based(r) ==
  /\ r.live \subseteq 1..r.next
  /\ r.connected => r.next # 0
  /\ r.next # 0 => r.connected /\ r.epoch \in 1..r.next
  /\ r.known \subseteq UsableKeys
  /\ \A e \in r.live : r.kind[e] \in OpenKinds
  /\ \A e \in Epochs : r.dkey[e] \in OpenKinds \cup {Default}

(* From r to q no connection is opened or closed.                           *)
Frame(r, q) ==
  /\ q.live = r.live /\ q.next = r.next
  /\ q.connected => r.connected \/ r.live # {}
  /\ r.connected => q.connected
  /\ q.epoch = r.epoch \/ q.epoch \in r.live
  /\ r.known \cap ImKeys \subseteq q.known
  /\ q.known \subseteq r.known \cup UsableKeys
  /\ \A e \in Epochs : q.kind[e] = r.kind[e] \/ q.kind[e] \in OpenKinds
  /\ \A e \in Epochs : q.dkey[e] = r.dkey[e] \/ q.dkey[e] \in OpenKinds

LEMMA FrameAgain ==
  ASSUME NEW r, NEW q, NEW p, Frame(r, q), Frame(q, p)
  PROVE  Frame(r, p)
BY DEF Frame

LEMMA FrameBased ==
  ASSUME NEW r \in RemoteType, NEW q, Based(r), Frame(r, q)
  PROVE  Based(q)
<1>1. r.live \subseteq Epochs /\ r.next \in Nat
  BY DEF RemoteType, Epochs
<1>2. q.live \subseteq 1..q.next /\ q.known \subseteq UsableKeys
  BY DEF Based, Frame
<1>3. q.connected => q.next # 0
  BY <1>1 DEF Based, Frame
<1>4. q.next # 0 => q.connected
  BY DEF Based, Frame
<1>5. q.next # 0 => q.epoch \in 1..q.next
  BY DEF Based, Frame
<1>6. \A e \in q.live : q.kind[e] \in OpenKinds
  BY <1>1 DEF Based, Frame
<1>7. \A e \in Epochs : q.dkey[e] \in OpenKinds \cup {Default}
  BY DEF Based, Frame
<1> QED
  BY <1>2, <1>3, <1>4, <1>5, <1>6, <1>7 DEF Based

LEMMA SyncDefaultFrame ==
  ASSUME NEW r \in RemoteType
  PROVE  Frame(r, SyncDefault(r))
<1>1. \A i, s : Frame(r, [r EXCEPT !.initialized = i, !.stream = s])
  BY DEF Frame, RemoteType
<1>2. Frame(r, r)
  BY DEF Frame
<1>3. CASE ActiveKey(r) \in r.known
  BY <1>1, <1>3 DEF SyncDefault
<1>4. CASE ActiveKey(r) \notin r.known
  BY <1>2, <1>4 DEF SyncDefault
<1> QED
  BY <1>3, <1>4

LEMMA SyncIfDefaultFrame ==
  ASSUME NEW r \in RemoteType, NEW k
  PROVE  Frame(r, SyncIfDefault(r, k))
BY SyncDefaultFrame DEF SyncIfDefault, Frame

LEMMA PruneFrame ==
  ASSUME NEW r \in RemoteType
  PROVE  Frame(r, Prune(r))
BY DEF Prune, Frame, RemoteType

LEMMA SyncLegacyFrame ==
  ASSUME NEW r \in RemoteType
  PROVE  Frame(r, SyncLegacy(r))
<1> DEFINE a == SelectActive(r)
           q == [r EXCEPT !.active = None]
<1>1. q \in RemoteType /\ Frame(r, q)
  BY DEF RemoteType, Frame
<1>2. Frame(r, SyncDefault(q))
  BY <1>1, SyncDefaultFrame, FrameAgain
<1>3. Frame(r, [r EXCEPT !.active = None, !.initialized = FALSE])
  BY DEF RemoteType, Frame
<1>4. ASSUME a # None, r.live # {}, NEW i, NEW c
      PROVE  Frame(r, [r EXCEPT !.active = a, !.connected = TRUE, !.epoch = a,
                                !.initialized = i, !.cinit[Default] = c])
  <2>1. a \in r.live
    BY <1>4, SelectActiveIsOpen
  <2> HIDE DEF a
  <2> QED
    BY <1>4, <2>1 DEF RemoteType, Frame
<1> QED
  BY <1>2, <1>3, <1>4 DEF SyncLegacy

LEMMA EnsureClientFrame ==
  ASSUME NEW r \in RemoteType, NEW k \in UsableKeys
  PROVE  Frame(r, EnsureClient(r, k))
BY DEF EnsureClient, Frame, RemoteType

LEMMA MakeNewestFrame ==
  ASSUME NEW r \in RemoteType, NEW e
  PROVE  Frame(r, MakeNewest(r, e))
BY DEF MakeNewest, Frame, RemoteType

LEMMA FlagsFrame ==
  ASSUME NEW r \in RemoteType, NEW k, NEW c, NEW v
  PROVE  /\ Frame(r, [r EXCEPT !.cinit[k] = c])
         /\ Frame(r, [r EXCEPT !.recovering[k] = v])
         /\ Frame(r, [r EXCEPT !.cinit[k] = c, !.recovering[k] = v])
BY DEF Frame, RemoteType

LEMMA MarkInitializedFrame ==
  ASSUME NEW r \in RemoteType, NEW k
  PROVE  Frame(r, MarkInitialized(r, k))
BY FlagsFrame DEF MarkInitialized, Frame

\* only the client of a default key moves
LEMMA MigrateFrame ==
  ASSUME NEW r \in RemoteType, NEW e, NEW k, NEW kind \in OpenKinds, NEW s
  PROVE  Frame(r, Migrate(r, e, k, kind, s))
<1>1. CASE ~CanMigrate(r, e, k, kind, s)
  BY <1>1 DEF Migrate, Frame
<1>2. CASE CanMigrate(r, e, k, kind, s)
  <2> DEFINE kn  == (r.known \ {k}) \cup {kind}
             dk  == [r.dkey EXCEPT ![e] = kind]
  <2>1. k \notin ImKeys /\ kind \in UsableKeys
    BY <1>2, ImKeysAssumption DEF CanMigrate, UsableKeys
  <2>2. r.known \cap ImKeys \subseteq kn /\ kn \subseteq r.known \cup UsableKeys
    BY <2>1
  <2>3. \A f \in Epochs : dk[f] = r.dkey[f] \/ dk[f] \in OpenKinds
    BY DEF RemoteType
  <2> HIDE DEF kn, dk
  <2>4. \A cs, ci, rec : Frame(r, [r EXCEPT !.known = kn, !.cstream = cs, !.cinit = ci,
                                           !.recovering = rec, !.dkey = dk])
    BY <2>2, <2>3 DEF Frame, RemoteType
  <2> QED
    BY <1>2, <2>4 DEF Migrate, kn, dk, RemoteType
<1> QED
  BY <1>1, <1>2

LEMMA TouchFrame ==
  ASSUME NEW r \in RemoteType, NEW e \in Epochs
  PROVE  /\ Frame(r, TouchConnection(r, e))
         /\ \A k : Frame(r, RecordPong(r, e, k))
<1> DEFINE m == MakeNewest(r, e)
           t == TouchConnection(r, e)
<1>1. m \in RemoteType /\ Frame(r, m)
  BY MakeNewestLemma, MakeNewestFrame
<1> HIDE DEF m
<1>2. SyncLegacy(m) \in RemoteType /\ Frame(r, SyncLegacy(m))
  BY <1>1, SyncLegacyLemma, SyncLegacyFrame, FrameAgain
<1>3. t \in RemoteType /\ Frame(r, t)
  BY <1>2 DEF TouchConnection, m, Frame
<1> HIDE DEF t
<1>4. \A k : Frame(r, SyncIfDefault(t, k))
  BY <1>3, SyncIfDefaultFrame, FrameAgain
<1> QED
  BY <1>3, <1>4 DEF RecordPong, t

LEMMA ClientsFrame ==
  ASSUME NEW r \in RemoteType, NEW k \in UsableKeys
  PROVE  /\ Frame(r, UseClient(r, k)) /\ Frame(r, ResetClient(r, k))
         /\ Frame(r, BeginRecovery(r, k)) /\ Frame(r, EndRecovery(r, k))
<1> DEFINE q  == EnsureClient(r, k)
           ci == [q.cinit EXCEPT ![k] = FALSE]
           on == [q.recovering EXCEPT ![k] = TRUE]
           off == [r.recovering EXCEPT ![k] = FALSE]
           q1 == [q EXCEPT !.cinit = ci]
           q2 == [q EXCEPT !.cinit = ci, !.recovering = on]
           q3 == [r EXCEPT !.recovering = off]
<1>1. k \in Keys
  BY KeyFacts DEF UsableKeys
<1>2. q \in RemoteType /\ Frame(r, q)
  BY <1>1, EnsureClientLemma, EnsureClientFrame
<1>3. /\ ResetClient(r, k) = SyncIfDefault(q1, k) /\ BeginRecovery(r, k) = SyncIfDefault(q2, k)
      /\ EndRecovery(r, k) = SyncIfDefault(q3, k) /\ UseClient(r, k) = SyncIfDefault(q, k)
  BY DEF ResetClient, BeginRecovery, EndRecovery, UseClient
<1> HIDE DEF q
<1>4. ci \in [Keys -> BOOLEAN] /\ on \in [Keys -> BOOLEAN] /\ off \in [Keys -> BOOLEAN]
  BY <1>2 DEF RemoteType
<1> HIDE DEF ci, on, off
<1>5. q1 \in RemoteType /\ q2 \in RemoteType /\ q3 \in RemoteType
  BY <1>2, <1>4 DEF RemoteType
<1>6. Frame(q, q1) /\ Frame(q, q2) /\ Frame(r, q3)
  BY <1>2 DEF Frame, RemoteType
<1> HIDE DEF q1, q2, q3
<1>7. /\ Frame(q, SyncIfDefault(q, k)) /\ Frame(q1, SyncIfDefault(q1, k))
      /\ Frame(q2, SyncIfDefault(q2, k)) /\ Frame(q3, SyncIfDefault(q3, k))
  BY <1>2, <1>5, SyncIfDefaultFrame
<1> QED
  BY <1>2, <1>3, <1>6, <1>7, FrameAgain

LEMMA RefreshFrame ==
  ASSUME NEW r \in RemoteType
  PROVE  Frame(r, SyncLegacy(Prune(r))) /\ Frame(r, SyncLegacy(r)) /\ Frame(r, SyncDefault(r))
BY PruneLemma, PruneFrame, SyncLegacyFrame, SyncDefaultFrame, FrameAgain

\* the kind an initialize result settles on is one the app-servers have
LEMMA ResultKindIsOpen ==
  ASSUME NEW r, Based(r), NEW e, NEW ua \in OpenKinds
  PROVE  ResultKind(r, e, ua) \in OpenKinds
BY DEF ResultKind, Based

LEMMA InitializeResultFrame ==
  ASSUME NEW r, Good(r), Based(r), NEW e \in Epochs, NEW k, NEW s, NEW ua \in OpenKinds
  PROVE  Frame(r, InitializeResult(r, e, k, s, ua))
<1> DEFINE kind == ResultKind(r, e, ua)
           it   == [r.init EXCEPT ![e] = TRUE]
           kd   == [r.kind EXCEPT ![e] = kind]
           r1   == IF e \in r.live THEN [r EXCEPT !.init = it, !.kind = kd] ELSE r
           k2   == ResultKey(r, e, k, s, ua)
           m    == Migrate(r1, e, k, kind, s)
           mi   == MarkInitialized(m, k2)
           r2   == IF k = NoKey THEN r1 ELSE SyncIfDefault(mi, k2)
<1>1. r \in RemoteType /\ Registered(r)
  BY DEF Good
<1>2. /\ kind \in OpenKinds /\ kind \in Kinds
      /\ e \in r.live /\ r.kind[e] # "unknown" => kind = r.kind[e]
  BY ResultKindIsOpen, KeyFacts DEF ResultKind
<1>3. InitializeResult(r, e, k, s, ua) = SyncLegacy(r2)
  BY DEF InitializeResult
<1> HIDE DEF kind, k2
<1>4. /\ r1 \in RemoteType /\ r1.live = r.live /\ r1.dkey = r.dkey /\ r1.known = r.known
      /\ Frame(r, r1) /\ r1.kind = IF e \in r.live THEN kd ELSE r.kind
  <2>1. it \in [Epochs -> BOOLEAN] /\ kd \in [Epochs -> Kinds]
    BY <1>1, <1>2 DEF RemoteType
  <2>2. \A f \in Epochs : kd[f] = r.kind[f] \/ kd[f] \in OpenKinds
    BY <1>1, <1>2 DEF RemoteType
  <2> HIDE DEF it, kd
  <2>3. /\ r1 \in RemoteType /\ r1.live = r.live /\ r1.dkey = r.dkey /\ r1.known = r.known
        /\ r1.kind = IF e \in r.live THEN kd ELSE r.kind
    BY <1>1, <2>1 DEF RemoteType
  <2>4. Frame(r, r1)
    BY <1>1, <2>2 DEF RemoteType, Frame
  <2> QED
    BY <2>3, <2>4
<1>5. e \in r.live => r1.kind[e] = kind
  BY <1>1, <1>4 DEF RemoteType
<1>6. Registered(r1)
  BY <1>1, <1>2, <1>4 DEF Registered, RemoteType
<1> HIDE DEF r1, it, kd
<1>7. m \in RemoteType /\ Frame(r, m)
  <2>1. CASE e \in r.live
    BY <1>2, <1>4, <1>5, <1>6, <2>1, MigrateLemma, MigrateFrame, FrameAgain
  <2>2. CASE e \notin r.live
    <3>1. m = r1
      BY <1>4, <2>2 DEF Migrate, CanMigrate, Owners
    <3> QED
      BY <1>4, <3>1
  <2> QED
    BY <2>1, <2>2
<1> HIDE DEF m
<1>8. mi \in RemoteType /\ Frame(r, mi)
  BY <1>7, MarkInitializedLemma, MarkInitializedFrame, FrameAgain
<1> HIDE DEF mi
<1>9. r2 \in RemoteType /\ Frame(r, r2)
  BY <1>4, <1>8, SyncIfDefaultLemma, SyncIfDefaultFrame, FrameAgain
<1> QED
  BY <1>3, <1>9, SyncLegacyFrame, FrameAgain

LEMMA NotificationFrame ==
  ASSUME NEW r \in RemoteType, NEW e \in Epochs, NEW k
  PROVE  Frame(r, InitializedNotification(r, e, k))
<1> DEFINE it == [r.init EXCEPT ![e] = TRUE]
           r1 == IF e \in r.live THEN [r EXCEPT !.init = it] ELSE r
           mi == MarkInitialized(r1, k)
           r2 == IF k = NoKey THEN r1 ELSE SyncIfDefault(mi, k)
<1>1. r1 \in RemoteType /\ Frame(r, r1)
  <2>1. it \in [Epochs -> BOOLEAN]
    BY DEF RemoteType
  <2> HIDE DEF it
  <2>2. r1 \in RemoteType
    BY <2>1 DEF RemoteType
  <2>3. Frame(r, r1)
    BY DEF RemoteType, Frame
  <2> QED
    BY <2>2, <2>3
<1>2. InitializedNotification(r, e, k) = SyncLegacy(r2)
  BY DEF InitializedNotification
<1> HIDE DEF r1
<1>3. mi \in RemoteType /\ Frame(r, mi)
  BY <1>1, MarkInitializedLemma, MarkInitializedFrame, FrameAgain
<1> HIDE DEF mi
<1>4. r2 \in RemoteType /\ Frame(r, r2)
  BY <1>1, <1>3, SyncIfDefaultLemma, SyncIfDefaultFrame, FrameAgain
<1> QED
  BY <1>2, <1>4, SyncLegacyFrame, FrameAgain

-----------------------------------------------------------------------------
(* What any section does to a good and based record.  Only the cleanup of a *)
(* connection takes one away.                                               *)
Kept(r, q) == /\ Good(q) /\ Based(q) /\ Routed(r, q)
              /\ r.next <= q.next
              /\ r.known \cap ImKeys \subseteq q.known
Stays(r, q) == Kept(r, q) /\ r.live \subseteq q.live

LEMMA CloseKept ==
  ASSUME NEW r, Good(r), Based(r), NEW e \in r.live
  PROVE  Kept(r, CloseConnection(r, e)) /\ CloseConnection(r, e).live = r.live \ {e}
<1> DEFINE lv == r.live \ {e}
           nw == {p \in r.newer : p[1] # e /\ p[2] # e}
           q  == [r EXCEPT !.live = lv, !.newer = nw]
           c  == CloseConnection(r, e)
<1>1. r \in RemoteType
  BY DEF Good
<1>2. nw \in SUBSET (Epochs \X Epochs) /\ lv \in SUBSET Epochs /\ lv \subseteq r.live
  BY <1>1 DEF RemoteType
<1>3. c = SyncLegacy(Prune(q))
  BY DEF CloseConnection
<1> HIDE DEF nw, lv
<1>4. /\ q \in RemoteType /\ q.live = lv /\ q.next = r.next /\ q.known = r.known
      /\ q.connected = r.connected /\ q.epoch = r.epoch
      /\ q.kind = r.kind /\ q.dkey = r.dkey
  BY <1>1, <1>2 DEF RemoteType
<1> HIDE DEF q
<1>5. Based(q)
  BY <1>2, <1>4 DEF Based
<1>6. Frame(q, Prune(q)) /\ Prune(q) \in RemoteType
  BY <1>4, PruneFrame, PruneLemma
<1>7. Frame(q, c)
  BY <1>3, <1>6, SyncLegacyFrame, FrameAgain
<1> HIDE DEF c
<1>8. Based(c)
  BY <1>4, <1>5, <1>7, FrameBased
<1>9. Good(c) /\ Routed(r, c)
  BY CloseConnectionKeeps DEF Keeps, c
<1>10. c.next = r.next /\ c.live = lv /\ r.known \cap ImKeys \subseteq c.known
  BY <1>4, <1>7 DEF Frame
<1>11. r.next <= c.next
  BY <1>1, <1>10 DEF RemoteType
<1> QED
  BY <1>8, <1>9, <1>10, <1>11 DEF Kept, c, lv

LEMMA OpenStays ==
  ASSUME NEW r, Good(r), Based(r), NEW kind \in OpenKinds, r.next < MaxEpoch
  PROVE  LET q == OpenConnection(r, kind)
         IN  Stays(r, q) /\ q.next = r.next + 1 /\ q.next \in q.live
<1> DEFINE e  == r.next + 1
           r0 == [r EXCEPT !.next = e, !.epoch = e, !.connected = TRUE,
                           !.initialized = FALSE]
           r1 == EnsureClient(r0, kind)
           lv == r1.live \cup {e}
           kd == [r1.kind EXCEPT ![e] = kind]
           it == [r1.init EXCEPT ![e] = FALSE]
           dk == [r1.dkey EXCEPT ![e] = kind]
           r2 == [r1 EXCEPT !.live = lv, !.kind = kd, !.init = it, !.dkey = dk]
           r3 == MakeNewest(r2, e)
           q  == OpenConnection(r, kind)
<1>1. r \in RemoteType
  BY DEF Good
<1>2. e \in Epochs /\ e \in 0..MaxEpoch /\ e \in 1..e /\ r.next <= e /\ e # 0
  BY <1>1, MaxEpochAssumption DEF RemoteType, Epochs
<1>3. kind \in Keys /\ kind \in DefaultKeys /\ kind \in Kinds /\ kind \in UsableKeys
  BY KeyFacts DEF UsableKeys
<1>4. r.live \subseteq 1..e
  BY <1>1 DEF Based, RemoteType, Epochs
<1> HIDE DEF e
<1>5. /\ r0 \in RemoteType /\ r0.live = r.live /\ r0.next = e /\ r0.known = r.known
      /\ r0.connected /\ r0.epoch = e /\ r0.kind = r.kind /\ r0.dkey = r.dkey
  BY <1>1, <1>2 DEF RemoteType
<1> HIDE DEF r0
<1>6. Based(r0)
  BY <1>2, <1>4, <1>5 DEF Based
<1>7. /\ r1 \in RemoteType /\ Frame(r0, r1)
      /\ r1.live = r0.live
  BY <1>3, <1>5, EnsureClientLemma, EnsureClientFrame
<1>8. Based(r1) /\ r1.next = e /\ r.known \cap ImKeys \subseteq r1.known
  BY <1>5, <1>6, <1>7, FrameBased DEF Frame
<1> HIDE DEF r1
<1>9. /\ lv \in SUBSET Epochs /\ kd \in [Epochs -> Kinds]
      /\ it \in [Epochs -> BOOLEAN] /\ dk \in [Epochs -> DefaultKeys]
      /\ \A f \in lv : kd[f] \in OpenKinds
      /\ \A f \in Epochs : dk[f] \in OpenKinds \cup {Default}
      /\ r.live \subseteq lv /\ e \in lv /\ lv \subseteq 1..e
  BY <1>2, <1>3, <1>4, <1>5, <1>7, <1>8 DEF RemoteType, Based
<1> HIDE DEF lv, kd, it, dk
<1>10. /\ r2 \in RemoteType /\ r2.live = lv /\ r2.kind = kd /\ r2.dkey = dk
       /\ r2.known = r1.known /\ r2.next = e /\ r2.connected = r1.connected
       /\ r2.epoch = r1.epoch
  BY <1>7, <1>8, <1>9 DEF RemoteType
<1> HIDE DEF r2
<1>11. Based(r2)
  BY <1>8, <1>9, <1>10 DEF Based
<1>12. r3 \in RemoteType /\ Frame(r2, r3)
  BY <1>2, <1>10, MakeNewestLemma, MakeNewestFrame
<1>13. q = SyncDefault(Prune(r3))
  BY DEF OpenConnection, e, r0, r1, r2, lv, kd, it, dk
<1> HIDE DEF r3
<1>14. Prune(r3) \in RemoteType /\ Frame(r2, Prune(r3))
  BY <1>12, PruneLemma, PruneFrame, FrameAgain
<1>15. Frame(r2, q)
  BY <1>13, <1>14, SyncDefaultFrame, FrameAgain
<1>16. Good(q) /\ Routed(r, q)
  BY <1>3, OpenConnectionKeeps DEF Keeps
<1> HIDE DEF q
<1>17. Based(q)
  BY <1>10, <1>11, <1>15, FrameBased
<1>18. /\ q.next = e /\ q.live = lv /\ r.known \cap ImKeys \subseteq q.known
  BY <1>8, <1>10, <1>15 DEF Frame
<1>19. Stays(r, q) /\ q.next = e /\ q.next \in q.live
  BY <1>2, <1>9, <1>16, <1>17, <1>18 DEF Stays, Kept
<1> QED
  BY <1>19 DEF q, e

\* every section but those that open and close a connection
Section == Touch \/ Result \/ Notification \/ UseAnyClient \/ Recover \/ Refresh

LEMMA SectionStays ==
  ASSUME Good(remote), Based(remote), Section
  PROVE  Stays(remote, remote')
<1>1. remote \in RemoteType
  BY DEF Good
<1>2. remote.live \subseteq Epochs /\ 1..remote.next \subseteq Epochs
  BY <1>1, MaxEpochAssumption DEF RemoteType, Epochs
<1>3. Frame(remote, remote')
  <2>1. CASE Touch
    BY <1>1, <1>2, <2>1, TouchFrame DEF Touch
  <2>2. CASE Result
    BY <1>2, <2>2, InitializeResultFrame DEF Result
  <2>3. CASE Notification
    BY <1>1, <1>2, <2>3, NotificationFrame DEF Notification
  <2>4. CASE UseAnyClient
    BY <1>1, <2>4, ClientsFrame, EnsureClientFrame DEF UseAnyClient
  <2>5. CASE Recover
    BY <1>1, <2>5, ClientsFrame DEF Recover
  <2>6. CASE Refresh
    BY <1>1, <2>6, RefreshFrame DEF Refresh
  <2> QED
    BY <2>1, <2>2, <2>3, <2>4, <2>5, <2>6 DEF Section
<1>4. Good(remote') /\ Routed(remote, remote')
  BY NextKeeps DEF Section, RegistryNext, Keeps
<1>5. Based(remote')
  BY <1>1, <1>3, FrameBased
<1>6. remote'.next = remote.next /\ remote.next \in Nat
  BY <1>1, <1>3 DEF Frame, RemoteType
<1> QED
  BY <1>3, <1>4, <1>5, <1>6 DEF Stays, Kept, Frame

-----------------------------------------------------------------------------
(* The invariant of the tasks.                                              *)
Opening == {"ensure", "decide", "init", "initsend"}

\* the connections whose own initialize is sent
Started == {e \in Epochs : task[e].pc \in {"done", "ping"}}

\* a task holds a key from the moment it has resolved it; the client of a
\* request of the IM side is there when the request is filed
HoldsKeys(t, v, r) ==
  /\ v.pc = "resolve" => v.key \in Keys
  /\ t \in Callers /\ v.pc = "idle" => v.key \in Keys
  /\ v.pc \notin {"idle", "resolve", "done"} => v.key \in UsableKeys
  /\ v.pc \in {"decide", "init", "initsend"} => v.ikey \in UsableKeys
  /\ t \in Callers \ Targeted /\ v.pc # "done" => v.key \in ImKeys
  /\ t \in Callers \ Targeted /\ v.pc = "reserve" => v.key \in r.known

\* a socket stays up until its own initialize is sent, so that cannot fail
OpensItself(t, v, r, u) ==
  t \in Epochs =>
    /\ v.pc \in Opening \cup {"idle", "done", "ping"}
    /\ v.pc \in Opening => t \in u /\ v.epoch = t
    /\ v.result \notin {"failed", "cancelled"}
    /\ t > r.next => v = IdleTask

\* what it is about to file or to send has a connection and an id
MaySend(v) == /\ v.pc \in {"init", "initsend"} => v.epoch \in Epochs
              /\ v.pc \in {"initsend", "send"} => v.n # 0

TaskSound(t, v, r, u, S) ==
  /\ v \in TaskType
  /\ HoldsKeys(t, v, r)
  /\ MaySend(v)
  /\ OpensItself(t, v, r, u)
  /\ v.pc \notin {"idle", "recwait", "ready", "done"} => r.next # 0
  /\ t \in Slots /\ v.pc \notin {"idle", "done"} => v.epoch \in S

\* an item of the queue and the result a worker works on come from the
\* app-server of a connection in use
SoundItem == {i \in ItemType : ~i.pong => i.ua \in OpenKinds}
WorkerSound(w, r) ==
  w.pc = "flags" => /\ w.key \in UsableKeys /\ w.ua \in OpenKinds
                    /\ \E j \in r.known : r.cstream[j] = w.stream

TasksSound == \A t \in Tasks : TaskSound(t, task[t], remote, up, Started)
WorkersSound ==
  /\ worker \in [Epochs -> WorkerType] /\ queue \in [Epochs -> Seq(SoundItem)]
  /\ \A e \in Epochs : WorkerSound(worker[e], remote)
  /\ \A e \in Epochs : worker[e].pc # "idle" \/ queue[e] # << >> => e \in Started
OthersTyped ==
  /\ pend \subseteq Entries
  /\ app \in [Epochs -> SUBSET Streams] /\ inbox \in [Epochs -> SUBSET MessageType]
  /\ reached \in [Callers -> SUBSET Epochs]

Sound ==
  /\ Good(remote) /\ Based(remote) /\ up \subseteq remote.live
  /\ DOMAIN task = Tasks /\ TasksSound /\ WorkersSound /\ OthersTyped

-----------------------------------------------------------------------------
(* What the tasks do to the registry is what RemoteConnections allows.      *)

\* once a connection has been opened, there is one to send on
LEMMA SomeConnection ==
  ASSUME NEW r, Good(r), Based(r), r.next # 0
  PROVE  \E e \in Epochs : Exists(r, e)
<1>1. r \in RemoteType
  BY DEF Good
<1>2. r.live \subseteq Epochs /\ 1..r.next \subseteq Epochs
  BY <1>1, MaxEpochAssumption DEF RemoteType, Epochs
<1> QED
  BY <1>2 DEF Exists, Based

LEMMA ExistsFacts ==
  ASSUME NEW r, Good(r), Based(r), NEW e, Exists(r, e)
  PROVE  e \in Epochs /\ r.next # 0 /\ e \in 1..r.next
<1>1. r \in RemoteType
  BY DEF Good
<1>2. 1..r.next \subseteq Epochs
  BY <1>1, MaxEpochAssumption DEF RemoteType, Epochs
<1>3. r.next \in Nat
  BY <1>1 DEF RemoteType
<1> QED
  BY <1>2, <1>3 DEF Exists, Based

LEMMA SoundFacts ==
  ASSUME Sound
  PROVE  /\ remote \in RemoteType /\ Good(remote) /\ Based(remote) /\ up \subseteq remote.live
         /\ remote.known \subseteq UsableKeys /\ remote.live \subseteq Epochs
         /\ \A t \in Tasks : TaskSound(t, task[t], remote, up, Started)
         /\ UsableKeys \subseteq Keys /\ NoKey \notin Keys
<1>1. UsableKeys \subseteq Keys
  BY KeyFacts DEF UsableKeys
<1>2. NoKey \notin Keys
  BY ImKeysAssumption DEF Keys, DefaultKeys, Kinds, NoKey, Default
<1> QED
  BY <1>1, <1>2 DEF Sound, TasksSound, Good, Based, RemoteType

\* the sections a task can ask for
LEMMA Sections ==
  ASSUME Sound
  PROVE  /\ remote' = SyncLegacy(remote) => Section
         /\ remote' = SyncLegacy(Prune(remote)) => Section
         /\ \A k : remote' = SyncIfDefault(remote, k) => Section \/ UNCHANGED remote
         /\ remote.next # 0 => \A k \in UsableKeys :
               \/ remote' = EnsureClient(remote, k)
               \/ remote' = SyncIfDefault(EnsureClient(remote, k), k)
               \/ remote' = ResetClient(remote, k)
               \/ remote' = BeginRecovery(remote, k)
               \/ k \in remote.known /\ remote' = EndRecovery(remote, k)
               => Section
         /\ \A e : remote' = TouchConnection(remote, e) => Section \/ UNCHANGED remote
         /\ \A e \in remote.live : \A k : remote' = RecordPong(remote, e, k) => Section
<1>1. Good(remote) /\ Based(remote)
  BY SoundFacts
<1>2. Refresh => Section
  BY DEF Section
<1>3. remote.next # 0 => \E e \in Epochs : Exists(remote, e)
  BY <1>1, SomeConnection
<1>4. ASSUME NEW e, remote' = TouchConnection(remote, e) PROVE Touch \/ UNCHANGED remote
  BY <1>4 DEF Touch, TouchConnection
<1>5. \A e \in remote.live : \A k : remote' = RecordPong(remote, e, k) => Touch
  BY DEF Touch, RecordPong, SyncIfDefault, DefaultKeys
<1>6. ASSUME remote.next # 0, NEW k \in UsableKeys,
             \/ remote' = EnsureClient(remote, k)
             \/ remote' = SyncIfDefault(EnsureClient(remote, k), k)
             \/ remote' = ResetClient(remote, k)
             \/ remote' = BeginRecovery(remote, k)
             \/ k \in remote.known /\ remote' = EndRecovery(remote, k)
      PROVE  Section
  BY <1>3, <1>6 DEF Section, UseAnyClient, Recover, UseClient
<1>7. ASSUME NEW k, remote' = SyncIfDefault(remote, k) PROVE Refresh \/ UNCHANGED remote
  BY <1>7 DEF Refresh, SyncIfDefault
<1> QED
  BY <1>2, <1>4, <1>5, <1>6, <1>7 DEF Section, Refresh

Quiet == Section \/ UNCHANGED remote

LEMMA ReserveIsQuiet ==
  ASSUME Sound, NEW t \in Tasks, Reserve(t)
  PROVE  Quiet
<1> DEFINE r0 == IF OnConnection(t) THEN remote ELSE SyncLegacy(remote)
           e  == ReserveEpoch(t, r0)
           k  == task[t].key
           r  == EnsureClient(r0, k)
<1>1. TaskSound(t, task[t], remote, up, Started) /\ task[t].pc = "reserve"
  BY SoundFacts DEF Reserve, At
<1>2. k \in UsableKeys /\ remote.next # 0
  BY <1>1 DEF TaskSound, HoldsKeys
<1>3. t \notin Epochs
  BY <1>1 DEF TaskSound, OpensItself, Opening
<1>4. \/ remote' = r0 \/ remote' = r \/ remote' = SyncIfDefault(r, k)
  BY DEF Reserve
<1>5. CASE OnConnection(t)
  BY <1>2, <1>4, <1>5, Sections DEF Quiet
<1>6. CASE ~OnConnection(t)
  <2>1. k \in ImKeys /\ k \in remote.known
    BY <1>1, <1>3, <1>6 DEF TaskSound, HoldsKeys, Tasks, OnConnection
  <2>2. r0 = SyncLegacy(remote) /\ r0.known = remote.known
    BY <1>6, SoundFacts, SyncLegacyLemma DEF SameRegistry
  <2>3. k \notin DefaultKeys
    BY <2>1, ImKeysAssumption
  <2> HIDE DEF r0
  <2>4. r = r0
    BY <2>1, <2>2 DEF EnsureClient
  <2>5. SyncIfDefault(r, k) = r
    BY <2>3 DEF SyncIfDefault
  <2> QED
    BY <1>4, <2>2, <2>4, <2>5, Sections DEF Quiet
<1> QED
  BY <1>5, <1>6

LEMMA TaskStepIsQuiet ==
  ASSUME Sound, NEW t \in Tasks, TaskStep(t)
  PROVE  Quiet
<1>1. TaskSound(t, task[t], remote, up, Started)
  BY SoundFacts
<1>2. CASE Resolve(t) \/ WaitOver(t) \/ WaitFailed(t) \/ Ensure(t) \/ InitSend(t) \/ Send(t)
             \/ Receive(t) \/ Retry(t)
  BY <1>2 DEF Quiet, Resolve, WaitOver, WaitFailed, Ensure, InitSend, Send, Receive, Retry
<1>3. CASE Decide(t)
  <2>1. task[t].ikey \in UsableKeys /\ remote.next # 0
    BY <1>1, <1>3 DEF TaskSound, HoldsKeys, Decide, At
  <2> QED
    BY <1>3, <2>1, Sections DEF Decide, Quiet
<1>4. CASE InitReserve(t)
  <2>1. task[t].ikey \in UsableKeys /\ remote.next # 0
    BY <1>1, <1>4 DEF TaskSound, HoldsKeys, InitReserve, At
  <2> QED
    BY <1>4, <2>1, Sections DEF InitReserve, Quiet
<1>5. CASE InitSendFailed(t) \/ GiveUp(t)
  BY <1>5, Sections DEF InitSendFailed, GiveUp, Quiet
<1> QED
  BY <1>2, <1>3, <1>4, <1>5, ReserveIsQuiet DEF TaskStep

LEMMA CallerStepIsQuiet ==
  ASSUME Sound, NEW c \in Callers, CallerStep(c) \/ Cancel(c)
  PROVE  Quiet
<1>1. CASE Begin(c) \/ BeginTargeted(c) \/ Cancel(c)
  BY <1>1 DEF Begin, BeginTargeted, Cancel, Quiet
<1>2. CASE Ready(c)
  BY <1>2, Sections DEF Ready, Quiet
<1> QED
  BY <1>1, <1>2 DEF CallerStep

LEMMA RecoveryStepIsQuiet ==
  ASSUME Sound, NEW x \in Slots, RecoveryStep(x)
  PROVE  Quiet
<1>1. TaskSound(x, task[x], remote, up, Started)
  BY SoundFacts DEF Tasks
<1>2. CASE RecoveryReset(x)
  <2>1. task[x].key \in UsableKeys /\ remote.next # 0
    BY <1>1, <1>2 DEF TaskSound, HoldsKeys, RecoveryReset, At
  <2> QED
    BY <1>2, <2>1, Sections DEF RecoveryReset, Quiet
<1>3. CASE RecoveryFinish(x)
  <2>1. task[x].key \in UsableKeys /\ remote.next # 0
    BY <1>1, <1>3 DEF TaskSound, HoldsKeys, RecoveryFinish, At
  <2> QED
    BY <1>3, <2>1, Sections DEF RecoveryFinish, Quiet
<1>4. CASE RecoveryResubscribe(x) \/ RecoveryForce(x)
  BY <1>4 DEF RecoveryResubscribe, RecoveryForce, Quiet
<1> QED
  BY <1>2, <1>3, <1>4 DEF RecoveryStep

LEMMA StartedIsOpened ==
  ASSUME Sound, NEW e \in Started
  PROVE  e \in Epochs /\ e \in 1..remote.next /\ remote.next # 0
<1>1. e \in Epochs /\ e \in Tasks /\ TaskSound(e, task[e], remote, up, Started)
  BY SoundFacts DEF Started, Tasks
<1>2. task[e].pc \in {"done", "ping"}
  BY DEF Started
<1>3. ~(e > remote.next)
  BY <1>1, <1>2 DEF TaskSound, OpensItself, IdleTask
<1>4. remote.next \in Nat
  BY SoundFacts DEF RemoteType
<1> QED
  BY <1>1, <1>3, <1>4 DEF Epochs

LEMMA WorkerStepIsQuiet ==
  ASSUME Sound, NEW e \in Epochs, WorkerStep(e)
  PROVE  Quiet
<1>1. worker[e].pc # "idle" \/ queue[e] # << >> => e \in Started
  BY DEF Sound, WorkersSound
<1>2. CASE TakeAnswer(e)
  <2>1. remote' = SyncDefault(remote) \/ UNCHANGED remote
    BY <1>2 DEF TakeAnswer
  <2> QED
    BY <2>1 DEF Quiet, Section, Refresh
<1>3. CASE TakePong(e)
  <2>1. remote.next # 0
    BY <1>1, <1>3, StartedIsOpened DEF TakePong
  <2>2. \/ UNCHANGED remote
        \/ \E k \in remote.known : remote' = BeginRecovery(remote, k)
    BY <1>3 DEF TakePong, LookedUp, KeysForStream
  <2> QED
    BY <2>1, <2>2, Sections, SoundFacts DEF Quiet
<1>4. CASE WorkerFlags(e)
  <2>1. WorkerSound(worker[e], remote) /\ worker[e].pc = "flags"
    BY <1>4 DEF Sound, WorkersSound, WorkerFlags
  <2>2. e \in 1..remote.next
    BY <1>1, <2>1, StartedIsOpened
  <2>3. Result
    BY <1>4, <2>1, <2>2 DEF WorkerFlags, WorkerSound, Result
  <2> QED
    BY <2>3 DEF Quiet, Section
<1>5. CASE WorkerInitialized(e)
  BY <1>5, Sections DEF WorkerInitialized, Quiet
<1>6. CASE WorkerSnapshot(e) \/ WorkerReplay(e) \/ WorkerAnswer(e)
  BY <1>6 DEF WorkerSnapshot, WorkerReplay, WorkerAnswer, Quiet
<1> QED
  BY <1>2, <1>3, <1>4, <1>5, <1>6 DEF WorkerStep

\* a connection is closed only when its socket is gone
CloseStep == \E e \in remote.live \ up : remote' = CloseConnection(remote, e) /\ UNCHANGED up

LEMMA SocketStepOnRegistry ==
  ASSUME Sound, NEW e \in Epochs, SocketStep(e)
  PROVE  Quiet \/ CloseStep
<1>1. CASE SocketLost(e) \/ WorkerAbort(e) \/ AppPingTarget(e)
  BY <1>1 DEF SocketLost, WorkerAbort, AppPingTarget, Quiet
<1>2. CASE SocketCleanup(e)
  BY <1>2 DEF SocketCleanup, CloseStep
<1>3. CASE SocketFrame(e)
  BY <1>3, Sections DEF SocketFrame, Quiet
<1>4. CASE AppPingMark(e)
  <2>1. TaskSound(e, task[e], remote, up, Started) /\ task[e].pc = "ping"
    BY <1>4, SoundFacts DEF AppPingMark, At, Tasks
  <2>2. task[e].key \in UsableKeys /\ remote.next # 0
    BY <2>1 DEF TaskSound, HoldsKeys
  <2> QED
    BY <1>4, <2>2, Sections DEF AppPingMark, Quiet, UseClient
<1> QED
  BY <1>1, <1>2, <1>3, <1>4 DEF SocketStep

LEMMA AppStepIsQuiet ==
  ASSUME Sound, NEW e \in Epochs, AppStep(e)
  PROVE  Quiet
<1>1. CASE AppAnswer(e)
  BY <1>1, Sections DEF AppAnswer, Quiet
<1>2. CASE AppForget(e)
  BY <1>2 DEF AppForget, Quiet
<1>3. CASE AppPongUnknown(e)
  <2>1. e \in remote.live
    BY <1>3, SoundFacts DEF AppPongUnknown, Running
  <2> QED
    BY <1>3, <2>1, Sections DEF AppPongUnknown, Quiet
<1> QED
  BY <1>1, <1>2, <1>3 DEF AppStep

LEMMA StepOnRegistry ==
  ASSUME Sound, ControlNext
  PROVE  Quiet \/ CloseStep \/ SocketOpen
<1>1. CASE StatusSnapshot
  BY <1>1, Sections DEF StatusSnapshot, Quiet
<1> QED
  BY <1>1, TaskStepIsQuiet, CallerStepIsQuiet, RecoveryStepIsQuiet, WorkerStepIsQuiet,
     SocketStepOnRegistry, AppStepIsQuiet DEF ControlNext
-----------------------------------------------------------------------------
(* The invariant is kept: the tasks.                                        *)

LEMMA RegistryKept ==
  ASSUME Sound, ControlNext
  PROVE  Kept(remote, remote') /\ (remote.live \subseteq remote'.live \/ CloseStep)
<1>1. Good(remote) /\ Based(remote) /\ remote.next \in Nat
  BY SoundFacts DEF RemoteType
<1>2. CASE Quiet
  BY <1>1, <1>2, SectionStays DEF Quiet, Stays, Kept, Routed, Good, Based, RemoteType,
     ActiveOpen, Registered
<1>3. CASE CloseStep
  BY <1>1, <1>3, CloseKept DEF CloseStep
<1>4. CASE SocketOpen
  BY <1>1, <1>4, OpenStays DEF SocketOpen, Open, Stays
<1> QED
  BY <1>2, <1>3, <1>4, StepOnRegistry

\* what holds of a task goes on to hold while others work
LEMMA TaskStays ==
  ASSUME NEW t \in Tasks, NEW v, NEW r, NEW q, NEW u, NEW w, NEW S, NEW T,
         TaskSound(t, v, r, u, S), Kept(r, q), r \in RemoteType, S \subseteq T,
         t \in Epochs /\ v.pc \in Opening /\ t \in u => t \in w
  PROVE  TaskSound(t, v, q, w, T)
<1>1. r.next \in Nat /\ q.next \in Nat /\ r.next <= q.next
  BY DEF Kept, Good, RemoteType
<1>2. HoldsKeys(t, v, q)
  BY DEF TaskSound, HoldsKeys, Kept
<1>3. OpensItself(t, v, q, w)
  BY <1>1 DEF TaskSound, OpensItself, Epochs
<1> QED
  BY <1>1, <1>2, <1>3 DEF TaskSound

LEMMA TasksStay ==
  ASSUME Sound, Kept(remote, remote'), DOMAIN task' = Tasks,
         \A t \in Tasks : \/ TaskSound(t, task'[t], remote, up, Started)
                          \/ TaskSound(t, task'[t], remote', up', Started),
         Started \subseteq Started',
         \A e \in Epochs : task'[e].pc \in Opening /\ e \in up => e \in up'
  PROVE  TasksSound'
<1>1. remote \in RemoteType /\ remote' \in RemoteType
  BY SoundFacts DEF Kept, Good
<1>2. Kept(remote', remote')
  BY <1>1 DEF Kept, Routed, RemoteType
<1> SUFFICES ASSUME NEW t \in Tasks PROVE TaskSound(t, task'[t], remote', up', Started')
  BY DEF TasksSound
<1>3. CASE TaskSound(t, task'[t], remote, up, Started)
  BY <1>1, <1>3, TaskStays
<1>4. CASE TaskSound(t, task'[t], remote', up', Started)
  BY <1>1, <1>2, <1>4, TaskStays
<1> QED
  BY <1>3, <1>4

\* one task moves on
OneTask(t) ==
  /\ DOMAIN task' = Tasks /\ \A s \in Tasks \ {t} : task'[s] = task[s]
  /\ TaskSound(t, task'[t], remote, up, Started)
  /\ task[t].pc \in {"done", "ping"} => task'[t].pc \in {"done", "ping"}

LEMMA OneTaskStays ==
  ASSUME Sound, NEW t \in Tasks, OneTask(t)
  PROVE  /\ DOMAIN task' = Tasks
         /\ \A s \in Tasks : TaskSound(s, task'[s], remote, up, Started)
         /\ Started \subseteq Started'
<1>1. Epochs \subseteq Tasks
  BY DEF Tasks
<1>2. Started' = {e \in Epochs : task'[e].pc \in {"done", "ping"}}
  BY DEF Started
<1>3. Started \subseteq Started'
  BY <1>1, <1>2 DEF OneTask, Started
<1> QED
  BY <1>3, SoundFacts DEF OneTask

LEMMA IdleTyped == IdleTask \in TaskType /\ RootStream \in Streams
<1>1. RootStream \in Streams
  BY DEF Streams, RootStream
<1>2. None \in Epochs \cup {None} /\ NoKey \in MaybeKeys /\ 0 \in Nat
  BY DEF MaybeKeys
<1>3. "idle" \in Pcs /\ "none" \in Results
  BY DEF Pcs, Results
<1> QED
  BY <1>1, <1>2, <1>3 DEF IdleTask, TaskType

LEMMA EndedSound ==
  ASSUME Sound, NEW t \in Tasks, NEW result \in Results,
         t \in Epochs => result \notin {"failed", "cancelled"} /\ ~(t > remote.next)
  PROVE  TaskSound(t, Ended(result), remote, up, Started)
<1>1. IdleTask \in TaskType
  BY IdleTyped
<1>2. Ended(result) \in TaskType /\ Ended(result).pc = "done" /\ Ended(result).result = result
  BY <1>1 DEF Ended, TaskType, Pcs
<1> QED
  BY <1>2 DEF TaskSound, HoldsKeys, OpensItself, Opening, MaySend

LEMMA EndIsOneTask ==
  ASSUME Sound, NEW t \in Tasks, NEW result \in Results, End(t, result),
         t \in Epochs => result \notin {"failed", "cancelled"} /\ ~(t > remote.next)
  PROVE  OneTask(t)
<1>1. DOMAIN task = Tasks
  BY DEF Sound
<1>2. task'[t] = Ended(result) /\ DOMAIN task' = Tasks /\ \A s \in Tasks \ {t} : task'[s] = task[s]
  BY <1>1 DEF End
<1>3. Ended(result).pc = "done"
  BY DEF Ended, IdleTask
<1> QED
  BY <1>2, <1>3, EndedSound DEF OneTask

\* an opening connection was opened
LEMMA OpeningIsOpened ==
  ASSUME Sound, NEW t \in Epochs, task[t].pc # "idle"
  PROVE  ~(t > remote.next)
BY SoundFacts DEF Tasks, TaskSound, OpensItself, IdleTask

LEMMA InitStepDoneIsOneTask ==
  ASSUME Sound, NEW t \in Tasks, InitStepDone(t), task[t].pc \in {"decide", "initsend"},
         t \in Callers \ Targeted => task[t].key \in ImKeys
  PROVE  OneTask(t)
<1>1. TaskSound(t, task[t], remote, up, Started) /\ DOMAIN task = Tasks
  BY SoundFacts DEF Sound
<1>2. CASE t \in Epochs
  <2>1. End(t, "initialized")
    BY <1>2 DEF InitStepDone, AfterInit
  <2>2. "initialized" \in Results
    BY DEF Results
  <2> QED
    BY <1>2, <2>1, <2>2, EndIsOneTask, OpeningIsOpened
<1>3. CASE t \notin Epochs
  <2> DEFINE v == [task[t] EXCEPT !.pc = AfterInit(t), !.ikey = NoKey, !.stream = RootStream]
  <2>1. /\ AfterInit(t) \in {"reserve", "recinit", "initwait"}
        /\ t \in Callers \ Targeted => AfterInit(t) = "initwait"
    BY <1>3, TasksAssumption DEF AfterInit, Tasks
  <2>2. task'[t] = v /\ DOMAIN task' = Tasks /\ \A s \in Tasks \ {t} : task'[s] = task[s]
    BY <1>1, <1>3, <2>1 DEF InitStepDone
  <2>3. /\ v \in TaskType /\ v.pc = AfterInit(t) /\ v.key = task[t].key
        /\ v.epoch = task[t].epoch
    <3>1. AfterInit(t) \in Pcs /\ NoKey \in MaybeKeys /\ RootStream \in Streams
      BY <2>1, IdleTyped DEF Pcs, MaybeKeys
    <3> QED
      BY <1>1, <3>1 DEF TaskSound, TaskType
  <2>4. TaskSound(t, v, remote, up, Started)
    BY <1>1, <1>3, <2>1, <2>3 DEF TaskSound, HoldsKeys, OpensItself, MaySend
  <2> QED
    BY <1>1, <2>2, <2>4 DEF OneTask
<1> QED
  BY <1>2, <1>3
\* the fields of a task, as far as its next step keeps them
Steps(t, v) == DOMAIN task' = Tasks /\ task'[t] = v /\ \A s \in Tasks \ {t} : task'[s] = task[s]

LEMMA TaskFacts ==
  ASSUME Sound, NEW t \in Tasks
  PROVE  /\ DOMAIN task = Tasks /\ task[t] \in TaskType
         /\ TaskSound(t, task[t], remote, up, Started)
         /\ HoldsKeys(t, task[t], remote) /\ OpensItself(t, task[t], remote, up)
         /\ MaySend(task[t])
         /\ task[t].pc \notin {"idle", "recwait", "ready", "done"} => remote.next # 0
         /\ t \in Slots /\ task[t].pc \notin {"idle", "done"} => task[t].epoch \in Started
         /\ t \in Epochs => task[t].pc \in Opening \cup {"idle", "done", "ping"}
         /\ Started \subseteq Epochs
BY SoundFacts DEF Sound, TaskSound, OpensItself, Started

\* the client of a connection, or the default one, is one a caller can hold
LEMMA ResolveUsable ==
  ASSUME Sound, NEW e, NEW k \in Keys
  PROVE  /\ ResolveOn(remote, e, k) \in UsableKeys
         /\ k \in ImKeys => ResolveOn(remote, e, k) = k
<1>1. \A f \in remote.live : remote.dkey[f] \in UsableKeys
  BY SoundFacts DEF Based, UsableKeys
<1>2. k \notin DefaultKeys => k \in ImKeys
  BY DEF Keys
<1>3. k \in ImKeys => k \notin DefaultKeys
  BY ImKeysAssumption
<1> QED
  BY <1>1, <1>2, <1>3 DEF ResolveOn, UsableKeys

\* a task that is not of a socket goes to another step
LEMMA GotoSound ==
  ASSUME Sound, NEW t \in Tasks \ Epochs, NEW pc \in Pcs \ {"decide", "init", "initsend"},
         NEW key \in UsableKeys, NEW v \in TaskType, Steps(t, v), v.pc = pc, v.key = key,
         pc # "done", task[t].pc \notin {"done", "ping"},
         t \in Callers \ Targeted => key \in ImKeys,
         t \in Callers \ Targeted /\ pc = "reserve" => key \in remote.known,
         remote.next # 0 \/ pc \in {"idle", "recwait", "ready"},
         t \in Slots => v.epoch \in Started, pc = "send" => v.n # 0
  PROVE  OneTask(t)
<1>1. key \in Keys
  BY SoundFacts
<1>2. HoldsKeys(t, v, remote)
  BY <1>1 DEF HoldsKeys
<1>3. OpensItself(t, v, remote, up)
  BY DEF OpensItself
<1>4. MaySend(v)
  BY DEF MaySend
<1> QED
  BY <1>2, <1>3, <1>4 DEF OneTask, TaskSound, Steps

LEMMA ResolveOneTask ==
  ASSUME Sound, NEW t \in Tasks, Resolve(t)
  PROVE  OneTask(t)
<1> DEFINE k == ResolveOn(remote, task[t].epoch, task[t].key)
           v == [task[t] EXCEPT !.pc = "ensure", !.key = k]
<1>1. task[t].pc = "resolve" /\ task[t].key \in Keys /\ t \notin Epochs
  BY TaskFacts DEF Resolve, At, HoldsKeys, Opening
<1>2. k \in UsableKeys /\ (task[t].key \in ImKeys => k \in ImKeys)
  BY <1>1, ResolveUsable
<1>3. k \in MaybeKeys
  BY <1>2, SoundFacts DEF MaybeKeys
<1>4. Steps(t, v)
  BY TaskFacts DEF Resolve, Steps
<1> HIDE DEF k
<1>5. v \in TaskType /\ v.pc = "ensure" /\ v.key = k /\ v.epoch = task[t].epoch
  BY <1>3, TaskFacts DEF TaskType, Pcs
<1>6. t \in Callers \ Targeted => k \in ImKeys
  BY <1>1, <1>2, TaskFacts DEF HoldsKeys
<1>7. remote.next # 0 /\ (t \in Slots => v.epoch \in Started)
  BY <1>1, <1>5, TaskFacts
<1>8. "ensure" \in Pcs \ {"decide", "init", "initsend"}
  BY DEF Pcs
<1> HIDE DEF v
<1> QED
  BY <1>1, <1>2, <1>4, <1>5, <1>6, <1>7, <1>8, GotoSound

LEMMA WaitOneTask ==
  ASSUME Sound, NEW t \in Tasks, WaitOver(t) \/ WaitFailed(t)
  PROVE  OneTask(t)
<1>1. task[t].pc \in {"recwait", "initwait", "retrywait", "recinit"}
  BY DEF WaitOver, WaitFailed, Waiting, WaitNext
<1>2. t \notin Epochs /\ task[t].key \in UsableKeys
  BY <1>1, TaskFacts DEF Opening, HoldsKeys
<1>3. t \in Callers \ Targeted => task[t].key \in ImKeys
  BY <1>1, TaskFacts DEF HoldsKeys
<1>4. CASE End(t, "failed")
  BY <1>2, <1>4, EndIsOneTask DEF Results
<1>5. CASE \E pc \in {"ready", "reserve", "idle", "finish", "force"} :
             /\ Goto(t, pc)
             /\ pc = "reserve" => task[t].key \in remote.known
             /\ pc \in {"reserve", "finish", "force"} => task[t].pc # "recwait"
  <2> PICK pc \in {"ready", "reserve", "idle", "finish", "force"} :
             /\ Goto(t, pc)
             /\ pc = "reserve" => task[t].key \in remote.known
             /\ pc \in {"reserve", "finish", "force"} => task[t].pc # "recwait"
    BY <1>5
  <2> DEFINE v == [task[t] EXCEPT !.pc = pc]
  <2>1. pc \in Pcs \ {"decide", "init", "initsend"}
    BY DEF Pcs
  <2>2. v \in TaskType /\ v.pc = pc /\ v.key = task[t].key /\ v.epoch = task[t].epoch
    BY <2>1, TaskFacts DEF TaskType
  <2>3. Steps(t, v)
    BY TaskFacts DEF Goto, Steps
  <2>4. t \in Slots => v.epoch \in Started
    BY <1>1, <2>2, TaskFacts
  <2>5. remote.next # 0 \/ pc \in {"idle", "recwait", "ready"}
    BY <1>1, TaskFacts
  <2> HIDE DEF v
  <2> QED
    BY <1>1, <1>2, <1>3, <2>1, <2>2, <2>3, <2>4, <2>5, GotoSound
<1>6. CASE WaitOver(t)
  <2>1. Goto(t, WaitNext[task[t].pc]) /\ task[t].key \in remote.known
    BY <1>6 DEF WaitOver, Initialized
  <2>2. /\ task[t].pc = "recwait" => WaitNext[task[t].pc] = "ready"
        /\ task[t].pc = "initwait" => WaitNext[task[t].pc] = "reserve"
        /\ task[t].pc = "retrywait" => WaitNext[task[t].pc] = "idle"
        /\ task[t].pc = "recinit" => WaitNext[task[t].pc] = "finish"
    BY DEF WaitNext
  <2> QED
    BY <1>1, <1>5, <2>1, <2>2
<1>7. CASE WaitFailed(t)
  BY <1>4, <1>5, <1>7 DEF WaitFailed, At
<1> QED
  BY <1>6, <1>7

LEMMA EnsureOneTask ==
  ASSUME Sound, NEW t \in Tasks, Ensure(t)
  PROVE  OneTask(t)
<1> DEFINE k == ResolveOn(remote, task[t].epoch, task[t].key)
           v == [task[t] EXCEPT !.pc = "decide", !.ikey = k]
<1>1. task[t].pc = "ensure" /\ task[t].key \in UsableKeys
  BY TaskFacts DEF Ensure, At, HoldsKeys
<1>2. k \in UsableKeys /\ k \in MaybeKeys
  BY <1>1, ResolveUsable, SoundFacts DEF MaybeKeys
<1>3. Steps(t, v)
  BY TaskFacts DEF Ensure, Steps
<1> HIDE DEF k
<1>4. /\ v \in TaskType /\ v.pc = "decide" /\ v.key = task[t].key /\ v.ikey = k
      /\ v.epoch = task[t].epoch /\ v.result = task[t].result
  BY <1>2, TaskFacts DEF TaskType, Pcs
<1> HIDE DEF v
<1>5. HoldsKeys(t, v, remote)
  BY <1>1, <1>2, <1>4, TaskFacts DEF HoldsKeys
<1>6. OpensItself(t, v, remote, up)
  <2>1. t \in Epochs => ~(t > remote.next)
    BY <1>1, OpeningIsOpened
  <2> QED
    BY <1>1, <1>4, <2>1, TaskFacts DEF OpensItself, Opening
<1>7. remote.next # 0 /\ (t \in Slots => v.epoch \in Started)
  BY <1>1, <1>4, TaskFacts
<1> QED
  BY <1>1, <1>3, <1>4, <1>5, <1>6, <1>7 DEF OneTask, TaskSound, Steps, MaySend

LEMMA InitOneTask ==
  ASSUME Sound, NEW t \in Tasks, Decide(t) \/ InitReserve(t)
  PROVE  OneTask(t)
<1>1. task[t].pc \in {"decide", "init"}
  BY DEF Decide, InitReserve, At
<1>2. t \in Callers \ Targeted => task[t].key \in ImKeys
  BY <1>1, TaskFacts DEF HoldsKeys
<1>3. task[t].key \in UsableKeys /\ task[t].ikey \in UsableKeys /\ task[t].ikey \in Keys
  BY <1>1, TaskFacts, SoundFacts DEF HoldsKeys
<1>4. ASSUME NEW v \in TaskType, Steps(t, v), v.pc \in {"init", "initsend"},
             v.key = task[t].key, v.ikey = task[t].ikey, v.epoch = task[t].epoch,
             v.result = task[t].result, v.epoch \in Epochs, v.pc = "initsend" => v.n # 0
      PROVE  OneTask(t)
  <2>1. HoldsKeys(t, v, remote)
    BY <1>1, <1>2, <1>3, <1>4 DEF HoldsKeys
  <2>2. t \in Epochs => ~(t > remote.next)
    BY <1>1, OpeningIsOpened
  <2>3. OpensItself(t, v, remote, up)
    BY <1>1, <1>4, <2>2, TaskFacts DEF OpensItself, Opening
  <2>4. remote.next # 0 /\ (t \in Slots => v.epoch \in Started)
    BY <1>1, <1>4, TaskFacts
  <2> QED
    BY <1>1, <1>4, <2>1, <2>3, <2>4 DEF OneTask, TaskSound, Steps, MaySend
<1>5. CASE InitStepDone(t) /\ task[t].pc = "decide"
  BY <1>2, <1>5, InitStepDoneIsOneTask
<1>6. CASE Decide(t) /\ Goto(t, "init") /\ Exists(remote, task[t].epoch)
  <2> DEFINE v == [task[t] EXCEPT !.pc = "init"]
  <2>1. Steps(t, v)
    BY <1>6, TaskFacts DEF Goto, Steps
  <2>2. /\ v \in TaskType /\ v.pc = "init" /\ v.key = task[t].key /\ v.ikey = task[t].ikey
        /\ v.epoch = task[t].epoch /\ v.result = task[t].result
    BY TaskFacts DEF TaskType, Pcs
  <2>3. task[t].epoch \in Epochs
    BY <1>6, ExistsFacts, SoundFacts
  <2> HIDE DEF v
  <2> QED
    BY <1>4, <2>1, <2>2, <2>3
<1>7. CASE InitReserve(t)
  <2> DEFINE s == EnsureClient(remote, task[t].ikey).cstream[task[t].ikey]
             m == task[t].n + 1
             v == [task[t] EXCEPT !.pc = "initsend", !.n = m, !.stream = s]
  <2>1. EnsureClient(remote, task[t].ikey) \in RemoteType
    BY <1>3, EnsureClientLemma, SoundFacts
  <2>2. s \in Streams
    BY <1>3, <2>1 DEF RemoteType
  <2>3. Steps(t, v)
    BY <1>7, TaskFacts DEF InitReserve, Steps
  <2>4. m \in Nat /\ m # 0
    BY TaskFacts DEF TaskType
  <2> HIDE DEF s, m
  <2>5. task[t].epoch \in Epochs
    BY <1>7, TaskFacts DEF MaySend, InitReserve, At
  <2>6. /\ v \in TaskType /\ v.pc = "initsend" /\ v.key = task[t].key /\ v.ikey = task[t].ikey
        /\ v.epoch = task[t].epoch /\ v.result = task[t].result /\ v.n = m
    BY <2>2, <2>4, TaskFacts DEF TaskType, Pcs
  <2> HIDE DEF v
  <2> QED
    BY <1>4, <2>3, <2>4, <2>5, <2>6
<1> QED
  BY <1>5, <1>6, <1>7 DEF Decide, At
LEMMA InitSendOneTask ==
  ASSUME Sound, NEW t \in Tasks, InitSend(t) \/ InitSendFailed(t)
  PROVE  OneTask(t)
<1>1. task[t].pc = "initsend"
  BY DEF InitSend, InitSendFailed, At
<1>2. t \in Callers \ Targeted => task[t].key \in ImKeys
  BY <1>1, TaskFacts DEF HoldsKeys
<1>3. CASE InitSend(t)
  BY <1>1, <1>2, <1>3, InitStepDoneIsOneTask DEF InitSend
<1>4. CASE InitSendFailed(t)
  <2>1. t \notin Epochs
    <3> SUFFICES ASSUME t \in Epochs PROVE FALSE
      OBVIOUS
    <3>1. t \in up /\ task[t].epoch = t
      BY <1>1, TaskFacts DEF OpensItself, Opening
    <3>2. SendOk(t)
      BY <3>1, SoundFacts DEF SendOk, HasTx, Exists
    <3> QED
      BY <1>4, <3>1, <3>2 DEF InitSendFailed
  <2> QED
    BY <1>4, <2>1, EndIsOneTask DEF InitSendFailed, Results
<1> QED
  BY <1>3, <1>4

LEMMA ReserveOneTask ==
  ASSUME Sound, NEW t \in Tasks, Reserve(t)
  PROVE  OneTask(t)
<1> DEFINE r0 == IF OnConnection(t) THEN remote ELSE SyncLegacy(remote)
           e  == ReserveEpoch(t, r0)
           k  == task[t].key
           s  == EnsureClient(r0, k).cstream[k]
           m  == task[t].n + 1
           v  == [task[t] EXCEPT !.pc = "send", !.n = m, !.epoch = e, !.stream = s]
<1>1. task[t].pc = "reserve"
  BY DEF Reserve, At
<1>2. t \notin Epochs /\ k \in UsableKeys /\ k \in Keys
  BY <1>1, TaskFacts, SoundFacts DEF Opening, HoldsKeys
<1>3. CASE End(t, "failed")
  BY <1>2, <1>3, EndIsOneTask DEF Results
<1>4. CASE task' = [task EXCEPT ![t].pc = "send", ![t].n = @ + 1, ![t].epoch = e,
                                ![t].stream = s]
  <2>1. r0 \in RemoteType
    BY SoundFacts, SyncLegacyLemma
  <2>2. EnsureClient(r0, k) \in RemoteType
    BY <1>2, <2>1, EnsureClientLemma
  <2>3. s \in Streams
    BY <1>2, <2>2 DEF RemoteType
  <2>4. task[t].epoch \in Epochs \cup {None}
    BY TaskFacts DEF TaskType
  <2>5. e \in Epochs \cup {None} /\ (t \in Slots => e = task[t].epoch)
    BY <2>1, <2>4 DEF ReserveEpoch, OnConnection, RemoteType
  <2>6. m \in Nat /\ m # 0
    BY TaskFacts DEF TaskType
  <2>7. Steps(t, v)
    BY <1>4, TaskFacts DEF Steps
  <2> HIDE DEF e, s, m
  <2>8. v \in TaskType /\ v.pc = "send" /\ v.key = k /\ v.epoch = e /\ v.n = m
    BY <2>3, <2>5, <2>6, TaskFacts DEF TaskType, Pcs
  <2>9. /\ t \in Callers \ Targeted => k \in ImKeys
        /\ remote.next # 0 /\ (t \in Slots => v.epoch \in Started)
    BY <1>1, <2>5, <2>8, TaskFacts DEF HoldsKeys
  <2>10. "send" \in Pcs \ {"decide", "init", "initsend"}
    BY DEF Pcs
  <2> HIDE DEF v
  <2> QED
    BY <1>1, <1>2, <2>6, <2>7, <2>8, <2>9, <2>10, GotoSound
<1> QED
  BY <1>3, <1>4 DEF Reserve

LEMMA AnswerOneTask ==
  ASSUME Sound, NEW t \in Tasks, Send(t) \/ GiveUp(t) \/ Receive(t) \/ Retry(t)
  PROVE  OneTask(t)
<1>1. task[t].pc \in {"send", "wait"}
  BY DEF Send, GiveUp, Receive, Retry, At
<1>2. t \notin Epochs /\ task[t].key \in UsableKeys
  BY <1>1, TaskFacts, SoundFacts DEF Opening, HoldsKeys
<1>3. CASE GiveUp(t)
  BY <1>2, <1>3, EndIsOneTask DEF GiveUp, Results
<1>4. CASE Receive(t)
  <2>1. task[t].result \in Results
    BY TaskFacts DEF TaskType
  <2> QED
    BY <1>2, <1>4, <2>1, EndIsOneTask DEF Receive
<1>5. ASSUME NEW pc \in {"wait", "retrywait"}, NEW v \in TaskType, Steps(t, v),
             v.pc = pc, v.key = task[t].key, v.epoch = task[t].epoch
      PROVE  OneTask(t)
  <2>1. pc \in Pcs \ {"decide", "init", "initsend"}
    BY DEF Pcs
  <2>2. /\ t \in Callers \ Targeted => task[t].key \in ImKeys
        /\ remote.next # 0 /\ (t \in Slots => v.epoch \in Started)
    BY <1>1, <1>5, TaskFacts DEF HoldsKeys
  <2> QED
    BY <1>1, <1>2, <1>5, <2>1, <2>2, GotoSound
<1>6. CASE Send(t)
  <2> DEFINE v == [task[t] EXCEPT !.pc = "wait", !.stream = RootStream]
  <2>1. Steps(t, v)
    BY <1>6, TaskFacts DEF Send, Steps
  <2>2. v \in TaskType /\ v.pc = "wait" /\ v.key = task[t].key /\ v.epoch = task[t].epoch
    BY TaskFacts, IdleTyped DEF TaskType, Pcs
  <2> HIDE DEF v
  <2> QED
    BY <1>5, <2>1, <2>2
<1>7. CASE Retry(t)
  <2> DEFINE v == [task[t] EXCEPT !.pc = "retrywait", !.second = TRUE, !.result = "none"]
  <2>1. Steps(t, v)
    BY <1>7, TaskFacts DEF Retry, Steps
  <2>2. v \in TaskType /\ v.pc = "retrywait" /\ v.key = task[t].key /\ v.epoch = task[t].epoch
    BY TaskFacts DEF TaskType, Pcs, Results
  <2> HIDE DEF v
  <2> QED
    BY <1>5, <2>1, <2>2
<1> QED
  BY <1>3, <1>4, <1>6, <1>7

LEMMA TaskStepOneTask ==
  ASSUME Sound, NEW t \in Tasks, TaskStep(t)
  PROVE  OneTask(t)
BY ResolveOneTask, WaitOneTask, EnsureOneTask, InitOneTask, InitSendOneTask, ReserveOneTask,
   AnswerOneTask DEF TaskStep

LEMMA CallerOneTask ==
  ASSUME Sound, NEW c \in Callers, CallerStep(c) \/ Cancel(c)
  PROVE  OneTask(c)
<1>1. c \in Tasks /\ c \notin Epochs /\ c \notin Slots
  BY TasksAssumption DEF Tasks
<1>2. CASE End(c, "failed") \/ End(c, "cancelled")
  BY <1>1, <1>2, EndIsOneTask DEF Results
<1>3. CASE Begin(c)
  <2> DEFINE pc == IF task[c].key \in remote.known /\ remote.recovering[task[c].key]
                   THEN "recwait" ELSE "ready"
             v == [task[c] EXCEPT !.pc = pc]
  <2>1. task[c].pc = "idle" /\ task[c].key \in ImKeys
    BY <1>1, <1>3, TaskFacts DEF Begin, At, HoldsKeys
  <2>2. Steps(c, v)
    BY <1>1, <1>3, TaskFacts DEF Begin, Goto, Steps
  <2>3. pc \in {"recwait", "ready"} /\ pc \in Pcs
    BY DEF Pcs
  <2> HIDE DEF pc
  <2>4. v \in TaskType /\ v.pc = pc /\ v.key = task[c].key
    BY <1>1, <2>3, TaskFacts DEF TaskType
  <2> HIDE DEF v
  <2> QED
    BY <1>1, <2>1, <2>2, <2>3, <2>4, GotoSound DEF UsableKeys
<1>4. CASE BeginTargeted(c) /\ ~End(c, "failed")
  <2> PICK e \in Candidates(remote) :
             task' = [task EXCEPT ![c].pc = "resolve", ![c].epoch = e]
    BY <1>4 DEF BeginTargeted
  <2> DEFINE v == [task[c] EXCEPT !.pc = "resolve", !.epoch = e]
  <2>1. task[c].pc = "idle" /\ task[c].key \in Keys /\ c \in Targeted
    BY <1>1, <1>4, TaskFacts DEF BeginTargeted, At, HoldsKeys
  <2>2. e \in Epochs \cup {None} /\ remote.next # 0
    <3>1. CASE remote.live = {}
      BY <3>1, SoundFacts DEF Candidates, Based, RemoteType
    <3>2. CASE remote.live # {}
      <4>1. e \in remote.live /\ e \in Epochs /\ e \in 1..remote.next
        BY <3>2, SoundFacts DEF Candidates, Based
      <4> QED
        BY <4>1, SoundFacts DEF RemoteType, Epochs
    <3> QED
      BY <3>1, <3>2
  <2>3. Steps(c, v)
    BY <1>1, TaskFacts DEF Steps
  <2>4. v \in TaskType /\ v.pc = "resolve" /\ v.key = task[c].key
    BY <1>1, <2>2, TaskFacts DEF TaskType, Pcs
  <2> HIDE DEF v
  <2>5. HoldsKeys(c, v, remote) /\ OpensItself(c, v, remote, up)
    BY <1>1, <2>1, <2>4 DEF HoldsKeys, OpensItself
  <2> QED
    BY <1>1, <2>1, <2>2, <2>3, <2>4, <2>5 DEF OneTask, TaskSound, Steps, MaySend
<1>5. CASE Ready(c) /\ ~End(c, "failed")
  <2> DEFINE e == remote'.active
             v == [task[c] EXCEPT !.pc = "ensure", !.epoch = e]
  <2>1. task[c].pc = "ready" /\ task[c].key \in UsableKeys
    BY <1>1, <1>5, TaskFacts DEF Ready, At, HoldsKeys
  <2>2. remote.connected /\ remote' = SyncLegacy(remote)
    BY <1>5 DEF Ready
  <2>3. e \in Epochs \cup {None} /\ remote.next # 0
    BY <2>2, SoundFacts, SyncLegacyLemma DEF Based, RemoteType
  <2>4. Steps(c, v)
    BY <1>1, <1>5, TaskFacts DEF Ready, Steps
  <2> HIDE DEF e
  <2>5. v \in TaskType /\ v.pc = "ensure" /\ v.key = task[c].key
    BY <1>1, <2>3, TaskFacts DEF TaskType, Pcs
  <2>6. "ensure" \in Pcs \ {"decide", "init", "initsend"}
    BY DEF Pcs
  <2>7. c \in Callers \ Targeted => task[c].key \in ImKeys
    BY <1>1, <2>1, TaskFacts DEF HoldsKeys
  <2> HIDE DEF v
  <2> QED
    BY <1>1, <2>1, <2>3, <2>4, <2>5, <2>6, <2>7, GotoSound
<1> QED
  BY <1>2, <1>3, <1>4, <1>5 DEF CallerStep, Cancel
TasksGo == /\ DOMAIN task' = Tasks /\ Started \subseteq Started'
           /\ \A s \in Tasks : \/ TaskSound(s, task'[s], remote, up, Started)
                               \/ TaskSound(s, task'[s], remote', up', Started)

LEMMA OneTaskGoes ==
  ASSUME Sound, NEW t \in Tasks, OneTask(t)
  PROVE  TasksGo
BY OneTaskStays DEF TasksGo

LEMMA UnchangedGoes ==
  ASSUME Sound, UNCHANGED task
  PROVE  TasksGo
BY SoundFacts DEF TasksGo, Started, Sound

LEMMA AnsweredFacts ==
  ASSUME Sound, NEW ids, NEW result \in Results
  PROVE  LET A == Answered(ids, result)
         IN  /\ DOMAIN A = Tasks
             /\ \A t \in Tasks : /\ A[t] \in TaskType /\ A[t].pc = task[t].pc
                                 /\ A[t] = task[t] \/ task[t].pc \in {"send", "wait"}
                                 /\ TaskSound(t, A[t], remote, up, Started)
<1> DEFINE A == Answered(ids, result)
<1>1. DOMAIN A = Tasks
  BY DEF Answered
<1>2. ASSUME NEW t \in Tasks
      PROVE  /\ A[t] \in TaskType /\ A[t].pc = task[t].pc
             /\ A[t] = task[t] \/ task[t].pc \in {"send", "wait"}
             /\ TaskSound(t, A[t], remote, up, Started)
  <2>1. CASE A[t] = task[t]
    BY <2>1, TaskFacts
  <2>2. CASE A[t] # task[t]
    <3> DEFINE v == [task[t] EXCEPT !.result = result]
    <3>1. A[t] = v /\ task[t].pc \in {"send", "wait"}
      BY <2>2 DEF Answered
    <3>2. /\ v \in TaskType /\ v.pc = task[t].pc /\ v.key = task[t].key
          /\ v.ikey = task[t].ikey /\ v.epoch = task[t].epoch /\ v.n = task[t].n
      BY TaskFacts DEF TaskType
    <3> HIDE DEF v
    <3>3. HoldsKeys(t, v, remote)
      BY <3>2, TaskFacts DEF HoldsKeys
    <3>4. OpensItself(t, v, remote, up)
      BY <3>1, TaskFacts DEF OpensItself, Opening
    <3> HIDE DEF A
    <3> QED
      BY <3>1, <3>2, <3>3, <3>4, TaskFacts DEF TaskSound, MaySend
  <2> QED
    BY <2>1, <2>2
<1> HIDE DEF A
<1> QED
  BY <1>1, <1>2 DEF A

LEMMA AnsweredGoes ==
  ASSUME Sound, NEW ids, NEW result \in Results, task' = Answered(ids, result)
  PROVE  TasksGo
<1>1. /\ DOMAIN task' = Tasks
      /\ \A t \in Tasks : /\ task'[t].pc = task[t].pc
                          /\ TaskSound(t, task'[t], remote, up, Started)
  BY AnsweredFacts
<1>2. Started' = {e \in Epochs : task'[e].pc \in {"done", "ping"}}
  BY DEF Started
<1>3. Epochs \subseteq Tasks
  BY DEF Tasks
<1> QED
  BY <1>1, <1>2, <1>3 DEF TasksGo, Started

LEMMA RecoveryTasksGo ==
  ASSUME Sound, NEW x \in Slots, RecoveryStep(x)
  PROVE  TasksGo
<1>1. x \in Tasks /\ x \notin Epochs /\ x \notin Callers
  BY TasksAssumption DEF Tasks
<1>2. CASE \E result \in Results : End(x, result)
  BY <1>1, <1>2, EndIsOneTask, OneTaskGoes
<1>3. task[x].pc \in {"reset", "finish", "resub", "force"}
  BY DEF RecoveryStep, RecoveryReset, RecoveryFinish, RecoveryResubscribe, RecoveryForce, At
<1>4. task[x].key \in UsableKeys /\ remote.next # 0 /\ task[x].epoch \in Started
  BY <1>1, <1>3, TaskFacts DEF HoldsKeys
<1>5. ASSUME NEW pc \in {"recinit", "resub", "resolve"}, NEW v \in TaskType, Steps(x, v),
             v.pc = pc, v.key = task[x].key, v.epoch = task[x].epoch
      PROVE  TasksGo
  <2>1. pc \in Pcs \ {"decide", "init", "initsend"}
    BY DEF Pcs
  <2>2. OneTask(x)
    BY <1>1, <1>3, <1>4, <1>5, <2>1, GotoSound
  <2> QED
    BY <1>1, <2>2, OneTaskGoes
<1>6. CASE \E pc \in {"recinit", "resub"} : Goto(x, pc)
  <2> PICK pc \in {"recinit", "resub"} : Goto(x, pc)
    BY <1>6
  <2> DEFINE v == [task[x] EXCEPT !.pc = pc]
  <2>1. Steps(x, v)
    BY <1>1, TaskFacts DEF Goto, Steps
  <2>2. v \in TaskType /\ v.pc = pc /\ v.key = task[x].key /\ v.epoch = task[x].epoch
    BY <1>1, TaskFacts DEF TaskType, Pcs
  <2> HIDE DEF v
  <2> QED
    BY <1>5, <2>1, <2>2
<1>7. CASE task' = [task EXCEPT ![x].pc = "resolve", ![x].second = TRUE]
  <2> DEFINE v == [task[x] EXCEPT !.pc = "resolve", !.second = TRUE]
  <2>1. Steps(x, v)
    BY <1>1, <1>7, TaskFacts DEF Steps
  <2>2. v \in TaskType /\ v.pc = "resolve" /\ v.key = task[x].key /\ v.epoch = task[x].epoch
    BY <1>1, TaskFacts DEF TaskType, Pcs
  <2> HIDE DEF v
  <2> QED
    BY <1>5, <2>1, <2>2
<1>8. ASSUME NEW ids, task' = [Answered(ids, "reinit") EXCEPT ![x].pc = "init", ![x].ikey = task[x].key]
      PROVE  TasksGo
  <2> DEFINE A == Answered(ids, "reinit")
             k == task[x].key
             v == [task[x] EXCEPT !.pc = "init", !.ikey = k]
  <2>1. /\ DOMAIN A = Tasks
        /\ \A t \in Tasks : /\ A[t].pc = task[t].pc
                            /\ A[t] = task[t] \/ task[t].pc \in {"send", "wait"}
                            /\ TaskSound(t, A[t], remote, up, Started)
    BY AnsweredFacts DEF Results
  <2> HIDE DEF A
  <2>2. A[x] = task[x]
    BY <1>1, <1>3, <2>1
  <2>3. /\ DOMAIN task' = Tasks /\ task'[x] = v /\ \A t \in Tasks \ {x} : task'[t] = A[t]
    BY <1>1, <1>8, <2>1, <2>2 DEF A
  <2>4. k \in MaybeKeys
    BY <1>4, SoundFacts DEF MaybeKeys
  <2> HIDE DEF k
  <2>5. /\ v \in TaskType /\ v.pc = "init" /\ v.key = task[x].key /\ v.ikey = k
        /\ v.epoch = task[x].epoch
    BY <1>1, <2>4, TaskFacts DEF TaskType, Pcs
  <2> HIDE DEF v
  <2>6. HoldsKeys(x, v, remote) /\ OpensItself(x, v, remote, up)
    BY <1>1, <1>4, <2>5 DEF HoldsKeys, OpensItself, k
  <2>7. TaskSound(x, v, remote, up, Started)
    BY <1>1, <1>4, <2>5, <2>6, TaskFacts DEF TaskSound, MaySend
  <2>8. Epochs \subseteq Tasks /\ Started' = {e \in Epochs : task'[e].pc \in {"done", "ping"}}
    BY DEF Tasks, Started
  <2>9. Started \subseteq Started'
    BY <1>1, <2>1, <2>3, <2>8 DEF Started
  <2> QED
    BY <2>1, <2>3, <2>7, <2>9 DEF TasksGo
<1>9. CASE RecoveryReset(x)
  BY <1>6, <1>8, <1>9 DEF RecoveryReset
<1>10. CASE RecoveryFinish(x)
  BY <1>2, <1>6, <1>10 DEF RecoveryFinish, Results
<1>11. CASE RecoveryResubscribe(x)
  BY <1>2, <1>7, <1>11 DEF RecoveryResubscribe, Results
<1>12. CASE RecoveryForce(x)
  BY <1>2, <1>12 DEF RecoveryForce, Results
<1> QED
  BY <1>9, <1>10, <1>11, <1>12 DEF RecoveryStep

LEMMA ConnectionTasksGo ==
  ASSUME Sound, NEW e \in Epochs, WorkerStep(e) \/ SocketStep(e) \/ AppStep(e)
  PROVE  TasksGo
<1>1. e \in Tasks /\ e \notin Slots /\ e \notin Callers
  BY TasksAssumption DEF Tasks
<1>2. ASSUME NEW x \in Slots, NEW k \in remote.known, At(x, "idle"), queue[e] # << >>,
             task' = [task EXCEPT ![x].pc = "reset", ![x].key = k, ![x].epoch = e]
      PROVE  TasksGo
  <2> DEFINE v == [task[x] EXCEPT !.pc = "reset", !.key = k, !.epoch = e]
  <2>1. x \in Tasks /\ x \notin Epochs /\ x \notin Callers /\ task[x].pc = "idle"
    BY <1>2, TasksAssumption DEF Tasks, At
  <2>2. e \in Started /\ remote.next # 0
    BY <1>2, StartedIsOpened DEF Sound, WorkersSound
  <2>3. k \in UsableKeys /\ k \in MaybeKeys
    BY SoundFacts DEF MaybeKeys
  <2>4. Steps(x, v)
    BY <1>2, <2>1, TaskFacts DEF Steps
  <2>5. v \in TaskType /\ v.pc = "reset" /\ v.key = k /\ v.epoch = e
    BY <2>1, <2>3, TaskFacts DEF TaskType, Pcs
  <2>6. "reset" \in Pcs \ {"decide", "init", "initsend"}
    BY DEF Pcs
  <2> HIDE DEF v
  <2>7. OneTask(x)
    BY <2>1, <2>2, <2>3, <2>4, <2>5, <2>6, GotoSound
  <2> QED
    BY <2>1, <2>7, OneTaskGoes
<1>3. CASE TakePong(e)
  BY <1>2, <1>3, UnchangedGoes DEF TakePong, LookedUp, KeysForStream
<1>4. CASE WorkerAbort(e) \/ WorkerAnswer(e)
  BY <1>4, AnsweredGoes, UnchangedGoes DEF WorkerAbort, WorkerAnswer, Results
<1>5. CASE AppPingTarget(e)
  <2> PICK k \in remote.known : task' = [task EXCEPT ![e].pc = "ping", ![e].key = k]
    BY <1>5 DEF AppPingTarget
  <2> DEFINE v == [task[e] EXCEPT !.pc = "ping", !.key = k]
  <2>1. task[e].pc = "done" /\ e \in Started
    BY <1>5 DEF AppPingTarget, Running, At, Started
  <2>2. remote.next # 0 /\ ~(e > remote.next)
    BY <2>1, StartedIsOpened, OpeningIsOpened
  <2>3. k \in UsableKeys /\ k \in MaybeKeys
    BY SoundFacts DEF MaybeKeys
  <2>4. Steps(e, v)
    BY <1>1, TaskFacts DEF Steps
  <2>5. v \in TaskType /\ v.pc = "ping" /\ v.key = k /\ v.result = task[e].result
    BY <1>1, <2>3, TaskFacts DEF TaskType, Pcs
  <2> HIDE DEF v
  <2>6. HoldsKeys(e, v, remote) /\ OpensItself(e, v, remote, up)
    BY <1>1, <2>1, <2>2, <2>3, <2>5, TaskFacts DEF HoldsKeys, OpensItself, Opening
  <2>7. OneTask(e)
    BY <1>1, <2>2, <2>4, <2>5, <2>6 DEF OneTask, TaskSound, Steps, MaySend
  <2> QED
    BY <1>1, <2>7, OneTaskGoes
<1>6. CASE AppPingMark(e)
  <2>1. ~(e > remote.next) /\ End(e, "initialized")
    BY <1>6, OpeningIsOpened DEF AppPingMark, At
  <2>2. OneTask(e)
    BY <1>1, <2>1, EndIsOneTask DEF Results
  <2> QED
    BY <1>1, <2>2, OneTaskGoes
<1>7. CASE UNCHANGED task
  BY <1>7, UnchangedGoes
<1> QED
  BY <1>3, <1>4, <1>5, <1>6, <1>7 DEF WorkerStep, SocketStep, AppStep, TakeAnswer, WorkerFlags,
     WorkerInitialized, WorkerSnapshot, WorkerReplay, SocketLost, SocketCleanup, SocketFrame,
     AppAnswer, AppForget, AppPongUnknown

LEMMA OpenTasksGo ==
  ASSUME Sound, SocketOpen
  PROVE  TasksGo
<1> DEFINE e == remote'.next
           k == remote'.dkey[e]
           v == [IdleTask EXCEPT !.pc = "ensure", !.key = k, !.epoch = e]
<1>1. /\ Kept(remote, remote') /\ e = remote.next + 1 /\ e \in remote'.live
      /\ remote' \in RemoteType
  BY SoundFacts, OpenStays DEF SocketOpen, Open, Stays, Kept, Good
<1>2. e \in Epochs /\ e \in Tasks /\ e \notin Callers /\ e \notin Slots /\ e > remote.next /\ e # 0
      /\ ~(e > remote'.next)
  BY <1>1, TasksAssumption, SoundFacts DEF Tasks, RemoteType
<1>3. k \in UsableKeys /\ k \in MaybeKeys
  BY <1>1, <1>2, SoundFacts DEF Kept, Based, UsableKeys, MaybeKeys
<1>4. task[e] = IdleTask /\ e \notin Started
  <2>1. OpensItself(e, task[e], remote, up)
    BY <1>2, TaskFacts
  <2> HIDE DEF e
  <2>2. task[e] = IdleTask
    BY <1>2, <2>1 DEF OpensItself
  <2> QED
    BY <2>2 DEF Started, IdleTask
<1>5. Steps(e, v) /\ up' = up \cup {e}
  BY <1>2, TaskFacts DEF SocketOpen, Steps
<1>6. e \in up' /\ remote'.next = e
  BY <1>5
<1> HIDE DEF e, k
<1>7. /\ v \in TaskType /\ v.pc = "ensure" /\ v.key = k /\ v.epoch = e /\ v.result = "none"
  BY <1>2, <1>3, IdleTyped DEF TaskType, Pcs, IdleTask
<1> HIDE DEF v
<1>8. HoldsKeys(e, v, remote') /\ OpensItself(e, v, remote', up')
  BY <1>2, <1>3, <1>6, <1>7 DEF HoldsKeys, OpensItself, Opening
<1>9. TaskSound(e, v, remote', up', Started)
  BY <1>2, <1>6, <1>7, <1>8 DEF TaskSound, MaySend
<1>10. Epochs \subseteq Tasks /\ Started' = {f \in Epochs : task'[f].pc \in {"done", "ping"}}
  BY DEF Tasks, Started
<1>11. Started \subseteq Started'
  BY <1>4, <1>5, <1>10 DEF Started, Steps
<1> QED
  BY <1>5, <1>9, <1>11, TaskFacts DEF TasksGo, Steps

LEMMA AllTasksGo ==
  ASSUME Sound, ControlNext
  PROVE  TasksGo
<1>1. CASE StatusSnapshot
  BY <1>1, UnchangedGoes DEF StatusSnapshot
<1>2. Callers \subseteq Tasks
  BY DEF Tasks
<1> QED
  BY <1>1, <1>2, TaskStepOneTask, CallerOneTask, OneTaskGoes, RecoveryTasksGo, ConnectionTasksGo,
     OpenTasksGo DEF ControlNext
-----------------------------------------------------------------------------
(* The invariant is kept: sockets, workers and the rest.                    *)

LEMMA UpKept ==
  ASSUME Sound, ControlNext
  PROVE  /\ up' \subseteq remote'.live
         /\ \A e \in Epochs : task'[e].pc \in Opening /\ e \in up => e \in up'
<1>1. Kept(remote, remote') /\ (remote.live \subseteq remote'.live \/ CloseStep)
  BY RegistryKept
<1>2. up \subseteq remote.live /\ DOMAIN task = Tasks /\ Epochs \subseteq Tasks
  BY SoundFacts DEF Sound, Tasks
<1>3. CASE CloseStep
  <2>1. up' \subseteq remote'.live /\ up' = up
    BY <1>2, <1>3, CloseKept, SoundFacts DEF CloseStep
  <2> QED
    BY <2>1
<1>4. CASE SocketOpen
  <2>1. remote'.next \in remote'.live /\ up' = up \cup {remote'.next}
    BY <1>4, OpenStays, SoundFacts DEF SocketOpen, Open
  <2>2. remote.live \subseteq remote'.live
    BY <1>4, OpenStays, SoundFacts DEF SocketOpen, Open, Stays
  <2> QED
    BY <1>2, <2>1, <2>2
<1>5. CASE remote.live \subseteq remote'.live /\ up' = up
  BY <1>2, <1>5
<1>6. ASSUME NEW e \in Started, up' = up \ {e}, remote.live \subseteq remote'.live,
             task'[e].pc = task[e].pc
      PROVE  /\ up' \subseteq remote'.live
             /\ \A f \in Epochs : task'[f].pc \in Opening /\ f \in up => f \in up'
  BY <1>2, <1>6 DEF Started, Opening
<1>7. CASE \E e \in Epochs : SocketLost(e)
  <2> PICK e \in Epochs : SocketLost(e)
    BY <1>7
  <2>1. e \in Started /\ up' = up \ {e} /\ remote' = remote /\ task' = task
    BY DEF SocketLost, DropSocket, Started, At
  <2> QED
    BY <1>6, <2>1
<1>8. CASE \E x \in Slots : RecoveryForce(x)
  <2> PICK x \in Slots : RecoveryForce(x)
    BY <1>8
  <2> DEFINE e == task[x].epoch
  <2>1. x \in Tasks /\ x \notin Epochs /\ task[x].pc = "force" /\ remote' = remote
    BY TasksAssumption DEF Tasks, RecoveryForce, At
  <2>2. e \in Started /\ e \in Epochs
    BY <2>1, TaskFacts
  <2>3. task'[e] = task[e]
    BY <1>2, <2>1, <2>2 DEF RecoveryForce, End
  <2>4. up' = up \/ up' = up \ {e}
    BY DEF RecoveryForce, DropSocket
  <2> HIDE DEF e
  <2> QED
    BY <1>5, <1>6, <2>1, <2>2, <2>3, <2>4
<1>9. ASSUME NEW e \in Epochs, SocketStep(e), ~SocketLost(e) PROVE up' = up
  BY <1>9 DEF SocketStep, WorkerAbort, SocketCleanup, SocketFrame, AppPingTarget, AppPingMark
<1>10. ASSUME NEW x \in Slots, RecoveryStep(x), ~RecoveryForce(x) PROVE up' = up
  BY <1>10 DEF RecoveryStep, RecoveryReset, RecoveryFinish, RecoveryResubscribe
<1>11. ASSUME NEW t \in Tasks, TaskStep(t) PROVE up' = up
  BY <1>11 DEF TaskStep, Resolve, WaitOver, WaitFailed, Ensure, Decide, InitReserve, InitSend,
     InitSendFailed, Reserve, Send, GiveUp, Receive, Retry
<1>12. ASSUME NEW c \in Callers, CallerStep(c) \/ Cancel(c) PROVE up' = up
  BY <1>12 DEF CallerStep, Begin, BeginTargeted, Ready, Cancel
<1>13. ASSUME NEW e \in Epochs, WorkerStep(e) \/ AppStep(e) PROVE up' = up
  BY <1>13 DEF WorkerStep, TakeAnswer, TakePong, WorkerFlags, WorkerInitialized, WorkerSnapshot,
     WorkerReplay, WorkerAnswer, AppStep, AppAnswer, AppForget, AppPongUnknown
<1>14. CASE StatusSnapshot
  BY <1>1, <1>3, <1>5, <1>14 DEF StatusSnapshot
<1>15. up' = up => CloseStep \/ (remote.live \subseteq remote'.live /\ up' = up)
  BY <1>1
<1> QED
  BY <1>3, <1>4, <1>5, <1>7, <1>8, <1>9, <1>10, <1>11, <1>12, <1>13, <1>14, <1>15 DEF ControlNext

LEMMA TasksSoundKept ==
  ASSUME Sound, ControlNext
  PROVE  DOMAIN task' = Tasks /\ TasksSound' /\ Started \subseteq Started'
BY AllTasksGo, UpKept, RegistryKept, TasksStay DEF TasksGo

\* the result a worker looked up stays that of a known stream
LEMMA WorkerStays ==
  ASSUME NEW w, NEW r, NEW q, WorkerSound(w, r), Kept(r, q)
  PROVE  WorkerSound(w, q)
<1> SUFFICES ASSUME w.pc = "flags" PROVE \E j \in q.known : q.cstream[j] = w.stream
  BY DEF WorkerSound
<1> QED
  BY DEF WorkerSound, Kept, Routed

\* one worker moves on, others stay
LEMMA WorkersGo ==
  ASSUME Sound, ControlNext, NEW e \in Epochs,
         worker' = [worker EXCEPT ![e] = worker'[e]], queue' = [queue EXCEPT ![e] = queue'[e]],
         worker'[e] \in WorkerType, queue'[e] \in Seq(SoundItem),
         WorkerSound(worker'[e], remote) \/ WorkerSound(worker'[e], remote'),
         worker'[e].pc # "idle" \/ queue'[e] # << >> => e \in Started
  PROVE  WorkersSound'
<1>1. /\ worker \in [Epochs -> WorkerType] /\ queue \in [Epochs -> Seq(SoundItem)]
      /\ \A f \in Epochs : WorkerSound(worker[f], remote)
      /\ \A f \in Epochs : worker[f].pc # "idle" \/ queue[f] # << >> => f \in Started
  BY DEF Sound, WorkersSound
<1>2. Kept(remote, remote') /\ Started \subseteq Started'
  BY RegistryKept, TasksSoundKept
<1>3. worker' \in [Epochs -> WorkerType] /\ queue' \in [Epochs -> Seq(SoundItem)]
  <2> DEFINE w == worker'[e]
             q == queue'[e]
  <2>1. worker' = [worker EXCEPT ![e] = w] /\ queue' = [queue EXCEPT ![e] = q]
    OBVIOUS
  <2>2. w \in WorkerType /\ q \in Seq(SoundItem)
    OBVIOUS
  <2> HIDE DEF w, q
  <2> QED
    BY <1>1, <2>1, <2>2
<1>4. \A f \in Epochs : WorkerSound(worker'[f], remote')
  BY <1>1, <1>2, WorkerStays
<1>5. \A f \in Epochs : worker'[f].pc # "idle" \/ queue'[f] # << >> => f \in Started'
  BY <1>1, <1>2
<1> QED
  BY <1>3, <1>4, <1>5 DEF WorkersSound

LEMMA UntouchedWorkers ==
  ASSUME Sound, ControlNext, UNCHANGED <<worker, queue>>
  PROVE  WorkersSound'
<1>1. 1 \in Epochs
  BY MaxEpochAssumption DEF Epochs
<1>2. /\ worker[1] \in WorkerType /\ queue[1] \in Seq(SoundItem)
      /\ WorkerSound(worker[1], remote)
      /\ worker[1].pc # "idle" \/ queue[1] # << >> => 1 \in Started
  BY <1>1 DEF Sound, WorkersSound
<1>3. worker' = [worker EXCEPT ![1] = worker'[1]] /\ queue' = [queue EXCEPT ![1] = queue'[1]]
  BY <1>1 DEF Sound, WorkersSound
<1> QED
  BY <1>1, <1>2, <1>3, WorkersGo

LEMMA IdleWorkerSound ==
  IdleWorker \in WorkerType /\ IdleWorker.pc = "idle" /\ \A r : WorkerSound(IdleWorker, r)
<1>1. IdleWorker.pc = "idle"
  BY DEF IdleWorker
<1>2. "unknown" \in Kinds /\ NoKey \in MaybeKeys /\ {} \in SUBSET Ids
  BY KeyFacts DEF MaybeKeys
<1> QED
  BY <1>1, <1>2, IdleTyped DEF IdleWorker, WorkerType, WorkerSound
LEMMA WorkerStepSound ==
  ASSUME Sound, ControlNext, NEW e \in Epochs, WorkerStep(e)
  PROVE  WorkersSound'
<1>1. /\ worker \in [Epochs -> WorkerType] /\ queue \in [Epochs -> Seq(SoundItem)]
      /\ worker[e] \in WorkerType /\ queue[e] \in Seq(SoundItem)
      /\ WorkerSound(worker[e], remote)
      /\ worker[e].pc # "idle" \/ queue[e] # << >> => e \in Started
  BY DEF Sound, WorkersSound
<1>2. pend \subseteq Entries /\ remote \in RemoteType /\ UsableKeys \subseteq Keys
      /\ remote.known \subseteq UsableKeys
  BY SoundFacts DEF Sound, OthersTyped
<1>3. e \in Started
  BY <1>1 DEF WorkerStep, TakeAnswer, TakePong, WorkerFlags, WorkerInitialized, WorkerSnapshot,
     WorkerReplay, WorkerAnswer
<1>4. ASSUME NEW w \in WorkerType, worker' = [worker EXCEPT ![e] = w], UNCHANGED queue,
             WorkerSound(w, remote)
      PROVE  WorkersSound'
  <2>1. worker'[e] = w /\ worker' = [worker EXCEPT ![e] = worker'[e]]
    BY <1>1, <1>4
  <2>2. queue' = [queue EXCEPT ![e] = queue'[e]] /\ queue'[e] \in Seq(SoundItem)
    BY <1>1, <1>4
  <2> QED
    BY <1>3, <1>4, <2>1, <2>2, WorkersGo
<1>5. ASSUME NEW w \in WorkerType, worker' = [worker EXCEPT ![e] = w],
             queue' = [queue EXCEPT ![e] = Tail(@)], queue[e] # << >>,
             WorkerSound(w, remote)
      PROVE  WorkersSound'
  <2>1. worker'[e] = w /\ worker' = [worker EXCEPT ![e] = worker'[e]]
    BY <1>1, <1>5
  <2>2. queue'[e] = Tail(queue[e]) /\ queue' = [queue EXCEPT ![e] = queue'[e]]
    BY <1>1, <1>5
  <2>3. queue'[e] \in Seq(SoundItem)
    BY <1>1, <1>5, <2>2
  <2> QED
    BY <1>3, <1>5, <2>1, <2>2, <2>3, WorkersGo
<1>6. ASSUME NEW w \in WorkerType, w.pc # "flags" PROVE WorkerSound(w, remote)
  BY <1>6 DEF WorkerSound
<1>7. CASE TakeAnswer(e)
  <2> DEFINE item == Head(queue[e])
  <2>1. item \in SoundItem /\ ~item.pong /\ queue[e] # << >>
    BY <1>1, <1>7 DEF TakeAnswer
  <2>2. item \in ItemType /\ item.ua \in OpenKinds
    BY <2>1 DEF SoundItem
  <2> PICK k \in LookedUp(item.stream), refused \in BOOLEAN :
              worker' = [worker EXCEPT ![e] =
                       IF PendingAt(k, item.id) = {} \/ ((\E p \in PendingAt(k, item.id) : p.init) /\ refused)
                       THEN IdleWorker
                       ELSE IF \E p \in PendingAt(k, item.id) : p.init
                       THEN [IdleWorker EXCEPT !.pc = "flags", !.key = k, !.ua = item.ua,
                                               !.stream = item.stream]
                       ELSE [IdleWorker EXCEPT !.pc = "answer", !.id = item.id]]
    BY <1>7 DEF TakeAnswer
  <2>3. queue' = [queue EXCEPT ![e] = Tail(@)]
    BY <1>7 DEF TakeAnswer
  <2>4. item.stream \in Streams /\ item.ua \in Kinds /\ item.id \in Ids \cup {NoId}
    BY <2>2 DEF ItemType
  <2> DEFINE i == item.id
             s == item.stream
             u == item.ua
             wf == [IdleWorker EXCEPT !.pc = "flags", !.key = k, !.ua = u, !.stream = s]
             wa == [IdleWorker EXCEPT !.pc = "answer", !.id = i]
  <2>5. CASE PendingAt(k, i) = {} \/ ((\E p \in PendingAt(k, i) : p.init) /\ refused)
    BY <1>5, <2>1, <2>3, <2>5, IdleWorkerSound
  <2>6. CASE PendingAt(k, i) # {} /\ (\E p \in PendingAt(k, i) : p.init) /\ ~refused
    <3>1. k \in Keys
      BY <1>2, <2>6 DEF PendingAt, Entries
    <3>2. k \in remote.known /\ remote.cstream[k] = s
      BY <3>1, SoundFacts DEF LookedUp, KeysForStream
    <3>3. k \in MaybeKeys /\ k \in UsableKeys
      BY <1>2, <3>2 DEF MaybeKeys
    <3>4. worker' = [worker EXCEPT ![e] = wf]
      BY <2>6
    <3> HIDE DEF item, s, u
    <3>5. wf \in WorkerType /\ wf.key = k /\ wf.ua = u /\ wf.stream = s
      BY <2>4, <3>3, IdleWorkerSound DEF WorkerType, s, u
    <3>6. WorkerSound(wf, remote)
      BY <2>2, <3>2, <3>3, <3>5 DEF WorkerSound, u
    <3> HIDE DEF wf
    <3> QED
      BY <1>5, <2>1, <2>3, <3>4, <3>5, <3>6
  <2>7. CASE PendingAt(k, i) # {} /\ ~\E p \in PendingAt(k, i) : p.init
    <3>1. worker' = [worker EXCEPT ![e] = wa]
      BY <2>7
    <3> HIDE DEF item, i
    <3>2. wa \in WorkerType /\ wa.pc = "answer"
      BY <2>4, IdleWorkerSound DEF WorkerType, i
    <3> HIDE DEF wa
    <3> QED
      BY <1>5, <1>6, <2>1, <2>3, <3>1, <3>2
  <2> QED
    BY <2>5, <2>6, <2>7
<1>8. CASE TakePong(e)
  <2>1. worker' = [worker EXCEPT ![e] = worker[e]]
    BY <1>1, <1>8 DEF TakePong
  <2>2. queue' = [queue EXCEPT ![e] = Tail(@)] /\ queue[e] # << >>
    BY <1>8 DEF TakePong
  <2> QED
    BY <1>1, <1>5, <2>1, <2>2
<1>9. CASE WorkerFlags(e)
  <2> DEFINE k2 == ResultKey(remote, e, worker[e].key, worker[e].stream, worker[e].ua)
             w == [worker[e] EXCEPT !.pc = "initialized", !.key = k2]
  <2>1. worker[e].pc = "flags" /\ worker[e].key \in UsableKeys /\ worker[e].ua \in OpenKinds
    BY <1>1, <1>9 DEF WorkerFlags, WorkerSound
  <2>2. ResultKind(remote, e, worker[e].ua) \in OpenKinds
    BY <2>1, ResultKindIsOpen, SoundFacts
  <2>3. k2 \in MaybeKeys
    BY <1>2, <2>1, <2>2 DEF ResultKey, MigratedKey, MaybeKeys, UsableKeys
  <2>4. worker' = [worker EXCEPT ![e] = w] /\ UNCHANGED queue
    BY <1>1, <1>9 DEF WorkerFlags
  <2> HIDE DEF k2
  <2>5. w \in WorkerType /\ w.pc = "initialized"
    BY <1>1, <2>3 DEF WorkerType
  <2> HIDE DEF w
  <2> QED
    BY <1>4, <1>6, <2>4, <2>5
<1>10. CASE WorkerInitialized(e)
  <2> DEFINE w == [worker[e] EXCEPT !.pc = "snapshot"]
  <2>1. UNCHANGED queue /\ (worker' = [worker EXCEPT ![e] = IdleWorker] \/ worker' = [worker EXCEPT ![e] = w])
    BY <1>10 DEF WorkerInitialized
  <2>2. w \in WorkerType /\ w.pc = "snapshot"
    BY <1>1 DEF WorkerType
  <2> HIDE DEF w
  <2> QED
    BY <1>4, <1>6, <2>1, <2>2, IdleWorkerSound
<1>11. CASE WorkerSnapshot(e)
  <2> DEFINE ids == ToReplay(e, worker[e].key)
             s == remote.cstream[worker[e].key]
             w == [worker[e] EXCEPT !.pc = "replay", !.todo = ids, !.stream = s]
  <2>1. /\ UNCHANGED queue
        /\ \/ ids = {} /\ worker' = [worker EXCEPT ![e] = IdleWorker]
           \/ ids # {} /\ worker' = [worker EXCEPT ![e] = w]
    <3>1. CASE ids = {}
      BY <1>11, <3>1 DEF WorkerSnapshot
    <3>2. CASE ids # {}
      BY <1>11, <3>2 DEF WorkerSnapshot
    <3> QED
      BY <3>1, <3>2
  <2>2. ids \in SUBSET Ids
    BY <1>2 DEF ToReplay, Entries
  <2>3. ids # {} => s \in Streams
    BY <1>2 DEF ToReplay, RemoteType
  <2> HIDE DEF ids, s
  <2>4. ids # {} => w \in WorkerType /\ w.pc = "replay"
    BY <1>1, <2>2, <2>3 DEF WorkerType
  <2> HIDE DEF w
  <2> QED
    BY <1>4, <1>6, <2>1, <2>4, IdleWorkerSound
<1>12. CASE WorkerReplay(e)
  <2>1. UNCHANGED queue
    BY <1>12 DEF WorkerReplay
  <2>2. worker' = [worker EXCEPT ![e] = IdleWorker]
        \/ \E id \in Ids : worker' = [worker EXCEPT ![e].todo = @ \ {id}]
    BY <1>1, <1>12 DEF WorkerReplay, WorkerType
  <2>3. ASSUME NEW id \in Ids, worker' = [worker EXCEPT ![e].todo = @ \ {id}]
        PROVE  WorkersSound'
    <3> DEFINE td == worker[e].todo \ {id}
               w == [worker[e] EXCEPT !.todo = td]
    <3>1. worker' = [worker EXCEPT ![e] = w]
      BY <2>3
    <3>2. td \in SUBSET Ids
      BY <1>1 DEF WorkerType
    <3> HIDE DEF td
    <3>3. w \in WorkerType /\ w.pc = worker[e].pc
      BY <1>1, <3>2 DEF WorkerType
    <3> HIDE DEF w
    <3> QED
      BY <1>4, <1>6, <1>12, <2>1, <3>1, <3>3 DEF WorkerReplay
  <2> QED
    BY <1>4, <2>1, <2>2, <2>3, IdleWorkerSound
<1>13. CASE WorkerAnswer(e)
  BY <1>4, <1>13, IdleWorkerSound DEF WorkerAnswer
<1> QED
  BY <1>7, <1>8, <1>9, <1>10, <1>11, <1>12, <1>13 DEF WorkerStep

LEMMA ConnectionWorkersSound ==
  ASSUME Sound, ControlNext, NEW e \in Epochs, SocketStep(e) \/ AppStep(e)
  PROVE  WorkersSound'
<1>1. /\ worker \in [Epochs -> WorkerType] /\ queue \in [Epochs -> Seq(SoundItem)]
      /\ worker[e] \in WorkerType /\ queue[e] \in Seq(SoundItem)
      /\ WorkerSound(worker[e], remote)
      /\ worker[e].pc # "idle" \/ queue[e] # << >> => e \in Started
  BY DEF Sound, WorkersSound
<1>2. CASE WorkerAbort(e)
  <2>1. worker' = [worker EXCEPT ![e] = IdleWorker] /\ queue' = [queue EXCEPT ![e] = << >>]
    BY <1>2 DEF WorkerAbort
  <2>2. worker'[e] = IdleWorker /\ queue'[e] = << >>
    BY <1>1, <2>1
  <2>3. << >> \in Seq(SoundItem)
    OBVIOUS
  <2> QED
    BY <2>1, <2>2, <2>3, IdleWorkerSound, WorkersGo
<1>3. ASSUME NEW item \in SoundItem, queue' = [queue EXCEPT ![e] = Append(@, item)],
             UNCHANGED worker, Running(e)
      PROVE  WorkersSound'
  <2>1. e \in Started
    BY <1>3 DEF Running, Started, At
  <2>2. queue'[e] = Append(queue[e], item) /\ queue' = [queue EXCEPT ![e] = queue'[e]]
    BY <1>1, <1>3
  <2>3. queue'[e] \in Seq(SoundItem)
    BY <1>1, <2>2
  <2>4. worker' = [worker EXCEPT ![e] = worker'[e]]
    BY <1>1, <1>3
  <2> QED
    BY <1>1, <1>3, <2>1, <2>2, <2>3, <2>4, WorkersGo
<1>4. CASE AppAnswer(e)
  <2> PICK m \in inbox[e], ua \in OpenKinds :
           queue' = [queue EXCEPT ![e] =
                Append(@, [pong |-> FALSE, id |-> m.id, stream |-> m.stream, ua |-> ua])]
    BY <1>4 DEF AppAnswer
  <2> DEFINE item == [pong |-> FALSE, id |-> m.id, stream |-> m.stream, ua |-> ua]
  <2>1. m \in MessageType
    BY DEF Sound, OthersTyped
  <2>2. m.id \in Ids \cup {NoId} /\ m.stream \in Streams /\ ua \in Kinds
    BY <2>1, KeyFacts DEF MessageType
  <2>3. item \in SoundItem
    BY <2>2 DEF SoundItem, ItemType
  <2> QED
    BY <1>3, <1>4, <2>3 DEF AppAnswer
<1>5. CASE AppPongUnknown(e)
  <2> PICK k \in remote.known :
           queue' = [queue EXCEPT ![e] = Append(@, [pong |-> TRUE, id |-> NoId,
                                                   stream |-> remote.cstream[k], ua |-> "unknown"])]
    BY <1>5 DEF AppPongUnknown
  <2> DEFINE s == remote.cstream[k]
             item == [pong |-> TRUE, id |-> NoId, stream |-> s, ua |-> "unknown"]
  <2>1. s \in Streams
    BY SoundFacts DEF RemoteType
  <2>2. queue' = [queue EXCEPT ![e] = Append(@, item)]
    OBVIOUS
  <2> HIDE DEF s
  <2>3. item \in SoundItem
    BY <2>1, KeyFacts DEF SoundItem, ItemType
  <2> HIDE DEF item
  <2> QED
    BY <1>3, <1>5, <2>2, <2>3 DEF AppPongUnknown
<1>6. CASE UNCHANGED <<worker, queue>>
  BY <1>6, UntouchedWorkers
<1> QED
  BY <1>2, <1>4, <1>5, <1>6 DEF SocketStep, AppStep, SocketLost, SocketCleanup, SocketFrame,
     AppPingTarget, AppPingMark, AppForget

LEMMA WorkersSoundKept ==
  ASSUME Sound, ControlNext
  PROVE  WorkersSound'
<1>1. ASSUME NEW t \in Tasks, TaskStep(t) PROVE UNCHANGED <<worker, queue>>
  BY <1>1 DEF TaskStep, Resolve, WaitOver, WaitFailed, Ensure, Decide, InitReserve, InitSend,
     InitSendFailed, Reserve, Send, GiveUp, Receive, Retry
<1>2. ASSUME NEW c \in Callers, CallerStep(c) \/ Cancel(c) PROVE UNCHANGED <<worker, queue>>
  BY <1>2 DEF CallerStep, Begin, BeginTargeted, Ready, Cancel
<1>3. ASSUME NEW x \in Slots, RecoveryStep(x) PROVE UNCHANGED <<worker, queue>>
  BY <1>3 DEF RecoveryStep, RecoveryReset, RecoveryFinish, RecoveryResubscribe, RecoveryForce
<1>4. CASE SocketOpen \/ StatusSnapshot
  BY <1>4, UntouchedWorkers DEF SocketOpen, StatusSnapshot
<1> QED
  BY <1>1, <1>2, <1>3, <1>4, UntouchedWorkers, WorkerStepSound, ConnectionWorkersSound
  DEF ControlNext
LEMMA DeliverTyped ==
  ASSUME Sound, NEW e, NEW s \in Streams, NEW id \in Ids, NEW init \in BOOLEAN,
         Deliver(e, s, id, init)
  PROVE  app' \in [Epochs -> SUBSET Streams] /\ inbox' \in [Epochs -> SUBSET MessageType]
<1>1. app \in [Epochs -> SUBSET Streams] /\ inbox \in [Epochs -> SUBSET MessageType]
  BY DEF Sound, OthersTyped
<1>2. [id |-> id, stream |-> s, init |-> TRUE] \in MessageType
      /\ [id |-> id, stream |-> s, init |-> FALSE] \in MessageType
  BY DEF MessageType
<1>3. app' \in [Epochs -> SUBSET Streams]
  BY <1>1 DEF Deliver
<1>4. inbox' \in [Epochs -> SUBSET MessageType]
  BY <1>1, <1>2 DEF Deliver
<1> QED
  BY <1>3, <1>4

LEMMA ReachTyped ==
  ASSUME Sound, NEW t, NEW e \in Epochs, NEW s, Reach(t, e, s)
  PROVE  reached' \in [Callers -> SUBSET Epochs]
BY DEF Reach, Sound, OthersTyped

LEMMA DropTyped ==
  ASSUME Sound, NEW e, DropSocket(e)
  PROVE  app' \in [Epochs -> SUBSET Streams] /\ inbox' \in [Epochs -> SUBSET MessageType]
BY DEF DropSocket, Sound, OthersTyped

\* the entries of the pending maps
LEMMA EntriesTyped ==
  ASSUME Sound, ControlNext
  PROVE  pend' \subseteq Entries
<1>1. pend \subseteq Entries
  BY DEF Sound, OthersTyped
<1>2. ASSUME NEW t \in Tasks, TaskStep(t) PROVE pend' \subseteq Entries
  <2>1. CASE InitReserve(t)
    <3>1. /\ task[t].ikey \in Keys /\ task[t].epoch \in Epochs /\ NextId(t) \in Ids
      BY <2>1, TaskFacts, SoundFacts
      DEF InitReserve, At, HoldsKeys, MaySend, NextId, Ids, TaskType
    <3> DEFINE p == [key |-> task[t].ikey, id |-> NextId(t), epoch |-> task[t].epoch,
                     init |-> TRUE]
    <3>2. p \in Entries
      BY <3>1 DEF Entries
    <3>3. pend' = pend \cup {p}
      BY <2>1 DEF InitReserve
    <3> HIDE DEF p
    <3> QED
      BY <1>1, <3>2, <3>3
  <2>2. CASE Reserve(t)
    <3> DEFINE r0 == IF OnConnection(t) THEN remote ELSE SyncLegacy(remote)
               e  == ReserveEpoch(t, r0)
               p  == [key |-> task[t].key, id |-> NextId(t), epoch |-> e, init |-> FALSE]
    <3>1. /\ task[t].key \in Keys /\ NextId(t) \in Ids
      BY <2>2, TaskFacts, SoundFacts DEF Reserve, At, HoldsKeys, NextId, Ids, TaskType
    <3>2. r0 \in RemoteType
      BY SoundFacts, SyncLegacyLemma
    <3>3. MayReserve(t, r0, e) => e \in Epochs
      BY <3>2, SoundFacts, ExistsFacts DEF MayReserve, ReserveEpoch, RemoteType
    <3>4. \/ pend' = pend
          \/ MayReserve(t, r0, e) /\ pend' = pend \cup {p}
      BY <2>2 DEF Reserve
    <3> HIDE DEF e
    <3>5. MayReserve(t, r0, e) => p \in Entries
      BY <3>1, <3>3 DEF Entries
    <3> HIDE DEF p
    <3> QED
      BY <1>1, <3>4, <3>5
  <2>3. CASE ~InitReserve(t) /\ ~Reserve(t)
    BY <1>1, <1>2, <2>3 DEF TaskStep, Resolve, WaitOver, WaitFailed, Ensure, Decide, InitSend,
       InitSendFailed, Send, GiveUp, Receive, Retry
  <2> QED
    BY <2>1, <2>2, <2>3
<1>3. ASSUME NEW e \in Epochs, WorkerFlags(e) PROVE pend' \subseteq Entries
  <2> DEFINE k2 == ResultKey(remote, e, worker[e].key, worker[e].stream, worker[e].ua)
  <2>1. worker[e].pc = "flags" /\ worker[e].key \in UsableKeys /\ worker[e].ua \in OpenKinds
    BY <1>3 DEF WorkerFlags, WorkerSound, Sound, WorkersSound
  <2>2. ResultKind(remote, e, worker[e].ua) \in OpenKinds
    BY <2>1, ResultKindIsOpen, SoundFacts
  <2>3. k2 \in Keys
    BY <2>1, <2>2, SoundFacts DEF ResultKey, MigratedKey, UsableKeys
  <2>4. pend' = {IF p.key = worker[e].key THEN [p EXCEPT !.key = k2] ELSE p : p \in pend}
    BY <1>3 DEF WorkerFlags
  <2> HIDE DEF k2
  <2>5. \A p \in Entries : [p EXCEPT !.key = k2] \in Entries
    BY <2>3 DEF Entries
  <2> QED
    BY <1>1, <2>4, <2>5
<1>4. ASSUME NEW e \in Epochs, WorkerStep(e), ~WorkerFlags(e) PROVE pend' \subseteq pend
  BY <1>4 DEF WorkerStep, TakeAnswer, TakePong, WorkerInitialized, WorkerSnapshot, WorkerReplay,
     WorkerAnswer
<1>5. ASSUME NEW e \in Epochs, SocketStep(e) \/ AppStep(e) PROVE pend' \subseteq pend
  BY <1>5 DEF SocketStep, SocketLost, WorkerAbort, SocketCleanup, SocketFrame, AppPingTarget,
     AppPingMark, AppStep, AppAnswer, AppForget, AppPongUnknown
<1>6. ASSUME NEW c \in Callers, CallerStep(c) \/ Cancel(c) PROVE pend' \subseteq pend
  BY <1>6 DEF CallerStep, Begin, BeginTargeted, Ready, Cancel
<1>7. ASSUME NEW x \in Slots, RecoveryStep(x) PROVE pend' \subseteq pend
  BY <1>7 DEF RecoveryStep, RecoveryReset, RecoveryFinish, RecoveryResubscribe, RecoveryForce
<1>8. CASE SocketOpen \/ StatusSnapshot
  BY <1>1, <1>8 DEF SocketOpen, StatusSnapshot
<1> QED
  BY <1>1, <1>2, <1>3, <1>4, <1>5, <1>6, <1>7, <1>8 DEF ControlNext

\* what the app-servers know and have to answer
LEMMA AppsTyped ==
  ASSUME Sound, ControlNext
  PROVE  /\ app' \in [Epochs -> SUBSET Streams] /\ inbox' \in [Epochs -> SUBSET MessageType]
         /\ reached' \in [Callers -> SUBSET Epochs]
<1> DEFINE Typed == /\ app' \in [Epochs -> SUBSET Streams]
                    /\ inbox' \in [Epochs -> SUBSET MessageType]
                    /\ reached' \in [Callers -> SUBSET Epochs]
<1>1. /\ app \in [Epochs -> SUBSET Streams] /\ inbox \in [Epochs -> SUBSET MessageType]
      /\ reached \in [Callers -> SUBSET Epochs]
  BY DEF Sound, OthersTyped
<1>2. CASE UNCHANGED <<app, inbox, reached>>
  BY <1>1, <1>2
<1>3. ASSUME NEW t \in Tasks, InitSend(t) \/ Send(t) PROVE Typed
  <2>1. /\ task[t].stream \in Streams /\ CurrentId(t) \in Ids /\ task[t].epoch \in Epochs
    BY <1>3, TaskFacts, SoundFacts
    DEF InitSend, Send, At, MaySend, CurrentId, Ids, TaskType, SendOk, HasTx
  <2> QED
    BY <1>1, <1>3, <2>1, DeliverTyped, ReachTyped DEF InitSend, Send
<1>4. ASSUME NEW t \in Tasks, TaskStep(t), ~InitSend(t), ~Send(t) PROVE Typed
  <2>1. UNCHANGED <<app, inbox, reached>>
    BY <1>4 DEF TaskStep, Resolve, WaitOver, WaitFailed, Ensure, Decide, InitReserve,
       InitSendFailed, Reserve, GiveUp, Receive, Retry
  <2> QED
    BY <1>2, <2>1
<1>5. ASSUME NEW e \in Epochs, WorkerReplay(e) PROVE Typed
  <2>1. worker[e] \in WorkerType
    BY DEF Sound, WorkersSound
  <2>2. worker[e].stream \in Streams /\ worker[e].todo \subseteq Ids
    BY <2>1 DEF WorkerType
  <2> QED
    BY <1>1, <1>2, <1>5, <2>2, DeliverTyped, ReachTyped DEF WorkerReplay
<1>6. ASSUME NEW e \in Epochs, WorkerStep(e), ~WorkerReplay(e) PROVE Typed
  <2>1. UNCHANGED <<app, inbox, reached>>
    BY <1>6 DEF WorkerStep, TakeAnswer, TakePong, WorkerFlags, WorkerInitialized, WorkerSnapshot,
       WorkerAnswer
  <2> QED
    BY <1>2, <2>1
<1>7. ASSUME NEW e \in Epochs, SocketStep(e) PROVE Typed
  <2>1. SocketLost(e) \/ UNCHANGED <<app, inbox, reached>>
    BY <1>7 DEF SocketStep, WorkerAbort, SocketCleanup, SocketFrame, AppPingTarget, AppPingMark
  <2> QED
    BY <1>1, <1>2, <2>1, DropTyped DEF SocketLost
<1>8. ASSUME NEW e \in Epochs, AppStep(e) PROVE Typed
  <2>1. CASE AppAnswer(e) \/ AppForget(e)
    BY <1>1, <2>1 DEF AppAnswer, AppForget
  <2>2. CASE AppPongUnknown(e)
    BY <1>2, <2>2 DEF AppPongUnknown
  <2> QED
    BY <1>8, <2>1, <2>2 DEF AppStep
<1>9. ASSUME NEW c \in Callers, CallerStep(c) \/ Cancel(c) PROVE Typed
  <2>1. UNCHANGED <<app, inbox, reached>>
    BY <1>9 DEF CallerStep, Begin, BeginTargeted, Ready, Cancel
  <2> QED
    BY <1>2, <2>1
<1>10. ASSUME NEW x \in Slots, RecoveryStep(x) PROVE Typed
  <2>1. RecoveryForce(x) \/ UNCHANGED <<app, inbox, reached>>
    BY <1>10 DEF RecoveryStep, RecoveryReset, RecoveryFinish, RecoveryResubscribe
  <2> QED
    BY <1>1, <1>2, <2>1, DropTyped DEF RecoveryForce
<1>11. CASE SocketOpen \/ StatusSnapshot
  BY <1>2, <1>11 DEF SocketOpen, StatusSnapshot
<1> QED
  BY <1>3, <1>4, <1>5, <1>6, <1>7, <1>8, <1>9, <1>10, <1>11 DEF ControlNext

-----------------------------------------------------------------------------
LEMMA InitIsSound == ControlInit => Sound
<1> SUFFICES ASSUME ControlInit PROVE Sound
  OBVIOUS
<1>1. remote = InitialRemote /\ remote.live = {} /\ remote.known = {} /\ remote.next = 0
      /\ ~remote.connected /\ remote.dkey = [e \in Epochs |-> Default]
  BY DEF ControlInit, RegistryInit, InitialRemote
<1>2. Good(remote) /\ Based(remote)
  BY <1>1, InitialIsGood DEF Based
<1>3. pend = {} /\ up = {} /\ DOMAIN task = Tasks
      /\ \A t \in Tasks : task[t] = IF t \in Callers THEN [IdleTask EXCEPT !.key = KeyOf[t]]
                                    ELSE IdleTask
  BY DEF ControlInit
<1>4. TasksSound
  <2> SUFFICES ASSUME NEW t \in Tasks PROVE TaskSound(t, task[t], remote, up, Started)
    BY DEF TasksSound
  <2>1. IdleTask \in TaskType /\ IdleTask.pc = "idle" /\ IdleTask.result = "none"
    BY IdleTyped DEF IdleTask
  <2>2. CASE t \in Callers
    <3> DEFINE v == [IdleTask EXCEPT !.key = KeyOf[t]]
    <3>1. KeyOf[t] \in Keys /\ KeyOf[t] \in MaybeKeys /\ t \notin Epochs /\ t \notin Slots
          /\ (t \notin Targeted => KeyOf[t] \in ImKeys)
      BY <2>2, RequestsAssumption, TasksAssumption DEF MaybeKeys
    <3>2. v \in TaskType /\ v.pc = "idle" /\ v.key = KeyOf[t]
      BY <2>1, <3>1 DEF TaskType
    <3>3. task[t] = v
      BY <1>3, <2>2
    <3> HIDE DEF v
    <3> QED
      BY <3>1, <3>2, <3>3 DEF TaskSound, HoldsKeys, OpensItself, MaySend
  <2>3. CASE t \notin Callers
    <3>1. task[t] = IdleTask
      BY <1>3, <2>3
    <3> QED
      BY <2>1, <2>3, <3>1 DEF TaskSound, HoldsKeys, OpensItself, MaySend, Opening
  <2> QED
    BY <2>2, <2>3
<1>5. WorkersSound
  <2>1. worker = [e \in Epochs |-> IdleWorker] /\ queue = [e \in Epochs |-> << >>]
    BY DEF ControlInit
  <2>2. << >> \in Seq(SoundItem)
    OBVIOUS
  <2> QED
    BY <2>1, <2>2, IdleWorkerSound DEF WorkersSound
<1>6. OthersTyped
  BY DEF ControlInit, OthersTyped
<1> QED
  BY <1>2, <1>3, <1>4, <1>5, <1>6 DEF Sound

LEMMA SoundKept ==
  ASSUME Sound, [ControlNext]_vars
  PROVE  Sound'
<1>1. CASE ControlNext
  <2>1. Good(remote') /\ Based(remote')
    BY <1>1, RegistryKept DEF Kept
  <2>2. Good(remote)' /\ Based(remote)'
    BY <2>1 DEF Good, RemoteType, ActiveOpen, Registered, Based
  <2> QED
    BY <1>1, <2>2, UpKept, TasksSoundKept, WorkersSoundKept, EntriesTyped, AppsTyped
    DEF Sound, OthersTyped
<1>2. CASE UNCHANGED vars
  BY <1>2 DEF vars, Sound, Good, RemoteType, ActiveOpen, Registered, Based, TasksSound, TaskSound,
     HoldsKeys, MaySend, OpensItself, Started, WorkersSound, WorkerSound, OthersTyped
<1> QED
  BY <1>1, <1>2
-----------------------------------------------------------------------------
(* The tasks of the backend never get hold of a key, a connection or a      *)
(* stream the registry does not lead to, whatever their interleaving.       *)
THEOREM TheBackendIsSound == ControlSpec => []Sound
BY InitIsSound, SoundKept, PTL DEF ControlSpec

(* The backend implements the registry: every step of a socket, a request,  *)
(* a recovery or a worker does to the protected record what RemoteConnections *)
(* lets its critical sections do, or leaves it alone.                       *)
THEOREM TheBackendImplementsTheRegistry == ControlSpec => RegistrySpec
<1>1. ControlInit => RegistryInit
  BY DEF ControlInit
<1>2. Sound /\ [ControlNext]_vars => [RegistryNext]_remote
  BY StepOnRegistry DEF Quiet, Section, CloseStep, SocketOpen, RegistryNext, Close, vars
<1> QED
  BY <1>1, <1>2, TheBackendIsSound, PTL DEF ControlSpec, RegistrySpec

(* So in the running backend, too, there is always exactly one connection   *)
(* to select, and the selected one is open.                                 *)
THEOREM TheBackendSelectsSoundly == ControlSpec => []SelectionIsSound
BY TheBackendImplementsTheRegistry, TheSelectionIsSound, PTL

(* The initialize a new connection sends for its own default client does    *)
(* not fail: its socket is up until that is sent.                           *)
THEOREM OwnInitializesAreSent == ControlSpec => []OwnInitializeIsSent
<1>1. Sound => OwnInitializeIsSent
  BY SoundFacts DEF OwnInitializeIsSent, TaskSound, OpensItself, Tasks
<1> QED
  BY <1>1, TheBackendIsSound, PTL

-----------------------------------------------------------------------------
(* The invariant of the pending maps.                                       *)

\* a call holds a result only from its channel, and only while it waits
ResultSound(v) ==
  /\ v.pc \in {"send", "wait"} => v.result \in {"none", "answered", "reinit", "closed"}
  /\ v.pc \notin {"send", "wait", "done", "ping"} => v.result = "none"

\* an id is drawn once
Drawn(id) == task[id.by].pc \in {"done", "ping"} \/ id.n <= task[id.by].n

\* the task v that filed p will remove it under the key it filed it with
Removes(v, p, k) == p.id.n = v.n /\ (p.key = k \/ p.key \in MovedKeys)
Leaves(v, p) == v.result = "cancelled" \/ (v.result = "failed" /\ p.key \in MovedKeys)

RequestEntry(p, v) ==
  ~p.init => \/ Removes(v, p, v.key) /\ v.pc \in {"send", "wait"} /\ v.result = "none"
             \/ Leaves(v, p)
InitializeEntry(p, v, r) ==
  p.init /\ p.epoch \notin r.live =>
    \/ Removes(v, p, v.ikey) /\ v.pc = "initsend" /\ v.epoch = p.epoch
    \/ Leaves(v, p)

IdsAreUnique == \A p, q \in pend : p.id = q.id => p = q
EntriesSound ==
  \A p \in pend : /\ Drawn(p.id)
                   /\ RequestEntry(p, task[p.id.by])
                   /\ InitializeEntry(p, task[p.id.by], remote)
AnswersSound ==
  \A e \in Epochs : worker[e].pc = "answer" =>
    worker[e].id \in Ids /\ Drawn(worker[e].id) /\ \A p \in pend : p.id # worker[e].id

Tracked ==
  /\ \A t \in Tasks : ResultSound(task[t])
  /\ IdsAreUnique /\ EntriesSound /\ AnswersSound /\ RequestNotLost
-----------------------------------------------------------------------------
(* The pending maps.                                                        *)

\* the other tasks stay where they are
Alone(t) ==
  /\ DOMAIN task' = Tasks /\ \A s \in Tasks \ {t} : task'[s] = task[s]
  /\ task[t].pc \in {"done", "ping"} => task'[t].pc \in {"done", "ping"}

\* a task goes on to a step that neither sends nor waits, or it is over
Onward(t) ==
  \/ task'[t].pc \in {"done", "ping"}
  \/ task'[t].pc \notin {"send", "wait"} /\ task'[t].result = "none" /\ task'[t].n = task[t].n

LEMMA EntryFacts ==
  ASSUME Sound, Tracked, NEW p \in pend
  PROVE  LET v == task[p.id.by]
         IN  /\ p \in Entries /\ p.id \in Ids /\ p.id.by \in Tasks /\ Drawn(p.id)
             /\ p.id = [by |-> p.id.by, n |-> p.id.n] /\ p.init \in BOOLEAN
             /\ v \in TaskType /\ ResultSound(v)
             /\ RequestEntry(p, v) /\ InitializeEntry(p, v, remote)
             /\ Leaves(v, p) => v.pc \in {"done", "ping"} /\ p.id.by \notin Epochs
<1> DEFINE v == task[p.id.by]
<1>1. p \in Entries /\ p.id \in Ids /\ p.init \in BOOLEAN
  BY DEF Sound, OthersTyped, Entries
<1>2. p.id.by \in Tasks /\ p.id = [by |-> p.id.by, n |-> p.id.n]
  BY <1>1 DEF Ids
<1>3. Drawn(p.id) /\ RequestEntry(p, v) /\ InitializeEntry(p, v, remote) /\ ResultSound(v)
  BY <1>2 DEF Tracked, EntriesSound
<1>4. v \in TaskType /\ OpensItself(p.id.by, v, remote, up)
  BY <1>2, TaskFacts
<1>5. Leaves(v, p) => v.pc \in {"done", "ping"} /\ p.id.by \notin Epochs
  BY <1>3, <1>4 DEF Leaves, ResultSound, OpensItself
<1> QED
  BY <1>1, <1>2, <1>3, <1>4, <1>5

\* a task moves on, and files or removes at most an entry of its own
LEMMA TrackedStays ==
  ASSUME Sound, Tracked, NEW t \in Tasks, Alone(t), UNCHANGED worker,
         remote.live \subseteq remote'.live, pend' \subseteq Entries,
         ResultSound(task'[t]),
         \/ task'[t].pc \in {"done", "ping"}
         \/ task'[t].n \in Nat /\ task[t].n <= task'[t].n,
         \A p \in pend' \ pend : /\ p.id = NextId(t) /\ task'[t].n = task[t].n + 1
                                 /\ task[t].pc \notin {"done", "ping"}
                                 /\ task'[t].pc \notin {"done", "ping"},
         \A p, q \in pend' \ pend : p = q,
         \A p \in pend \ pend' : p.id.by = t,
         \A p \in pend' : p.id.by = t =>
             RequestEntry(p, task'[t]) /\ InitializeEntry(p, task'[t], remote'),
         t \in Callers \cup Slots /\ InFlight(t)' =>
             \/ \E p \in pend' : p.id = CurrentId(t)' /\ ~p.init
             \/ \E e \in Epochs : worker[e].pc = "answer" /\ worker[e].id = CurrentId(t)'
  PROVE  Tracked'
<1>1. task[t].n \in Nat /\ task[t] \in TaskType
  BY TaskFacts DEF TaskType
<1>2. \A s \in Tasks : ResultSound(task'[s])
  BY DEF Tracked, Alone
<1>3. \A id \in Ids : Drawn(id) => Drawn(id)'
  <2> SUFFICES ASSUME NEW id \in Ids, Drawn(id) PROVE Drawn(id)'
    OBVIOUS
  <2>1. id.by \in Tasks /\ id.n \in Nat
    BY DEF Ids
  <2>2. CASE id.by # t
    BY <2>1, <2>2 DEF Drawn, Alone
  <2>3. CASE id.by = t
    BY <1>1, <2>1, <2>3 DEF Drawn, Alone
  <2> QED
    BY <2>2, <2>3
<1>4. \A p \in pend' : p.id \in Ids /\ p.id.by \in Tasks
  BY DEF Entries, Ids
<1>5. \A p \in pend' \ pend : /\ p.id.by = t /\ p.id.n = task[t].n + 1 /\ ~Drawn(p.id) /\ Drawn(p.id)'
  BY <1>1 DEF NextId, Drawn
<1>6. IdsAreUnique'
  <2> SUFFICES ASSUME NEW p \in pend', NEW q \in pend', p.id = q.id PROVE p = q
    BY DEF IdsAreUnique
  <2>1. \A i \in pend : Drawn(i.id)
    BY DEF Tracked, EntriesSound
  <2> QED
    BY <1>5, <2>1 DEF Tracked, IdsAreUnique
<1>7. EntriesSound'
  <2> SUFFICES ASSUME NEW p \in pend'
               PROVE  /\ Drawn(p.id)'
                      /\ RequestEntry(p, task'[p.id.by])
                      /\ InitializeEntry(p, task'[p.id.by], remote')
    BY DEF EntriesSound
  <2>1. Drawn(p.id)'
    BY <1>3, <1>4, <1>5 DEF Tracked, EntriesSound
  <2>2. CASE p.id.by = t
    BY <2>1, <2>2
  <2>3. CASE p.id.by # t
    <3>1. p \in pend /\ task'[p.id.by] = task[p.id.by]
      BY <1>4, <1>5, <2>3 DEF Alone
    <3>2. RequestEntry(p, task[p.id.by]) /\ InitializeEntry(p, task[p.id.by], remote)
      BY <3>1 DEF Tracked, EntriesSound
    <3> QED
      BY <2>1, <3>1, <3>2 DEF InitializeEntry
  <2> QED
    BY <2>2, <2>3
<1>8. AnswersSound'
  <2> SUFFICES ASSUME NEW e \in Epochs, worker[e].pc = "answer"
               PROVE  /\ worker[e].id \in Ids /\ Drawn(worker[e].id)'
                      /\ \A p \in pend' : p.id # worker[e].id
    BY DEF AnswersSound, Drawn
  <2>1. worker[e].id \in Ids /\ Drawn(worker[e].id) /\ \A p \in pend : p.id # worker[e].id
    BY DEF Tracked, AnswersSound
  <2> QED
    BY <1>3, <1>5, <2>1
<1>9. RequestNotLost'
  <2> SUFFICES ASSUME NEW s \in Callers \cup Slots, InFlight(s)'
               PROVE  \/ \E p \in pend' : p.id = CurrentId(s)' /\ ~p.init
                      \/ \E e \in Epochs : worker[e].pc = "answer" /\ worker[e].id = CurrentId(s)'
    BY DEF RequestNotLost
  <2>1. CASE s = t
    BY <2>1
  <2>2. CASE s # t
    <3>1. s \in Tasks /\ task'[s] = task[s]
      BY <2>2 DEF Alone, Tasks
    <3>2. InFlight(s) /\ CurrentId(s)' = CurrentId(s) /\ CurrentId(s).by = s
      BY <3>1 DEF InFlight, CurrentId
    <3>3. \/ \E p \in pend : p.id = CurrentId(s) /\ ~p.init
          \/ \E e \in Epochs : worker[e].pc = "answer" /\ worker[e].id = CurrentId(s)
      BY <3>2 DEF Tracked, RequestNotLost
    <3> QED
      BY <2>2, <3>2, <3>3
  <2> QED
    BY <2>1, <2>2
<1> QED
  BY <1>2, <1>6, <1>7, <1>8, <1>9 DEF Tracked

\* a task that neither sends nor waits has nothing in the pending maps but
\* initializes of open connections
Claimless == {"send", "wait", "initsend", "done", "ping"}

LEMMA NoClaims ==
  ASSUME Sound, Tracked, NEW t \in Tasks,
         task[t].pc \notin Claimless \/ (t \in Epochs /\ task[t].pc \in {"done", "ping"})
  PROVE  \A p \in pend : p.id.by = t => p.init /\ p.epoch \in remote.live
<1> SUFFICES ASSUME NEW p \in pend, p.id.by = t PROVE p.init /\ p.epoch \in remote.live
  OBVIOUS
<1>1. /\ RequestEntry(p, task[t]) /\ InitializeEntry(p, task[t], remote)
      /\ Leaves(task[t], p) => task[t].pc \in {"done", "ping"} /\ t \notin Epochs
      /\ p.init \in BOOLEAN
  BY EntryFacts
<1> QED
  BY <1>1 DEF RequestEntry, InitializeEntry, Claimless

LEMMA OnwardStays ==
  ASSUME Sound, Tracked, NEW t \in Tasks, Alone(t), Onward(t), UNCHANGED <<pend, worker>>,
         remote.live \subseteq remote'.live,
         \A p \in pend : p.id.by = t => p.init /\ p.epoch \in remote.live
  PROVE  Tracked'
<1>1. \A p \in pend' : p.id.by = t =>
             RequestEntry(p, task'[t]) /\ InitializeEntry(p, task'[t], remote')
  BY DEF RequestEntry, InitializeEntry
<1>2. ResultSound(task'[t])
  BY DEF ResultSound, Onward
<1>3. ~InFlight(t)'
  BY DEF InFlight, Onward
<1>4. task[t].n \in Nat /\ pend \subseteq Entries
  BY TaskFacts DEF TaskType, Sound, OthersTyped
<1> QED
  BY <1>1, <1>2, <1>3, <1>4, TrackedStays DEF Onward

LEMMA ClaimlessStays ==
  ASSUME Sound, Tracked, NEW t \in Tasks, Alone(t), Onward(t), UNCHANGED <<pend, worker>>,
         remote.live \subseteq remote'.live,
         task[t].pc \notin Claimless \/ (t \in Epochs /\ task[t].pc \in {"done", "ping"})
  PROVE  Tracked'
BY NoClaims, OnwardStays

-----------------------------------------------------------------------------
(* The steps of a request.                                                  *)

LEMMA OneIsAlone ==
  ASSUME Sound, NEW t \in Tasks, OneTask(t)
  PROVE  Alone(t)
BY DEF OneTask, Alone

LEMMA QuietKeepsLive ==
  ASSUME Sound, Quiet
  PROVE  remote.live \subseteq remote'.live
BY SoundFacts, SectionStays DEF Quiet, Stays

LEMMA EndIsOnward ==
  ASSUME Sound, NEW t \in Tasks, NEW result, End(t, result)
  PROVE  Onward(t) /\ Alone(t) /\ task'[t] = Ended(result) /\ Ended(result).pc = "done"
BY TaskFacts DEF End, Ended, IdleTask, Onward, Alone

LEMMA GotoIsOnward ==
  ASSUME Sound, NEW t \in Tasks, NEW pc, Goto(t, pc), task[t].result = "none",
         task[t].pc \notin {"done", "ping"}, pc \notin {"send", "wait"}
  PROVE  Onward(t) /\ Alone(t)
BY TaskFacts DEF Goto, Onward, Alone, TaskType

LEMMA InitStepDoneIsOnward ==
  ASSUME Sound, NEW t \in Tasks, InitStepDone(t), task[t].pc \in {"decide", "initsend"},
         task[t].result = "none"
  PROVE  Onward(t) /\ Alone(t)
<1>1. AfterInit(t) \in {"done", "reserve", "recinit", "initwait"}
  BY DEF AfterInit
<1>2. CASE End(t, "initialized")
  BY <1>2, EndIsOnward
<1>3. CASE task' = [task EXCEPT ![t].pc = AfterInit(t), ![t].ikey = NoKey, ![t].stream = RootStream]
  BY <1>1, <1>3, TaskFacts DEF Onward, Alone, TaskType
<1> QED
  BY <1>2, <1>3 DEF InitStepDone

LEMMA WaitingStays ==
  ASSUME Sound, Tracked, NEW t \in Tasks, WaitOver(t) \/ WaitFailed(t)
  PROVE  Tracked'
<1>1. task[t].pc \in {"recwait", "initwait", "retrywait", "recinit"}
  BY DEF WaitOver, WaitFailed, Waiting, WaitNext
<1>2. task[t].result = "none" /\ task[t].pc \notin Claimless
  BY <1>1 DEF Tracked, ResultSound, Claimless
<1>3. WaitNext[task[t].pc] \in {"ready", "reserve", "idle", "finish"}
  BY <1>1 DEF WaitNext
<1>4. Onward(t) /\ Alone(t)
  BY <1>1, <1>2, <1>3, EndIsOnward, GotoIsOnward DEF WaitOver, WaitFailed
<1>5. UNCHANGED <<remote, pend, worker>>
  BY DEF WaitOver, WaitFailed
<1> QED
  BY <1>2, <1>4, <1>5, ClaimlessStays

LEMMA ResolvingStays ==
  ASSUME Sound, Tracked, NEW t \in Tasks, Resolve(t) \/ Ensure(t) \/ Decide(t)
  PROVE  Tracked'
<1>1. task[t].pc \in {"resolve", "ensure", "decide"}
  BY DEF Resolve, Ensure, Decide, At
<1>2. task[t].result = "none" /\ task[t].pc \notin Claimless
  BY <1>1 DEF Tracked, ResultSound, Claimless
<1>3. Onward(t) /\ Alone(t)
  <2>1. CASE Resolve(t) \/ Ensure(t)
    BY <1>1, <1>2, <2>1, TaskFacts DEF Resolve, Ensure, Onward, Alone, TaskType
  <2>2. CASE Decide(t)
    <3>1. task[t].pc = "decide" /\ (InitStepDone(t) \/ Goto(t, "init"))
      BY <2>2 DEF Decide, At
    <3> QED
      BY <1>2, <3>1, GotoIsOnward, InitStepDoneIsOnward
  <2> QED
    BY <2>1, <2>2
<1>4. remote.live \subseteq remote'.live
  BY TaskStepIsQuiet, QuietKeepsLive DEF TaskStep
<1>5. UNCHANGED <<pend, worker>>
  BY DEF Resolve, Ensure, Decide
<1> QED
  BY <1>2, <1>3, <1>4, <1>5, ClaimlessStays

LEMMA CallersStay ==
  ASSUME Sound, Tracked, NEW c \in Callers, CallerStep(c)
  PROVE  Tracked'
<1>1. c \in Tasks /\ task[c].pc \in {"idle", "ready"}
  BY DEF CallerStep, Begin, BeginTargeted, Ready, At, Tasks
<1>2. task[c].result = "none" /\ task[c].pc \notin Claimless
  BY <1>1 DEF Tracked, ResultSound, Claimless
<1>3. Onward(c) /\ Alone(c)
  <2>1. CASE Begin(c)
    <3> DEFINE pc == IF task[c].key \in remote.known /\ remote.recovering[task[c].key]
                     THEN "recwait" ELSE "ready"
    <3>1. Goto(c, pc) /\ pc \notin {"send", "wait"}
      BY <2>1 DEF Begin
    <3> HIDE DEF pc
    <3> QED
      BY <1>1, <1>2, <3>1, GotoIsOnward
  <2>2. CASE End(c, "failed")
    BY <1>1, <2>2, EndIsOnward
  <2>3. CASE (BeginTargeted(c) \/ Ready(c)) /\ ~End(c, "failed")
    BY <1>1, <1>2, <2>3, TaskFacts DEF BeginTargeted, Ready, Onward, Alone, TaskType
  <2> QED
    BY <2>1, <2>2, <2>3 DEF CallerStep
<1>4. remote.live \subseteq remote'.live
  BY CallerStepIsQuiet, QuietKeepsLive
<1>5. UNCHANGED <<pend, worker>>
  BY DEF CallerStep, Begin, BeginTargeted, Ready
<1> QED
  BY <1>1, <1>2, <1>3, <1>4, <1>5, ClaimlessStays

LEMMA InitReserveStays ==
  ASSUME Sound, Tracked, NEW t \in Tasks, InitReserve(t)
  PROVE  Tracked'
<1> DEFINE new == [key |-> task[t].ikey, id |-> NextId(t), epoch |-> task[t].epoch, init |-> TRUE]
<1>1. task[t].pc = "init" /\ task[t].result = "none"
  BY DEF InitReserve, At, Tracked, ResultSound
<1>2. OneTask(t) /\ Alone(t)
  BY InitOneTask, OneIsAlone
<1>3. remote.live \subseteq remote'.live /\ pend' \subseteq Entries
  BY TaskStepIsQuiet, QuietKeepsLive, EntriesTyped DEF TaskStep, ControlNext
<1>4. /\ task'[t].pc = "initsend" /\ task'[t].result = "none" /\ task'[t].n = task[t].n + 1
      /\ task'[t].ikey = task[t].ikey /\ task'[t].epoch = task[t].epoch
  BY <1>1, TaskFacts DEF InitReserve, TaskType
<1>5. task[t].n \in Nat
  BY TaskFacts DEF TaskType
<1>6. pend' = pend \cup {new} /\ UNCHANGED worker
  BY DEF InitReserve
<1>7. \A p \in pend : p.id.by = t => p.init /\ p.epoch \in remote.live
  BY <1>1, NoClaims DEF Claimless
<1>8. new.id = NextId(t) /\ new.id.n = task[t].n + 1 /\ new.init /\ new.key = task[t].ikey
      /\ new.epoch = task[t].epoch
  BY DEF NextId
<1> HIDE DEF new
<1>9. \A p \in pend' : p.id.by = t =>
             RequestEntry(p, task'[t]) /\ InitializeEntry(p, task'[t], remote')
  BY <1>3, <1>4, <1>6, <1>7, <1>8 DEF RequestEntry, InitializeEntry, Removes
<1>10. ResultSound(task'[t]) /\ ~InFlight(t)'
  BY <1>4 DEF ResultSound, InFlight
<1>11. task'[t].n \in Nat /\ task[t].n <= task'[t].n
  BY <1>4, <1>5
<1>12. \A p \in pend' \ pend : p = new
  BY <1>6
<1> QED
  BY <1>1, <1>2, <1>3, <1>4, <1>6, <1>8, <1>9, <1>10, <1>11, <1>12, TrackedStays

LEMMA ReserveStays ==
  ASSUME Sound, Tracked, NEW t \in Tasks, Reserve(t)
  PROVE  Tracked'
<1>1. task[t].pc = "reserve" /\ task[t].result = "none" /\ task[t].pc \notin Claimless
  BY DEF Reserve, At, Tracked, ResultSound, Claimless
<1>2. OneTask(t) /\ Alone(t)
  BY ReserveOneTask, OneIsAlone
<1>3. remote.live \subseteq remote'.live /\ pend' \subseteq Entries /\ UNCHANGED worker
  BY TaskStepIsQuiet, QuietKeepsLive, EntriesTyped DEF TaskStep, ControlNext, Reserve
<1>4. \A p \in pend : p.id.by = t => p.init /\ p.epoch \in remote.live
  BY <1>1, NoClaims
<1>5. CASE End(t, "failed") /\ UNCHANGED pend
  BY <1>1, <1>3, <1>5, EndIsOnward, ClaimlessStays
<1>6. ASSUME NEW e, NEW s,
             pend' = pend \cup {[key |-> task[t].key, id |-> NextId(t), epoch |-> e, init |-> FALSE]},
             task' = [task EXCEPT ![t].pc = "send", ![t].n = @ + 1, ![t].epoch = e, ![t].stream = s]
      PROVE  Tracked'
  <2> DEFINE new == [key |-> task[t].key, id |-> NextId(t), epoch |-> e, init |-> FALSE]
  <2>1. /\ task'[t].pc = "send" /\ task'[t].result = "none" /\ task'[t].n = task[t].n + 1
        /\ task'[t].key = task[t].key
    BY <1>1, <1>6, TaskFacts DEF TaskType
  <2>2. task[t].n \in Nat
    BY TaskFacts DEF TaskType
  <2>3. pend' = pend \cup {new}
    BY <1>6
  <2>4. new.id = NextId(t) /\ new.id.n = task[t].n + 1 /\ ~new.init /\ new.key = task[t].key
    BY DEF NextId
  <2> HIDE DEF new
  <2>5. \A p \in pend' : p.id.by = t =>
               RequestEntry(p, task'[t]) /\ InitializeEntry(p, task'[t], remote')
    BY <1>3, <1>4, <2>1, <2>3, <2>4 DEF RequestEntry, InitializeEntry, Removes
  <2>6. ResultSound(task'[t])
    BY <2>1 DEF ResultSound
  <2>7. task'[t].n \in Nat /\ task[t].n <= task'[t].n
    BY <2>1, <2>2
  <2>8. \A p \in pend' \ pend : p = new
    BY <2>3
  <2>9. CurrentId(t)' = new.id
    BY <2>1, <2>4 DEF CurrentId, NextId
  <2>10. \E p \in pend' : p.id = CurrentId(t)' /\ ~p.init
    BY <2>3, <2>4, <2>9
  <2>11. \A p \in pend' \ pend : /\ p.id = NextId(t) /\ task'[t].n = task[t].n + 1
                                 /\ task[t].pc \notin {"done", "ping"}
                                 /\ task'[t].pc \notin {"done", "ping"}
    BY <1>1, <2>1, <2>4, <2>8
  <2>12. \A p, q \in pend' \ pend : p = q
    BY <2>8
  <2>13. \A p \in pend \ pend' : p.id.by = t
    BY <2>3
  <2> QED
    BY <1>2, <1>3, <2>5, <2>6, <2>7, <2>10, <2>11, <2>12, <2>13, TrackedStays
<1> QED
  BY <1>5, <1>6 DEF Reserve

\* what the task filed goes with it, unless its client has moved
LEMMA ForgetStays ==
  ASSUME Sound, Tracked, NEW t \in Tasks, NEW k,
         \/ task[t].pc = "initsend" /\ k = task[t].ikey
         \/ task[t].pc \in {"send", "wait"} /\ k = task[t].key,
         pend' = pend \ PendingAt(k, CurrentId(t)), End(t, "failed"),
         UNCHANGED worker, remote.live \subseteq remote'.live
  PROVE  Tracked'
<1>1. Alone(t) /\ task'[t] = Ended("failed")
  BY EndIsOnward
<1>2. task'[t].pc = "done" /\ task'[t].result = "failed"
  BY <1>1 DEF Ended, IdleTask
<1>3. pend' \subseteq Entries /\ pend' \subseteq pend
  BY DEF Sound, OthersTyped
<1>4. \A p \in pend \ pend' : p.id.by = t
  BY DEF PendingAt, CurrentId
<1>5. ASSUME NEW p \in pend', p.id.by = t
      PROVE  RequestEntry(p, task'[t]) /\ InitializeEntry(p, task'[t], remote')
  <2>1. /\ p.id = [by |-> t, n |-> p.id.n] /\ p.init \in BOOLEAN
        /\ RequestEntry(p, task[t]) /\ InitializeEntry(p, task[t], remote)
        /\ Leaves(task[t], p) => task[t].pc \in {"done", "ping"}
    BY <1>3, <1>5, EntryFacts
  <2>2. p.key = k => p.id.n # task[t].n
    BY <1>5, <2>1 DEF PendingAt, CurrentId
  <2>3. p.key \in MovedKeys => Leaves(task'[t], p)
    BY <1>2 DEF Leaves
  <2> QED
    BY <2>1, <2>2, <2>3 DEF RequestEntry, InitializeEntry, Removes
<1>6. ResultSound(task'[t]) /\ ~InFlight(t)'
  BY <1>2 DEF ResultSound, InFlight
<1> QED
  BY <1>1, <1>2, <1>3, <1>4, <1>5, <1>6, TrackedStays

LEMMA InitSendStays ==
  ASSUME Sound, Tracked, NEW t \in Tasks, InitSend(t) \/ InitSendFailed(t)
  PROVE  Tracked'
<1>1. task[t].pc = "initsend" /\ task[t].result = "none"
  BY DEF InitSend, InitSendFailed, At, Tracked, ResultSound
<1>2. remote.live \subseteq remote'.live
  BY TaskStepIsQuiet, QuietKeepsLive DEF TaskStep
<1>3. CASE InitSend(t)
  <2>1. task[t].epoch \in remote.live /\ InitStepDone(t) /\ UNCHANGED <<pend, worker>>
    BY <1>3, SoundFacts DEF InitSend, SendOk
  <2>2. Onward(t) /\ Alone(t)
    BY <1>1, <2>1, InitStepDoneIsOnward
  <2>3. ASSUME NEW p \in pend, p.id.by = t PROVE p.init /\ p.epoch \in remote.live
    BY <1>1, <2>1, <2>3, EntryFacts DEF RequestEntry, InitializeEntry
  <2> QED
    BY <1>2, <2>1, <2>2, <2>3, OnwardStays
<1>4. CASE InitSendFailed(t)
  BY <1>1, <1>2, <1>4, ForgetStays DEF InitSendFailed
<1> QED
  BY <1>3, <1>4

LEMMA SendStays ==
  ASSUME Sound, Tracked, NEW t \in Tasks, Send(t)
  PROVE  Tracked'
<1>1. task[t].pc = "send" /\ UNCHANGED <<remote, pend, worker>>
  BY DEF Send, At
<1>2. /\ task'[t].pc = "wait" /\ task'[t].result = task[t].result /\ task'[t].n = task[t].n
      /\ task'[t].key = task[t].key
  BY TaskFacts DEF Send, TaskType
<1>3. Alone(t) /\ pend \subseteq Entries /\ task[t].n \in Nat
  BY <1>1, TaskFacts DEF Send, Alone, Sound, OthersTyped, TaskType
<1>4. ASSUME NEW p \in pend, p.id.by = t
      PROVE  RequestEntry(p, task'[t]) /\ InitializeEntry(p, task'[t], remote')
  <2>1. /\ RequestEntry(p, task[t]) /\ InitializeEntry(p, task[t], remote)
        /\ Leaves(task[t], p) => task[t].pc \in {"done", "ping"}
    BY <1>4, EntryFacts
  <2> QED
    BY <1>1, <1>2, <2>1 DEF RequestEntry, InitializeEntry, Removes
<1>5. ResultSound(task'[t])
  BY <1>1, <1>2 DEF ResultSound, Tracked
<1>6. t \in Callers \cup Slots /\ InFlight(t)' =>
             \/ \E p \in pend' : p.id = CurrentId(t)' /\ ~p.init
             \/ \E e \in Epochs : worker[e].pc = "answer" /\ worker[e].id = CurrentId(t)'
  BY <1>1, <1>2 DEF InFlight, CurrentId, Tracked, RequestNotLost
<1> QED
  BY <1>1, <1>2, <1>3, <1>4, <1>5, <1>6, TrackedStays

LEMMA GiveUpStays ==
  ASSUME Sound, Tracked, NEW t \in Tasks, GiveUp(t)
  PROVE  Tracked'
<1>1. task[t].pc \in {"send", "wait"}
  BY DEF GiveUp, At
<1>2. remote.live \subseteq remote'.live
  BY TaskStepIsQuiet, QuietKeepsLive DEF TaskStep
<1> QED
  BY <1>1, <1>2, ForgetStays DEF GiveUp

\* a request that was answered or refused has left the pending maps
LEMMA ReceiveStays ==
  ASSUME Sound, Tracked, NEW t \in Tasks, Receive(t) \/ Retry(t)
  PROVE  Tracked'
<1>1. task[t].pc = "wait" /\ task[t].result # "none" /\ UNCHANGED <<remote, pend, worker>>
  BY DEF Receive, Retry, MayRetry, At
<1>2. ASSUME NEW p \in pend, p.id.by = t PROVE p.init /\ p.epoch \in remote.live
  BY <1>1, <1>2, EntryFacts DEF RequestEntry, InitializeEntry
<1>3. Onward(t) /\ Alone(t)
  <2>1. CASE Receive(t)
    BY <2>1, EndIsOnward DEF Receive
  <2>2. CASE Retry(t)
    BY <1>1, <2>2, TaskFacts DEF Retry, Onward, Alone, TaskType
  <2> QED
    BY <2>1, <2>2
<1> QED
  BY <1>1, <1>2, <1>3, OnwardStays

LEMMA CancelStays ==
  ASSUME Sound, Tracked, NEW c \in Callers, Cancel(c)
  PROVE  Tracked'
<1>1. c \in Tasks /\ UNCHANGED <<remote, pend, worker>> /\ pend \subseteq Entries
  BY DEF Cancel, Tasks, Sound, OthersTyped
<1>2. Alone(c) /\ task'[c].pc = "done" /\ task'[c].result = "cancelled"
  <2>1. Alone(c) /\ task'[c] = Ended("cancelled")
    BY <1>1, EndIsOnward DEF Cancel
  <2>2. Ended("cancelled").pc = "done" /\ Ended("cancelled").result = "cancelled"
    BY DEF Ended, IdleTask
  <2> QED
    BY <2>1, <2>2
<1>3. \A p \in pend : RequestEntry(p, task'[c]) /\ InitializeEntry(p, task'[c], remote')
  BY <1>2 DEF RequestEntry, InitializeEntry, Leaves
<1>4. ResultSound(task'[c]) /\ ~InFlight(c)'
  BY <1>2 DEF ResultSound, InFlight
<1> QED
  BY <1>1, <1>2, <1>3, <1>4, TrackedStays

LEMMA RequestsStay ==
  ASSUME Sound, Tracked, NEW t \in Tasks, TaskStep(t)
  PROVE  Tracked'
BY WaitingStays, ResolvingStays, InitReserveStays, InitSendStays, ReserveStays, SendStays,
   GiveUpStays, ReceiveStays DEF TaskStep

-----------------------------------------------------------------------------
(* The steps of a recovery, of a socket and of an app-server.               *)

LEMMA RecoveryGoesOn ==
  ASSUME Sound, Tracked, NEW x \in Slots,
         \/ RecoveryReset(x) /\ Goto(x, "recinit") /\ UNCHANGED <<remote, pend>>
         \/ RecoveryFinish(x) \/ RecoveryResubscribe(x) \/ RecoveryForce(x)
  PROVE  Tracked'
<1>1. x \in Tasks /\ task[x].pc \in {"reset", "finish", "resub", "force"}
  BY DEF RecoveryReset, RecoveryFinish, RecoveryResubscribe, RecoveryForce, At, Tasks
<1>2. task[x].result = "none" /\ task[x].pc \notin Claimless
  BY <1>1 DEF Tracked, ResultSound, Claimless
<1>3. Onward(x) /\ Alone(x)
  <2>1. CASE \E result : End(x, result)
    BY <1>1, <2>1, EndIsOnward
  <2>2. CASE Goto(x, "recinit") \/ Goto(x, "resub")
    BY <1>1, <1>2, <2>2, GotoIsOnward
  <2>3. CASE task' = [task EXCEPT ![x].pc = "resolve", ![x].second = TRUE]
    BY <1>1, <1>2, <2>3, TaskFacts DEF Onward, Alone, TaskType
  <2> QED
    BY <2>1, <2>2, <2>3 DEF RecoveryFinish, RecoveryResubscribe, RecoveryForce
<1>4. remote.live \subseteq remote'.live
  BY RecoveryStepIsQuiet, QuietKeepsLive DEF RecoveryStep
<1>5. UNCHANGED <<pend, worker>>
  BY DEF RecoveryReset, RecoveryFinish, RecoveryResubscribe, RecoveryForce
<1> QED
  BY <1>1, <1>2, <1>3, <1>4, <1>5, ClaimlessStays

LEMMA TakePongStays ==
  ASSUME Sound, Tracked, NEW e \in Epochs, TakePong(e), task' # task
  PROVE  Tracked'
<1>1. PICK x \in Slots, k \in LookedUp(Head(queue[e]).stream) :
          At(x, "idle") /\ task' = [task EXCEPT ![x].pc = "reset", ![x].key = k, ![x].epoch = e]
  BY DEF TakePong
<1>2. x \in Tasks /\ task[x].pc = "idle" /\ task[x].pc \notin Claimless /\ task[x].result = "none"
  BY <1>1 DEF Tracked, ResultSound, Claimless, At, Tasks
<1>3. Onward(x) /\ Alone(x)
  BY <1>1, <1>2, TaskFacts DEF Onward, Alone, TaskType
<1>4. remote.live \subseteq remote'.live
  BY WorkerStepIsQuiet, QuietKeepsLive DEF WorkerStep
<1>5. UNCHANGED <<pend, worker>>
  BY DEF TakePong
<1> QED
  BY <1>2, <1>3, <1>4, <1>5, ClaimlessStays

LEMMA PingsStay ==
  ASSUME Sound, Tracked, NEW e \in Epochs, AppPingTarget(e) \/ AppPingMark(e)
  PROVE  Tracked'
<1>1. e \in Tasks /\ task[e].pc \in {"done", "ping"} /\ UNCHANGED <<pend, worker>>
  BY DEF AppPingTarget, AppPingMark, Running, At, Tasks
<1>2. Onward(e) /\ Alone(e)
  <2>1. CASE AppPingTarget(e)
    BY <1>1, <2>1, TaskFacts DEF AppPingTarget, Onward, Alone, TaskType
  <2>2. CASE AppPingMark(e)
    BY <1>1, <2>2, EndIsOnward DEF AppPingMark
  <2> QED
    BY <2>1, <2>2
<1>3. remote.live \subseteq remote'.live
  <2>1. CASE AppPingTarget(e)
    BY <2>1 DEF AppPingTarget
  <2>2. CASE AppPingMark(e)
    <3>1. task[e].key \in UsableKeys /\ remote.next # 0
      BY <1>1, <2>2, TaskFacts DEF AppPingMark, At, HoldsKeys
    <3> QED
      BY <2>2, <3>1, Sections, QuietKeepsLive DEF AppPingMark, Quiet, UseClient
  <2> QED
    BY <2>1, <2>2
<1> QED
  BY <1>1, <1>2, <1>3, ClaimlessStays

LEMMA OpeningStays ==
  ASSUME Sound, Tracked, SocketOpen
  PROVE  Tracked'
<1> DEFINE e == remote'.next
<1>1. /\ remote.live \subseteq remote'.live /\ e = remote.next + 1 /\ e \in remote'.live
      /\ remote' \in RemoteType
  BY SoundFacts, OpenStays DEF SocketOpen, Open, Stays, Kept, Good
<1>2. e \in Epochs /\ e \in Tasks /\ e > remote.next
  BY <1>1, SoundFacts DEF Tasks, RemoteType
<1>3. OpensItself(e, task[e], remote, up)
  BY <1>2, TaskFacts
<1>4. task[e] = IdleTask
  BY <1>2, <1>3 DEF OpensItself
<1>5. task[e].pc = "idle" /\ task[e].n = 0 /\ task[e].pc \notin Claimless
  BY <1>4 DEF IdleTask, Claimless
<1>6. UNCHANGED <<pend, worker>>
  BY DEF SocketOpen
<1>7. task' = [task EXCEPT ![e] = [IdleTask EXCEPT !.pc = "ensure", !.key = remote'.dkey[e],
                                                   !.epoch = e]]
  BY DEF SocketOpen
<1> HIDE DEF e
<1>8. Onward(e) /\ Alone(e)
  BY <1>2, <1>5, <1>7, TaskFacts DEF Onward, Alone, IdleTask
<1> QED
  BY <1>1, <1>2, <1>5, <1>6, <1>8, ClaimlessStays

\* no entry is filed, and no answer is taken
LEMMA EachStays ==
  ASSUME Sound, Tracked, pend' \subseteq pend,
         \A t \in Tasks : /\ ResultSound(task'[t]) /\ task'[t].n = task[t].n
                          /\ task[t].pc \in {"done", "ping"} => task'[t].pc \in {"done", "ping"},
         \A p \in pend' : /\ RequestEntry(p, task'[p.id.by])
                          /\ InitializeEntry(p, task'[p.id.by], remote'),
         \A e \in Epochs : worker'[e].pc = "answer" =>
                             worker[e].pc = "answer" /\ worker'[e].id = worker[e].id,
         RequestNotLost'
  PROVE  Tracked'
<1>1. \A id \in Ids : Drawn(id) => Drawn(id)'
  BY DEF Ids, Drawn
<1>2. IdsAreUnique'
  BY DEF Tracked, IdsAreUnique
<1>3. \A p \in pend : p.id \in Ids
  BY DEF Sound, OthersTyped, Entries
<1>4. EntriesSound'
  BY <1>1, <1>3 DEF Tracked, EntriesSound
<1>5. AnswersSound'
  <2> SUFFICES ASSUME NEW e \in Epochs, worker'[e].pc = "answer"
               PROVE  /\ worker'[e].id \in Ids /\ Drawn(worker[e].id)'
                      /\ \A p \in pend' : p.id # worker'[e].id
    BY DEF AnswersSound, Drawn
  <2>1. worker[e].id \in Ids /\ Drawn(worker[e].id) /\ \A p \in pend : p.id # worker[e].id
    BY DEF Tracked, AnswersSound
  <2> QED
    BY <1>1, <2>1 DEF Drawn
<1> QED
  BY <1>2, <1>4, <1>5 DEF Tracked

SameAnswers == \A e \in Epochs : /\ (worker'[e].pc = "answer") <=> (worker[e].pc = "answer")
                                 /\ worker[e].pc = "answer" => worker'[e].id = worker[e].id

LEMMA StillStays ==
  ASSUME Sound, Tracked, UNCHANGED <<pend, task>>, SameAnswers,
         remote.live \subseteq remote'.live
  PROVE  Tracked'
<1>1. \A p \in pend : /\ RequestEntry(p, task[p.id.by])
                      /\ InitializeEntry(p, task[p.id.by], remote')
  BY DEF Tracked, EntriesSound, InitializeEntry
<1>2. RequestNotLost'
  BY DEF Tracked, RequestNotLost, InFlight, CurrentId, SameAnswers
<1>3. \A t \in Tasks : ResultSound(task[t])
  BY DEF Tracked
<1> QED
  BY <1>1, <1>2, <1>3, EachStays DEF SameAnswers

LEMMA CleanupStays ==
  ASSUME Sound, Tracked, NEW e \in Epochs, SocketCleanup(e)
  PROVE  Tracked'
<1>1. /\ e \in remote.live /\ pend' = {p \in pend : ~(p.init /\ p.epoch = e)}
      /\ UNCHANGED <<task, worker>>
  BY DEF SocketCleanup
<1>2. remote'.live = remote.live \ {e}
  BY <1>1, SoundFacts, CloseKept DEF SocketCleanup
<1>3. \A p \in pend' : /\ RequestEntry(p, task[p.id.by])
                       /\ InitializeEntry(p, task[p.id.by], remote')
  BY <1>1, <1>2 DEF Tracked, EntriesSound, InitializeEntry
<1>4. RequestNotLost'
  BY <1>1 DEF Tracked, RequestNotLost, InFlight, CurrentId
<1>5. \A t \in Tasks : ResultSound(task[t])
  BY DEF Tracked
<1> QED
  BY <1>1, <1>3, <1>4, <1>5, EachStays

LEMMA SocketsStay ==
  ASSUME Sound, Tracked, NEW e \in Epochs, SocketLost(e) \/ SocketFrame(e) \/ AppStep(e)
  PROVE  Tracked'
<1>1. UNCHANGED <<pend, task, worker>>
  BY DEF SocketLost, SocketFrame, AppStep, AppAnswer, AppForget, AppPongUnknown
<1>2. SameAnswers
  BY <1>1 DEF SameAnswers
<1>3. CASE SocketLost(e)
  BY <1>1, <1>2, <1>3, StillStays DEF SocketLost
<1>4. CASE SocketFrame(e) \/ AppStep(e)
  <2>1. Quiet
    BY <1>4, AppStepIsQuiet, Sections DEF SocketFrame, Quiet
  <2> QED
    BY <1>1, <1>2, <2>1, QuietKeepsLive, StillStays
<1> QED
  BY <1>3, <1>4

-----------------------------------------------------------------------------
(* The steps of a worker, and the reset of a client.                        *)

\* what Answered does to a task
LEMMA AnsweredTask ==
  ASSUME Sound, Tracked, NEW ids, NEW result \in {"answered", "closed", "reinit"}, NEW t \in Tasks
  PROVE  LET v == Answered(ids, result)[t]
         IN  /\ ResultSound(v) /\ v.n = task[t].n /\ v.pc = task[t].pc /\ v.key = task[t].key
             /\ v.ikey = task[t].ikey /\ v.epoch = task[t].epoch
             /\ \/ v = task[t] /\ ~(CurrentId(t) \in ids /\ InFlight(t))
                \/ v.result # "none" /\ CurrentId(t) \in ids /\ InFlight(t)
<1> DEFINE v == Answered(ids, result)[t]
           w == [task[t] EXCEPT !.result = result]
<1>1. task[t] \in TaskType /\ ResultSound(task[t])
  BY TaskFacts DEF Tracked
<1>2. CASE CurrentId(t) \in ids /\ InFlight(t)
  <2>1. v = w
    BY <1>2 DEF Answered, InFlight
  <2>2. /\ w.result = result /\ w.n = task[t].n /\ w.pc = task[t].pc /\ w.key = task[t].key
        /\ w.ikey = task[t].ikey /\ w.epoch = task[t].epoch
    BY <1>1 DEF TaskType
  <2> HIDE DEF w, v
  <2>3. ResultSound(w)
    BY <1>2, <2>2 DEF ResultSound, InFlight
  <2> QED
    BY <1>2, <2>1, <2>2, <2>3 DEF v
<1>3. CASE ~(CurrentId(t) \in ids /\ InFlight(t))
  <2>1. v = task[t]
    BY <1>3 DEF Answered, InFlight
  <2> HIDE DEF v
  <2> QED
    BY <1>1, <1>3, <2>1 DEF v
<1> QED
  BY <1>2, <1>3

\* an entry outlives the answer to others
LEMMA AnsweredEntry ==
  ASSUME Sound, Tracked, NEW ids, NEW result \in {"answered", "closed", "reinit"},
         NEW p \in pend, p.id \notin ids \/ p.init
  PROVE  LET v == Answered(ids, result)[p.id.by]
         IN  RequestEntry(p, v) /\ InitializeEntry(p, v, remote)
<1> DEFINE t == p.id.by
           v == Answered(ids, result)[t]
<1>1. /\ t \in Tasks /\ p.id = [by |-> t, n |-> p.id.n]
      /\ RequestEntry(p, task[t]) /\ InitializeEntry(p, task[t], remote)
      /\ Leaves(task[t], p) => task[t].pc \in {"done", "ping"}
  BY EntryFacts
<1>2. /\ \/ v = task[t] /\ ~(CurrentId(t) \in ids /\ InFlight(t))
         \/ v.result # "none" /\ CurrentId(t) \in ids /\ InFlight(t)
  BY <1>1, AnsweredTask
<1> HIDE DEF v
<1>3. CASE v = task[t]
  BY <1>1, <1>3 DEF v
<1>4. CASE CurrentId(t) \in ids /\ InFlight(t)
  <2>1. p.id.n = task[t].n => p.id = CurrentId(t)
    BY <1>1 DEF CurrentId
  <2> QED
    BY <1>1, <1>4, <2>1 DEF RequestEntry, InitializeEntry, Removes, InFlight, v
<1> QED
  BY <1>2, <1>3, <1>4

LEMMA AnsweringStays ==
  ASSUME Sound, Tracked, NEW e \in Epochs, worker[e].pc = "answer",
         NEW result \in {"answered", "closed"}, task' = Answered({worker[e].id}, result),
         worker' = [worker EXCEPT ![e] = IdleWorker], UNCHANGED <<remote, pend>>
  PROVE  Tracked'
<1> DEFINE ids == {worker[e].id}
<1>1. worker \in [Epochs -> WorkerType] /\ IdleWorker.pc = "idle"
  BY DEF Sound, WorkersSound, IdleWorker
<1>2. \A p \in pend : p.id \notin ids /\ p.id.by \in Tasks
  BY EntryFacts DEF Tracked, AnswersSound
<1>3. \A p \in pend' : /\ RequestEntry(p, task'[p.id.by])
                       /\ InitializeEntry(p, task'[p.id.by], remote')
  BY <1>2, AnsweredEntry
<1>4. \A t \in Tasks : /\ ResultSound(task'[t]) /\ task'[t].n = task[t].n /\ task'[t].pc = task[t].pc
                       /\ \/ task'[t] = task[t] /\ ~(CurrentId(t) \in ids /\ InFlight(t))
                          \/ task'[t].result # "none"
  BY AnsweredTask
<1> HIDE DEF ids
<1>5. RequestNotLost'
  <2> SUFFICES ASSUME NEW t \in Callers \cup Slots, InFlight(t)'
               PROVE  \/ \E p \in pend' : p.id = CurrentId(t)' /\ ~p.init
                      \/ \E f \in Epochs : worker'[f].pc = "answer" /\ worker'[f].id = CurrentId(t)'
    BY DEF RequestNotLost
  <2>1. t \in Tasks /\ task'[t] = task[t] /\ InFlight(t) /\ CurrentId(t) \notin ids
    BY <1>4 DEF Tasks, InFlight
  <2>2. CurrentId(t)' = CurrentId(t)
    BY <2>1 DEF CurrentId
  <2>3. \/ \E p \in pend : p.id = CurrentId(t) /\ ~p.init
        \/ \E f \in Epochs : worker[f].pc = "answer" /\ worker[f].id = CurrentId(t)
    BY <2>1 DEF Tracked, RequestNotLost
  <2> QED
    BY <1>1, <2>1, <2>2, <2>3 DEF ids
<1>6. \A f \in Epochs : worker'[f].pc = "answer" =>
                          worker[f].pc = "answer" /\ worker'[f].id = worker[f].id
  BY <1>1
<1> QED
  BY <1>3, <1>4, <1>5, <1>6, EachStays

LEMMA AbortStays ==
  ASSUME Sound, Tracked, NEW e \in Epochs, WorkerAbort(e) \/ WorkerAnswer(e)
  PROVE  Tracked'
<1>1. worker' = [worker EXCEPT ![e] = IdleWorker] /\ UNCHANGED <<remote, pend>>
  BY DEF WorkerAbort, WorkerAnswer
<1>2. CASE worker[e].pc = "answer"
  BY <1>1, <1>2, AnsweringStays DEF WorkerAbort, WorkerAnswer
<1>3. CASE worker[e].pc # "answer"
  <2>1. UNCHANGED task
    BY <1>3 DEF WorkerAbort, WorkerAnswer
  <2>2. worker \in [Epochs -> WorkerType] /\ IdleWorker.pc = "idle"
    BY DEF Sound, WorkersSound, IdleWorker
  <2>3. SameAnswers
    BY <1>1, <1>3, <2>2 DEF SameAnswers
  <2> QED
    BY <1>1, <2>1, <2>3, StillStays
<1> QED
  BY <1>2, <1>3

LEMMA ReplayStays ==
  ASSUME Sound, Tracked, NEW e \in Epochs,
         \/ WorkerInitialized(e) \/ WorkerSnapshot(e) \/ WorkerReplay(e)
         \/ TakePong(e) /\ UNCHANGED task
  PROVE  Tracked'
<1>1. worker \in [Epochs -> WorkerType] /\ IdleWorker.pc = "idle" /\ worker[e] \in WorkerType
  BY DEF Sound, WorkersSound, IdleWorker
<1>2. UNCHANGED <<pend, task>>
  BY DEF WorkerInitialized, WorkerSnapshot, WorkerReplay, TakePong
<1>3. remote.live \subseteq remote'.live
  BY WorkerStepIsQuiet, QuietKeepsLive DEF WorkerStep
<1>4. SameAnswers
  <2>1. ASSUME worker[e].pc # "answer", NEW w, worker' = [worker EXCEPT ![e] = w], w.pc # "answer"
        PROVE  SameAnswers
    BY <1>1, <2>1 DEF SameAnswers
  <2>2. CASE WorkerInitialized(e)
    <3> DEFINE w == [worker[e] EXCEPT !.pc = "snapshot"]
    <3>1. worker[e].pc # "answer" /\ w.pc # "answer"
      BY <1>1, <2>2 DEF WorkerInitialized, WorkerType
    <3>2. worker' = [worker EXCEPT ![e] = IdleWorker] \/ worker' = [worker EXCEPT ![e] = w]
      BY <2>2 DEF WorkerInitialized
    <3> HIDE DEF w
    <3> QED
      BY <1>1, <2>1, <3>1, <3>2
  <2>3. CASE WorkerSnapshot(e)
    <3> DEFINE ids == ToReplay(e, worker[e].key)
               s == remote.cstream[worker[e].key]
               w == [worker[e] EXCEPT !.pc = "replay", !.todo = ids, !.stream = s]
    <3>1. worker[e].pc # "answer" /\ w.pc # "answer"
      BY <1>1, <2>3 DEF WorkerSnapshot, WorkerType
    <3>2. worker' = [worker EXCEPT ![e] = IdleWorker] \/ worker' = [worker EXCEPT ![e] = w]
      <4>1. CASE ids = {}
        BY <2>3, <4>1 DEF WorkerSnapshot
      <4>2. CASE ids # {}
        BY <2>3, <4>2 DEF WorkerSnapshot
      <4> QED
        BY <4>1, <4>2
    <3> HIDE DEF w
    <3> QED
      BY <1>1, <2>1, <3>1, <3>2
  <2>4. CASE WorkerReplay(e)
    <3>1. worker[e].pc = "replay"
      BY <2>4 DEF WorkerReplay
    <3>2. \/ worker' = [worker EXCEPT ![e] = IdleWorker]
          \/ \E id : worker' = [worker EXCEPT ![e].todo = @ \ {id}]
      BY <2>4 DEF WorkerReplay
    <3>3. ASSUME NEW id, worker' = [worker EXCEPT ![e].todo = @ \ {id}] PROVE SameAnswers
      <4> DEFINE w == [worker[e] EXCEPT !.todo = worker[e].todo \ {id}]
      <4>1. w.pc = worker[e].pc /\ worker' = [worker EXCEPT ![e] = w]
        BY <1>1, <3>3 DEF WorkerType
      <4> HIDE DEF w
      <4> QED
        BY <2>1, <3>1, <4>1
    <3> QED
      BY <1>1, <2>1, <3>1, <3>2, <3>3
  <2>5. CASE TakePong(e)
    BY <2>5 DEF TakePong, SameAnswers
  <2> QED
    BY <2>2, <2>3, <2>4, <2>5
<1> QED
  BY <1>2, <1>3, <1>4, StillStays

LEMMA TakeAnswerStays ==
  ASSUME Sound, Tracked, NEW e \in Epochs, TakeAnswer(e)
  PROVE  Tracked'
<1> DEFINE item == Head(queue[e])
<1>1. worker \in [Epochs -> WorkerType] /\ IdleWorker.pc = "idle" /\ worker[e].pc = "idle"
  BY DEF Sound, WorkersSound, IdleWorker, TakeAnswer
<1>2. UNCHANGED task /\ remote.live \subseteq remote'.live
  BY WorkerStepIsQuiet, QuietKeepsLive DEF WorkerStep, TakeAnswer
<1> PICK k \in LookedUp(item.stream), refused \in BOOLEAN :
              /\ pend' = pend \ PendingAt(k, item.id)
              /\ worker' = [worker EXCEPT ![e] =
                       IF PendingAt(k, item.id) = {} \/ ((\E p \in PendingAt(k, item.id) : p.init) /\ refused)
                       THEN IdleWorker
                       ELSE IF \E p \in PendingAt(k, item.id) : p.init
                       THEN [IdleWorker EXCEPT !.pc = "flags", !.key = k, !.ua = item.ua,
                                               !.stream = item.stream]
                       ELSE [IdleWorker EXCEPT !.pc = "answer", !.id = item.id]]
  BY DEF TakeAnswer
<1> DEFINE i == item.id
           hits == PendingAt(k, i)
           wf == [IdleWorker EXCEPT !.pc = "flags", !.key = k, !.ua = item.ua,
                                    !.stream = item.stream]
           wa == [IdleWorker EXCEPT !.pc = "answer", !.id = i]
<1>3. wf.pc = "flags" /\ wa.pc = "answer" /\ wa.id = i
  BY DEF IdleWorker
<1>4. /\ hits = {} => worker' = [worker EXCEPT ![e] = IdleWorker]
      /\ hits # {} /\ (\E p \in hits : p.init) =>
            worker' = [worker EXCEPT ![e] = IF refused THEN IdleWorker ELSE wf]
      /\ hits # {} /\ ~(\E p \in hits : p.init) => worker' = [worker EXCEPT ![e] = wa]
  OBVIOUS
<1>5. \A p \in hits : p \in pend /\ p.id = i
  BY DEF PendingAt
<1>6. pend' = pend \ hits
  OBVIOUS
<1> HIDE DEF item, i, hits, wf, wa
<1>7. \A p \in pend, q \in hits : p.id = i => p = q
  BY <1>5 DEF Tracked, IdsAreUnique
<1>8. \A p \in pend' : /\ RequestEntry(p, task[p.id.by])
                       /\ InitializeEntry(p, task[p.id.by], remote')
  BY <1>2, <1>6 DEF Tracked, EntriesSound, InitializeEntry
<1>9. \A t \in Tasks : ResultSound(task[t])
  BY DEF Tracked
<1>10. ASSUME NEW w, w.pc # "answer", worker' = [worker EXCEPT ![e] = w], \A p \in hits : p.init
       PROVE  Tracked'
  <2>1. SameAnswers
    BY <1>1, <1>10 DEF SameAnswers
  <2>2. RequestNotLost'
    BY <1>2, <1>6, <1>10, <2>1 DEF Tracked, RequestNotLost, InFlight, CurrentId, SameAnswers
  <2> QED
    BY <1>2, <1>6, <1>8, <1>9, <2>1, <2>2, EachStays DEF SameAnswers
<1>11. CASE hits = {} \/ \E p \in hits : p.init
  <2>1. \A p \in hits : p.init
    BY <1>5, <1>7, <1>11
  <2> QED
    BY <1>1, <1>3, <1>4, <1>10, <1>11, <2>1
<1>12. CASE hits # {} /\ ~\E p \in hits : p.init
  <2>1. worker'[e].pc = "answer" /\ worker'[e].id = i
        /\ \A f \in Epochs \ {e} : worker'[f] = worker[f]
    BY <1>1, <1>3, <1>4, <1>12
  <2>2. i \in Ids /\ Drawn(i)
    BY <1>5, <1>12, EntryFacts
  <2>3. AnswersSound'
    <3>1. \A f \in Epochs : worker'[f].pc = "answer" =>
              worker'[f].id \in Ids /\ Drawn(worker'[f].id) /\ \A p \in pend' : p.id # worker'[f].id
      BY <1>6, <1>7, <1>12, <2>1, <2>2 DEF Tracked, AnswersSound
    <3> QED
      BY <1>2, <3>1 DEF AnswersSound, Drawn
  <2>4. EntriesSound'
    BY <1>2, <1>6, <1>8 DEF Tracked, EntriesSound, Drawn
  <2>5. RequestNotLost'
    BY <1>1, <1>2, <1>5, <1>6, <2>1 DEF Tracked, RequestNotLost, InFlight, CurrentId
  <2>6. IdsAreUnique'
    BY <1>6 DEF Tracked, IdsAreUnique
  <2> QED
    BY <1>2, <1>9, <2>3, <2>4, <2>5, <2>6 DEF Tracked
<1> QED
  BY <1>11, <1>12

\* the client of a default key moves only from "unknown" to a kind
LEMMA MovesToKind ==
  ASSUME Sound, NEW e \in Epochs, worker[e].pc = "flags",
         NEW k, k = ResultKey(remote, e, worker[e].key, worker[e].stream, worker[e].ua)
  PROVE  k = worker[e].key \/ k \in MovedKeys
<1> DEFINE j == worker[e].key
           kind == ResultKind(remote, e, worker[e].ua)
<1> SUFFICES ASSUME k # j PROVE k \in MovedKeys
  OBVIOUS
<1>1. j \in UsableKeys /\ worker[e].ua \in OpenKinds
  BY DEF Sound, WorkersSound, WorkerSound
<1>2. kind \in OpenKinds
  BY <1>1, ResultKindIsOpen, SoundFacts
<1>3. k = kind /\ CanMigrate(remote, e, j, kind, worker[e].stream)
  <2>1. j # NoKey
    BY <1>1, SoundFacts
  <2> QED
    BY <2>1 DEF ResultKey, MigratedKey
<1>4. e \in remote.live /\ remote.dkey[e] = j /\ kind # "unknown" /\ j # kind
  BY <1>3 DEF CanMigrate, Owners
<1>5. j \in {remote.kind[e], "unknown"}
  BY <1>4, SoundFacts DEF Good, Registered
<1>6. remote.kind[e] # "unknown" => kind = remote.kind[e]
  BY <1>4 DEF ResultKind
<1>7. j = "unknown"
  BY <1>4, <1>5, <1>6
<1>8. "unknown" \in OpenKinds
  BY <1>4, <1>7, SoundFacts DEF Based, Default
<1> QED
  BY <1>2, <1>3, <1>4, <1>8 DEF MovedKeys

LEMMA FlagsStay ==
  ASSUME Sound, Tracked, NEW e \in Epochs, WorkerFlags(e)
  PROVE  Tracked'
<1> DEFINE j == worker[e].key
           k == ResultKey(remote, e, worker[e].key, worker[e].stream, worker[e].ua)
           Moved(p) == IF p.key = j THEN [p EXCEPT !.key = k] ELSE p
<1>1. k = j \/ k \in MovedKeys
  BY MovesToKind DEF WorkerFlags
<1>2. pend' = {Moved(p) : p \in pend} /\ UNCHANGED task
  BY DEF WorkerFlags
<1>3. remote.live \subseteq remote'.live
  BY WorkerStepIsQuiet, QuietKeepsLive DEF WorkerStep
<1>4. SameAnswers
  <2> DEFINE w == [worker[e] EXCEPT !.pc = "initialized", !.key = k]
  <2>1. worker \in [Epochs -> WorkerType] /\ worker[e] \in WorkerType
    BY DEF Sound, WorkersSound
  <2>2. worker[e].pc = "flags" /\ worker' = [worker EXCEPT ![e] = w]
    BY <2>1 DEF WorkerFlags
  <2> HIDE DEF k
  <2>3. w.pc = "initialized"
    BY <2>1 DEF WorkerType
  <2> HIDE DEF w
  <2> QED
    BY <2>1, <2>2, <2>3 DEF SameAnswers
<1> HIDE DEF j, k
<1>5. \A p \in pend : /\ Moved(p).id = p.id /\ Moved(p).init = p.init /\ Moved(p).epoch = p.epoch
                      /\ Moved(p).key = IF p.key = j THEN k ELSE p.key
  BY DEF Sound, OthersTyped, Entries
<1>6. ASSUME NEW p \in pend
      PROVE  /\ RequestEntry(Moved(p), task[p.id.by])
             /\ InitializeEntry(Moved(p), task[p.id.by], remote')
  <2> DEFINE m == Moved(p)
  <2>1. RequestEntry(p, task[p.id.by]) /\ InitializeEntry(p, task[p.id.by], remote)
    BY DEF Tracked, EntriesSound
  <2>2. /\ m.id = p.id /\ m.init = p.init /\ m.epoch = p.epoch
        /\ m.key = p.key \/ m.key \in MovedKeys
    BY <1>1, <1>5
  <2> HIDE DEF m
  <2>3. Leaves(task[p.id.by], p) => Leaves(task[p.id.by], m)
    BY <2>2 DEF Leaves
  <2>4. \A i : Removes(task[p.id.by], p, i) => Removes(task[p.id.by], m, i)
    BY <2>2 DEF Removes
  <2>5. RequestEntry(m, task[p.id.by])
    BY <2>1, <2>2, <2>3, <2>4 DEF RequestEntry
  <2>6. InitializeEntry(m, task[p.id.by], remote')
    BY <1>3, <2>1, <2>2, <2>3, <2>4 DEF InitializeEntry
  <2> QED
    BY <2>5, <2>6 DEF m
<1>7. \A q \in pend' : \E p \in pend : q = Moved(p)
  BY <1>2
<1>8. \A p \in pend : Moved(p) \in pend'
  BY <1>2
<1> HIDE DEF Moved
<1>9. EntriesSound'
  BY <1>2, <1>5, <1>6, <1>7 DEF Tracked, EntriesSound, Drawn
<1>10. IdsAreUnique'
  BY <1>5, <1>7 DEF Tracked, IdsAreUnique
<1>11. AnswersSound'
  <2>1. \A f \in Epochs : worker'[f].pc = "answer" =>
            worker'[f].id \in Ids /\ Drawn(worker'[f].id) /\ \A p \in pend' : p.id # worker'[f].id
    BY <1>4, <1>5, <1>7 DEF Tracked, AnswersSound, SameAnswers
  <2> QED
    BY <1>2, <2>1 DEF AnswersSound, Drawn
<1>12. RequestNotLost'
  BY <1>2, <1>4, <1>5, <1>8 DEF Tracked, RequestNotLost, InFlight, CurrentId, SameAnswers
<1> QED
  BY <1>2, <1>9, <1>10, <1>11, <1>12 DEF Tracked

LEMMA ResetStays ==
  ASSUME Sound, Tracked, NEW x \in Slots, RecoveryReset(x), Exists(remote, task[x].epoch)
  PROVE  Tracked'
<1> DEFINE k == task[x].key
           ids == {p.id : p \in {q \in pend : q.key = k /\ ~q.init}}
           A == Answered(ids, "reinit")
<1>1. /\ task[x].pc = "reset" /\ x \in Tasks /\ UNCHANGED worker
      /\ pend' = {p \in pend : p.key # k}
      /\ task' = [A EXCEPT ![x].pc = "init", ![x].ikey = k]
  BY DEF RecoveryReset, At, Tasks
<1>2. remote.live \subseteq remote'.live
  BY RecoveryStepIsQuiet, QuietKeepsLive DEF RecoveryStep
<1>3. DOMAIN A = Tasks
  BY DEF Answered
<1>4. \A t \in Tasks : /\ ResultSound(A[t]) /\ A[t].n = task[t].n /\ A[t].pc = task[t].pc
                       /\ \/ A[t] = task[t] /\ ~(CurrentId(t) \in ids /\ InFlight(t))
                          \/ A[t].result # "none"
  BY AnsweredTask
<1>5. \A p \in pend' : p.id \notin ids \/ p.init
  BY <1>1 DEF Tracked, IdsAreUnique
<1>6. \A p \in pend' : p \in pend /\ p.id.by \in Tasks
  BY <1>1, EntryFacts
<1>7. \A p \in pend' : RequestEntry(p, A[p.id.by]) /\ InitializeEntry(p, A[p.id.by], remote)
  BY <1>5, <1>6, AnsweredEntry
<1>8. \A p \in pend : p.id.by = x => p.init /\ p.epoch \in remote.live
  BY <1>1, NoClaims DEF Claimless
<1>9. A[x] = task[x] /\ task[x] \in TaskType /\ task[x].result = "none"
  BY <1>1, <1>4, TaskFacts DEF InFlight, Tracked, ResultSound, Answered
<1> HIDE DEF A
<1>10. /\ task'[x].pc = "init" /\ task'[x].n = task[x].n /\ task'[x].result = "none"
       /\ \A t \in Tasks \ {x} : task'[t] = A[t]
  BY <1>1, <1>3, <1>9 DEF TaskType
<1> HIDE DEF ids, k
<1>11. \A p \in pend' : /\ RequestEntry(p, task'[p.id.by])
                        /\ InitializeEntry(p, task'[p.id.by], remote')
  BY <1>2, <1>6, <1>7, <1>8, <1>10 DEF RequestEntry, InitializeEntry
<1>12. \A t \in Tasks : /\ ResultSound(task'[t]) /\ task'[t].n = task[t].n
                        /\ task[t].pc \in {"done", "ping"} => task'[t].pc \in {"done", "ping"}
  <2>1. ResultSound(task'[x])
    BY <1>10 DEF ResultSound
  <2>2. \A t \in Tasks \ {x} : /\ ResultSound(task'[t]) /\ task'[t].n = task[t].n
                              /\ task'[t].pc = task[t].pc
    BY <1>4, <1>10
  <2> QED
    BY <1>1, <1>10, <2>1, <2>2
<1>13. RequestNotLost'
  <2> SUFFICES ASSUME NEW t \in Callers \cup Slots, InFlight(t)'
               PROVE  \/ \E p \in pend' : p.id = CurrentId(t)' /\ ~p.init
                      \/ \E f \in Epochs : worker[f].pc = "answer" /\ worker[f].id = CurrentId(t)'
    BY <1>1 DEF RequestNotLost
  <2>1. t \in Tasks /\ t # x
    BY <1>10 DEF Tasks, InFlight
  <2>2. task'[t] = task[t] /\ InFlight(t) /\ CurrentId(t) \notin ids
    BY <1>4, <1>10, <2>1 DEF InFlight
  <2>3. CurrentId(t)' = CurrentId(t)
    BY <2>2 DEF CurrentId
  <2>4. \/ \E p \in pend : p.id = CurrentId(t) /\ ~p.init
        \/ \E f \in Epochs : worker[f].pc = "answer" /\ worker[f].id = CurrentId(t)
    BY <2>2 DEF Tracked, RequestNotLost
  <2> QED
    BY <1>1, <2>2, <2>3, <2>4 DEF ids
<1> QED
  BY <1>1, <1>6, <1>11, <1>12, <1>13, EachStays

-----------------------------------------------------------------------------
LEMMA InitIsTracked == ControlInit => Tracked
<1> SUFFICES ASSUME ControlInit PROVE Tracked
  OBVIOUS
<1>1. \A t \in Tasks : task[t].pc = "idle" /\ task[t].result = "none"
  BY DEF ControlInit, IdleTask
<1>2. pend = {} /\ \A e \in Epochs : worker[e].pc = "idle"
  BY DEF ControlInit, IdleWorker
<1>3. RequestNotLost
  BY <1>1 DEF RequestNotLost, InFlight, Tasks
<1> QED
  BY <1>1, <1>2, <1>3 DEF Tracked, ResultSound, IdsAreUnique, EntriesSound, AnswersSound

LEMMA TrackedKept ==
  ASSUME Sound, Tracked, [ControlNext]_vars
  PROVE  Tracked'
<1>1. ASSUME NEW e \in Epochs, WorkerStep(e) PROVE Tracked'
  BY <1>1, TakeAnswerStays, TakePongStays, ReplayStays, FlagsStay, AbortStays DEF WorkerStep
<1>2. ASSUME NEW e \in Epochs, SocketStep(e) \/ AppStep(e) PROVE Tracked'
  BY <1>2, SocketsStay, AbortStays, CleanupStays, PingsStay DEF SocketStep
<1>3. ASSUME NEW x \in Slots, RecoveryStep(x) PROVE Tracked'
  <2>1. CASE RecoveryReset(x) /\ ~Exists(remote, task[x].epoch)
    <3>1. Goto(x, "recinit") /\ UNCHANGED <<remote, pend>>
      BY <2>1 DEF RecoveryReset
    <3> QED
      BY <2>1, <3>1, RecoveryGoesOn
  <2>2. CASE RecoveryReset(x) /\ Exists(remote, task[x].epoch)
    BY <2>2, ResetStays
  <2> QED
    BY <1>3, <2>1, <2>2, RecoveryGoesOn DEF RecoveryStep
<1>4. CASE StatusSnapshot
  <2>1. UNCHANGED <<pend, task, worker>> /\ Quiet
    BY <1>4, Sections DEF StatusSnapshot, Quiet
  <2> QED
    BY <2>1, QuietKeepsLive, StillStays DEF SameAnswers
<1>5. CASE UNCHANGED vars
  BY <1>5, StillStays DEF vars, SameAnswers
<1> QED
  BY <1>1, <1>2, <1>3, <1>4, <1>5, RequestsStay, CallersStay, CancelStays, OpeningStays
  DEF ControlNext

LEMMA AlwaysTracked == ControlSpec => [](Sound /\ Tracked)
<1>1. ControlInit => Sound /\ Tracked
  BY InitIsSound, InitIsTracked
<1>2. Sound /\ Tracked /\ [ControlNext]_vars => (Sound /\ Tracked)'
  BY SoundKept, TrackedKept
<1> QED
  BY <1>1, <1>2, PTL DEF ControlSpec

-----------------------------------------------------------------------------
(* The pending maps hold just what somebody waits for: no interleaving of   *)
(* answers, recoveries, moves of a client and lost sockets leaves a caller  *)
(* whose answer nobody can give it any more, or an entry replay_pending_    *)
(* requests would send though nobody waits for it.                          *)
THEOREM TheRequestsAreTracked == ControlSpec => []RequestsAreTracked
<1>1. Sound /\ Tracked => RequestsAreTracked
  <2> SUFFICES ASSUME Sound, Tracked, NEW p \in pend, ~p.init
               PROVE  \/ p.id = CurrentId(p.id.by) /\ task[p.id.by].pc \in {"send", "wait"}
                      \/ task[p.id.by].result = "cancelled" \/ LeftBehind(p)
    BY DEF RequestsAreTracked, NoOrphanRequest, Tracked
  <2>1. RequestEntry(p, task[p.id.by]) /\ p.id = [by |-> p.id.by, n |-> p.id.n]
    BY EntryFacts
  <2> QED
    BY <2>1 DEF RequestEntry, Removes, Leaves, LeftBehind, CurrentId
<1> QED
  BY <1>1, AlwaysTracked, PTL

(* An initialize filed for a connection that is gone is about to be removed *)
(* by the task that filed it, so that ensure_remote_control_client_         *)
(* initialized skips no client because of a leftover.                       *)
THEOREM NoInitializeIsStale == ControlSpec => []NoStaleInitialize
<1>1. Sound /\ Tracked => NoStaleInitialize
  <2> SUFFICES ASSUME Sound, Tracked, NEW p \in pend, p.init, p.epoch \notin remote.live
               PROVE  \/ At(p.id.by, "initsend") /\ p.id = CurrentId(p.id.by)
                      \/ task[p.id.by].result = "cancelled" \/ LeftBehind(p)
    BY DEF NoStaleInitialize
  <2>1. InitializeEntry(p, task[p.id.by], remote) /\ p.id = [by |-> p.id.by, n |-> p.id.n]
    BY EntryFacts
  <2> QED
    BY <2>1 DEF InitializeEntry, Removes, Leaves, LeftBehind, CurrentId, At
<1> QED
  BY <1>1, AlwaysTracked, PTL
=============================================================================
