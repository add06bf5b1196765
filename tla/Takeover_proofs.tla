----------------------------- MODULE Takeover_proofs -----------------------------
(***************************************************************************)
(* Proofs about the takeover of a Codex home and of the extension, for any *)
(* number of ports, logins, versions, faults and acts of the user and the  *)
(* app: what they replace they can give back, and do.                      *)
(***************************************************************************)
EXTENDS Takeover, ExtensionPatch, TLAPS

(***************************************************************************)
(* The takeover of a Codex home (Takeover).                                *)
(***************************************************************************)

Providers == {"none", "user", "gateway"}
Tomls == [is : {"toml"}, base : Ports \cup {"none"}, active : Providers,
          gateway : Ports \cup {"none", "stub"}, provider : BOOLEAN, defaults : BOOLEAN, own : BOOLEAN]
Docs == Tomls \cup {Missing, Zero}
Manifests == [is : {"manifest"}, version : {1, 2}, config : BOOLEAN, auth : BOOLEAN, active : Providers]
Kinds == {"none", "setup", "restore", "launch", "repair", "delete", "websocket"}
Steps == {"idle", "check", "copy", "manifest", "read", "bak", "write", "delete", "auth",
          "caches", "switch", "env", "forget"}
JobRecords ==
  [kind : Kinds, step : Steps,
   doc : Docs, saw : Manifests \cup {None}, how : {"none", "gateway", "provider", "user"}]

Befores == [logins : SUBSET Nat, actives : SUBSET Providers, ports : SUBSET Ports,
            harm : SUBSET {"broken", "swept", "together"}]

TakeoverTypes ==
  /\ port \in Ports /\ events \in Nat /\ auth \in Nat
  /\ config \in Docs /\ bak \in Docs \ {Zero}
  /\ saved \in [manifest : Manifests \cup {None}, auth : Nat]
  /\ job \in [Jobs -> JobRecords]
  /\ before \in Befores

IsManifest(m) == m.is = "manifest"

(* The login.  What the backup holds by the word of a manifest:             *)
Holds(m) ==
  IF m.auth THEN saved.auth \in before.logins \ {NoLogin, Local, Part} ELSE NoLogin \in before.logins

\* a setup has found no backup, or makes one, or has one
SetupHolds(j) ==
  /\ job[j].step \notin {"idle", "delete", "forget"}
  /\ job[j].step \in {"copy", "manifest"} =>
       /\ ~IsManifest(saved.manifest) /\ IsManifest(job[j].saw)
       /\ IF job[j].step = "copy" THEN job[j].saw.auth /\ auth \in before.logins ELSE Holds(job[j].saw)
  /\ job[j].step \in {"read", "bak", "write", "auth"} => IsManifest(saved.manifest)

\* a restore works by the manifest there is, and has taken the identity away
RestoreHolds(j) ==
  /\ job[j].step \notin {"idle", "copy", "manifest", "caches", "switch"}
  /\ job[j].step \in {"read", "bak", "write", "delete", "auth"} => job[j].saw = saved.manifest
  /\ job[j].step \in {"forget", "env"} =>
       /\ auth \notin {Local, Part}
       /\ IsManifest(job[j].saw) /\ NoLogin \notin before.logins => auth \in before.logins

Alone == \A j, k \in Jobs : j # k => job[j] = Idle \/ job[k] = Idle

LoginSound ==
  /\ Alone
  /\ IsManifest(saved.manifest) => Holds(saved.manifest)
  /\ auth = Local => IsManifest(saved.manifest)
  /\ auth = Part => IsManifest(saved.manifest) /\ saved.manifest.auth
  /\ \A j \in Jobs : /\ job[j].kind = "setup" => SetupHolds(j)
                     /\ job[j].kind = "restore" => RestoreHolds(j)

(* The provider.  A document's gateway is one a setup wrote, and its        *)
(* provider is one to give back.                                            *)
Backed(d) == d.is = "toml" /\ d.active = "gateway" => d.gateway \in Ports
Chosen(d) == d.is = "toml" => d.active \in before.actives \cup {"gateway"}
Cleaned(d) == d.is = "toml" => d.base # port /\ d.gateway # port

Names(m) ==
  IsManifest(m) =>
    /\ m.active \in before.actives \cup {"gateway"}
    /\ m.version = 1 => "user" \in before.actives

DocSound(j) ==
  /\ Backed(job[j].doc) /\ Names(job[j].saw)
  /\ IsManifest(saved.manifest) \/ IsManifest(job[j].saw) =>
       Chosen(config) /\ (job[j].kind # "setup" => Chosen(job[j].doc))
  /\ job[j].kind = "setup" /\ job[j].doc.is = "toml" =>
       job[j].doc.active = IF job[j].how = "gateway" THEN "gateway" ELSE "user"
  /\ job[j].kind = "setup" => job[j].how \in {"gateway", "provider"}
  /\ job[j].kind \in {"delete", "websocket"} => job[j].how \in {"gateway", "user"}
  /\ job[j].kind = "restore" =>
       Cleaned(job[j].doc) /\ (job[j].step \in {"auth", "forget", "env"} => Cleaned(config))

ConfigSound ==
  /\ "none" \in before.actives
  /\ Backed(config) /\ Backed(bak) /\ Names(saved.manifest)
  /\ \A j \in Jobs : DocSound(j)

(* The ports.  A document names one a setup wrote, or is about to write.    *)
Traced(d, ports) ==
  d.is = "toml" => d.base \in ports \cup {"none"} /\ d.gateway \in ports \cup {"none", "stub"}

PortSound ==
  /\ Traced(config, before.ports) /\ Traced(bak, before.ports)
  /\ \A j \in Jobs :
       Traced(job[j].doc, before.ports \cup IF job[j].kind = "setup" THEN {port} ELSE {})

TakeoverInv == TakeoverTypes /\ LoginSound /\ ConfigSound /\ RestoreGivesBack

-----------------------------------------------------------------------------
(* Values.                                                                  *)

LEMMA ManifestFacts ==
  /\ \A m \in Manifests \cup {None} : (m.is = "none" <=> ~IsManifest(m)) /\ (IsManifest(m) => m \in Manifests)
  /\ None \in Manifests \cup {None} /\ ~IsManifest(None)
  /\ Fallback \in Manifests /\ IsManifest(Fallback) /\ ~Fallback.auth
  /\ Fallback.version = 2 /\ Fallback.active = "none" /\ None.is = "none"
BY DEF Manifests, None, Fallback, Manifest, IsManifest, Providers

LEMMA ManifestType ==
  ASSUME NEW existed \in BOOLEAN, NEW login \in BOOLEAN, NEW active \in Providers
  PROVE  LET m == Manifest(2, existed, login, active) IN
         /\ m \in Manifests /\ IsManifest(m) /\ m.auth = login /\ m.active = active /\ m.version = 2
BY DEF Manifests, Manifest, IsManifest

LEMMA PortFacts ==
  /\ "none" \notin Ports /\ "user" \notin Ports /\ "stub" \notin Ports
BY TakeoverAssumption

LEMMA DocFacts ==
  /\ \A d \in Docs : /\ d.is \in {"toml", "missing", "zero"}
                     /\ d.is = "toml" <=> d \in Tomls
                     /\ d.is = "missing" <=> d = Missing
                     /\ d.is = "zero" <=> d = Zero
  /\ Missing \in Docs /\ Zero \in Docs /\ Tomls \subseteq Docs
  /\ Missing.is = "missing" /\ Zero.is = "zero"
  /\ Fresh \in Tomls /\ Fresh.is = "toml" /\ Fresh.active = "none" /\ Fresh.base = "none" /\ Fresh.gateway = "none"
  /\ \A d \in Tomls : /\ d.is = "toml" /\ d.active \in Providers
                      /\ d.base \in Ports \cup {"none"} /\ d.gateway \in Ports \cup {"none", "stub"}
BY DEF Docs, Tomls, Missing, Zero, Fresh, Config, Providers

\* what a job makes of the document it read
LEMMA WriteConfigFacts ==
  ASSUME port \in Ports, NEW d \in Tomls, NEW how \in {"gateway", "provider"}
  PROVE  LET w == WriteConfig(d, how) IN
         /\ w \in Tomls /\ w.active = IF how = "gateway" THEN "gateway" ELSE "user"
         /\ Backed(w)
<1>1. CASE how = "gateway"
  BY <1>1 DEF WriteConfig, Tomls, Providers, Backed
<1>2. CASE how = "provider"
  BY <1>2 DEF WriteConfig, Tomls, Providers, Backed
<1> QED BY <1>1, <1>2

LEMMA CleanConfigFacts ==
  ASSUME port \in Ports, NEW d \in Tomls, NEW m \in Manifests, NEW original \in Providers, Backed(d)
  PROVE  LET c == CleanConfig(d, m, original) IN
         /\ c \in Tomls /\ Cleaned(c) /\ Backed(c)
         /\ c.active \in {d.active, original, "none"}
<1> DEFINE c == CleanConfig(d, m, original)
           base == IF d.base = port THEN "none" ELSE d.base
           active == IF ~(Managed(d) /\ d.active = "gateway") THEN d.active
                     ELSE IF original = "gateway" THEN "none" ELSE original
           gateway == IF Managed(d) THEN "none" ELSE d.gateway
           defaults == d.defaults /\ m.config
<1>1. /\ base \in Ports \cup {"none"} /\ active \in Providers
      /\ gateway \in Ports \cup {"none", "stub"} /\ defaults \in BOOLEAN
  <2>1. m.config \in BOOLEAN /\ d.defaults \in BOOLEAN
    BY DEF Manifests, Tomls
  <2> QED BY <2>1, DocFacts DEF Providers
<1>a. c = [d EXCEPT !.base = base, !.active = active, !.gateway = gateway, !.defaults = defaults]
  BY DEF CleanConfig
<1>2. c \in Tomls
  <2> HIDE DEF base, active, gateway, defaults, c
  <2> QED BY <1>1, <1>a DEF Tomls
<1>3. /\ c.is = "toml"
      /\ c.base = IF d.base = port THEN "none" ELSE d.base
      /\ c.gateway = IF Managed(d) THEN "none" ELSE d.gateway
      /\ c.active = IF ~(Managed(d) /\ d.active = "gateway") THEN d.active
                    ELSE IF original = "gateway" THEN "none" ELSE original
  BY DEF CleanConfig, Tomls
<1>4. Cleaned(c)
  BY <1>3, PortFacts DEF Cleaned, Managed
<1>5. Backed(c)
  BY <1>3, DocFacts DEF Backed, Managed
<1>6. c.active \in {d.active, original, "none"}
  BY <1>3
<1> QED BY <1>2, <1>4, <1>5, <1>6

LEMMA FlagFacts ==
  ASSUME NEW d \in Tomls, NEW name \in {"gateway", "user"}, Backed(d)
  PROVE  /\ DeleteProvider(d, name) \in Tomls /\ Backed(DeleteProvider(d, name))
         /\ DeleteProvider(d, name).active \in {d.active, "none"}
         /\ SetWebsocket(d, name) \in Tomls /\ Backed(SetWebsocket(d, name))
         /\ SetWebsocket(d, name).active = d.active
<1>1. /\ DeleteProvider(d, name) \in Tomls
      /\ DeleteProvider(d, name).active = IF d.active = name THEN "none" ELSE d.active
      /\ DeleteProvider(d, name).gateway = IF name = "gateway" THEN "none" ELSE d.gateway
  BY DEF DeleteProvider, Tomls, Providers
<1>2. /\ SetWebsocket(d, name) \in Tomls
      /\ SetWebsocket(d, name).active = d.active
      /\ SetWebsocket(d, name).gateway = IF name = "gateway" /\ d.gateway = "none" THEN "stub" ELSE d.gateway
  BY DEF SetWebsocket, Tomls, Providers
<1>3. Backed(DeleteProvider(d, name))
  BY <1>1, DocFacts DEF Backed
<1>4. Backed(SetWebsocket(d, name))
  BY <1>2, DocFacts, PortFacts DEF Backed
<1> QED BY <1>1, <1>2, <1>3, <1>4

-----------------------------------------------------------------------------
(* Steps of a job.                                                          *)

LEMMA JobMoves ==
  ASSUME TakeoverTypes, NEW j \in Jobs, NEW step \in Steps, To(j, step)
  PROVE  /\ job' \in [Jobs -> JobRecords] /\ report' = NoReport
         /\ job'[j].step = step /\ job'[j].kind = job[j].kind /\ job'[j].doc = job[j].doc
         /\ job'[j].saw = job[j].saw /\ job'[j].how = job[j].how
         /\ \A k \in Jobs : k # j => job'[k] = job[k]
<1>1. job[j] \in JobRecords
  BY DEF TakeoverTypes
<1> DEFINE r == [job[j] EXCEPT !.step = step]
<1>2. /\ r \in JobRecords /\ r.step = step /\ r.kind = job[j].kind /\ r.doc = job[j].doc
      /\ r.saw = job[j].saw /\ r.how = job[j].how
  BY <1>1 DEF JobRecords
<1>3. job' = [job EXCEPT ![j] = r] /\ report' = NoReport
  BY DEF To
<1> HIDE DEF r
<1> QED BY <1>2, <1>3 DEF TakeoverTypes

LEMMA IdleFacts ==
  /\ Idle \in JobRecords /\ Idle.kind = "none" /\ Idle.step = "idle"
  /\ Idle.doc = Missing /\ Idle.saw = None /\ Idle.how = "none"
BY DocFacts, ManifestFacts DEF Idle, JobRecords, Kinds, Steps

LEMMA JobReports ==
  ASSUME TakeoverTypes, NEW j \in Jobs, NEW ok, NEW cut, Report(j, ok, cut)
  PROVE  /\ job' \in [Jobs -> JobRecords] /\ job'[j] = Idle
         /\ report'.kind = job[j].kind /\ report'.ok = ok
         /\ report'.managed <=> IsManifest(job[j].saw)
         /\ \A k \in Jobs : k # j => job'[k] = job[k]
BY IdleFacts DEF TakeoverTypes, Report, IsManifest

LEMMA JobStarts ==
  ASSUME NEW kind \in Kinds, NEW step \in Steps, NEW how \in {"none", "gateway", "provider", "user"}
  PROVE  LET r == Job(kind, step, how) IN
         /\ r \in JobRecords /\ r.kind = kind /\ r.step = step /\ r.how = how
         /\ r.doc = Missing /\ r.saw = None
BY IdleFacts DEF Job, JobRecords, Idle

\* an idle job, or one that has just begun, holds nothing and has seen nothing
Blank(r) ==
  /\ r.doc = Missing /\ r.saw = None
  /\ r.kind = "setup" => r.step = "check" /\ r.how \in {"gateway", "provider"}
  /\ r.kind = "restore" => r.step = "check"
  /\ r.kind \in {"delete", "websocket"} => r.how \in {"gateway", "user"}

LEMMA BlankIsSound ==
  ASSUME TakeoverInv, NEW j \in Jobs, Blank(job[j])'
  PROVE  /\ (job[j].kind = "setup" => SetupHolds(j))'
         /\ (job[j].kind = "restore" => RestoreHolds(j))'
         /\ (IsManifest(saved.manifest) => Chosen(config))' => DocSound(j)'
BY DocFacts, ManifestFacts DEF Blank, SetupHolds, RestoreHolds, DocSound, Backed, Names, Chosen, Cleaned

\* while a job is under way the others are idle, and they stay so
OthersIdle(j) == \A k \in Jobs : k # j => job[k] = Idle

LEMMA OthersAreIdle ==
  ASSUME TakeoverInv, NEW j \in Jobs, job[j] # Idle
  PROVE  OthersIdle(j)
BY DEF TakeoverInv, LoginSound, Alone, OthersIdle

LEMMA OthersStayIdle ==
  ASSUME TakeoverInv, NEW j \in Jobs, job[j].step # "idle" \/ job[j] # Idle,
         \/ \E step \in Steps : To(j, step)
         \/ \E ok, cut \in BOOLEAN : Report(j, ok, cut)
         \/ \E r \in JobRecords : job' = [job EXCEPT ![j] = r]
  PROVE  OthersIdle(j)'
<1>1. OthersIdle(j)
  BY OthersAreIdle, IdleFacts
<1>2. \A k \in Jobs : k # j => job'[k] = job[k]
  BY JobMoves, JobReports DEF TakeoverInv, TakeoverTypes
<1> QED BY <1>1, <1>2 DEF OthersIdle

\* what is sound for the one job is sound for all
LEMMA LoginsOfOne ==
  ASSUME NEW j \in Jobs, OthersIdle(j)',
         (job[j].kind = "setup" => SetupHolds(j))', (job[j].kind = "restore" => RestoreHolds(j))',
         (IsManifest(saved.manifest) => Holds(saved.manifest))',
         (auth = Local => IsManifest(saved.manifest))',
         (auth = Part => IsManifest(saved.manifest) /\ saved.manifest.auth)'
  PROVE  LoginSound'
<1>1. Alone'
  BY DEF Alone, OthersIdle
<1>2. ASSUME NEW k \in Jobs
      PROVE  (/\ job[k].kind = "setup" => SetupHolds(k)
              /\ job[k].kind = "restore" => RestoreHolds(k))'
  BY IdleFacts DEF OthersIdle
<1> QED BY <1>1, <1>2 DEF LoginSound

LEMMA DocsOfOne ==
  ASSUME NEW j \in Jobs, OthersIdle(j)', DocSound(j)'
  PROVE  (\A k \in Jobs : DocSound(k))'
<1>1. ASSUME NEW k \in Jobs, k # j PROVE DocSound(k)'
  <2>1. job'[k] = Idle
    BY <1>1 DEF OthersIdle
  <2>2. (IsManifest(saved.manifest) => Chosen(config))'
    BY DEF DocSound
  <2> QED BY <2>1, <2>2, IdleFacts, DocFacts, ManifestFacts DEF DocSound, Backed, Names, Cleaned, Chosen
<1> QED BY <1>1

\* a job that starts, ends or is cut off leaves the files as they are
LEMMA BlankKeeps ==
  ASSUME TakeoverInv, NEW j \in Jobs, Blank(job[j])', job' \in [Jobs -> JobRecords],
         OthersIdle(j)',
         port' \in Ports, events' \in Nat, UNCHANGED <<config, bak, auth, saved, before>>,
         RestoreGivesBack'
  PROVE  TakeoverInv'
<1>2. TakeoverTypes'
  BY DEF TakeoverInv, TakeoverTypes
<1>3. LoginSound'
  <2>1. /\ (IsManifest(saved.manifest) => Holds(saved.manifest))'
        /\ (auth = Local => IsManifest(saved.manifest))'
        /\ (auth = Part => IsManifest(saved.manifest) /\ saved.manifest.auth)'
    BY DEF TakeoverInv, LoginSound, Holds
  <2> QED BY <2>1, BlankIsSound, LoginsOfOne
<1>4. (IsManifest(saved.manifest) => Chosen(config))'
  BY DEF TakeoverInv, ConfigSound, DocSound, Chosen
<1>5. ConfigSound'
  BY <1>4, BlankIsSound, DocsOfOne DEF TakeoverInv, ConfigSound, Backed, Names
<1> QED BY <1>2, <1>3, <1>5 DEF TakeoverInv

LEMMA NothingReported ==
  ASSUME report' = NoReport
  PROVE  RestoreGivesBack'
BY DEF NoReport, RestoreGivesBack

LEMMA FailureReported ==
  ASSUME TakeoverTypes, NEW j \in Jobs, NEW cut, Report(j, FALSE, cut)
  PROVE  RestoreGivesBack'
BY JobReports DEF RestoreGivesBack

\* a job ends without success
LEMMA EndKeeps ==
  ASSUME TakeoverInv, NEW j \in Jobs, job[j].step # "idle" \/ job[j] # Idle,
         NEW cut \in BOOLEAN, Report(j, FALSE, cut),
         events' \in Nat, UNCHANGED <<port, config, bak, auth, saved, before>>
  PROVE  TakeoverInv'
<1>1. TakeoverTypes
  BY DEF TakeoverInv
<1>2. job' \in [Jobs -> JobRecords] /\ job'[j] = Idle /\ RestoreGivesBack'
  BY <1>1, JobReports, FailureReported
<1>3. Blank(job[j])'
  BY <1>2, IdleFacts DEF Blank
<1>4. port' \in Ports /\ OthersIdle(j)'
  BY <1>1, OthersStayIdle DEF TakeoverTypes
<1> QED BY <1>2, <1>3, <1>4, BlankKeeps

LEMMA AskKeeps ==
  ASSUME TakeoverInv, before'.harm = {}, NEW j \in Jobs, Ask(j) \/ AskRepair(j)
  PROVE  TakeoverInv'
<1>1. PICK kind \in Kinds, step \in Steps, how \in {"none", "gateway", "provider", "user"} :
        /\ Start(j, Job(kind, step, how))
        /\ kind = "setup" => step = "check" /\ how \in {"gateway", "provider"}
        /\ kind = "restore" => step = "check"
        /\ kind \in {"delete", "websocket"} => how \in {"gateway", "user"}
  BY DEF Ask, AskRepair, Kinds, Steps
<1> DEFINE r == Job(kind, step, how)
<1>2. /\ job' = [job EXCEPT ![j] = r] /\ report' = NoReport
      /\ UNCHANGED <<port, config, bak, auth, saved, before, events>>
      /\ \A k \in Jobs : job[k] = Idle
  <2>1. Harmed("together") => before'.harm # {}
    BY DEF Harmed, TakeoverInv, TakeoverTypes, Befores
  <2> QED BY <1>1, <2>1 DEF Start, files
<1>3. r \in JobRecords /\ Blank(r)
  BY <1>1, JobStarts DEF Blank
<1> HIDE DEF r
<1>4. /\ job' \in [Jobs -> JobRecords] /\ Blank(job[j])' /\ port' \in Ports /\ events' \in Nat
      /\ OthersIdle(j)'
  BY <1>2, <1>3 DEF TakeoverInv, TakeoverTypes, Blank, OthersIdle
<1> QED BY <1>2, <1>4, NothingReported, BlankKeeps

\* a step that leaves what the manifest speaks of alone
LEMMA MoveKeeps ==
  ASSUME TakeoverInv, NEW j \in Jobs, NEW step \in Steps, To(j, step), job[j].step # "idle",
         UNCHANGED <<port, config, auth, saved, before, events>>,
         bak' \in Docs \ {Zero}, Backed(bak'),
         job[j].kind = "setup" =>
           /\ step \in {"check", "read", "bak", "write", "auth", "switch", "env"}
           /\ step \in {"read", "bak", "write", "auth"} => IsManifest(saved.manifest),
         job[j].kind = "restore" =>
           /\ step \in {"read", "bak", "write", "delete", "auth"} => job[j].saw = saved.manifest
           /\ step \in {"check", "read", "bak", "write", "delete", "auth"}
           /\ step = "auth" => Cleaned(config)
  PROVE  TakeoverInv'
<1>1. /\ job' \in [Jobs -> JobRecords] /\ report' = NoReport
      /\ job'[j].step = step /\ job'[j].kind = job[j].kind /\ job'[j].doc = job[j].doc
      /\ job'[j].saw = job[j].saw /\ job'[j].how = job[j].how
  BY JobMoves DEF TakeoverInv
<1>2. OthersIdle(j)'
  BY OthersStayIdle
<1>3. TakeoverTypes'
  BY <1>1 DEF TakeoverInv, TakeoverTypes
<1>4. LoginSound'
  <2>1. (job[j].kind = "setup" => SetupHolds(j))' /\ (job[j].kind = "restore" => RestoreHolds(j))'
    BY <1>1 DEF SetupHolds, RestoreHolds
  <2> QED BY <1>2, <2>1, LoginsOfOne DEF TakeoverInv, LoginSound, Holds
<1>5. ConfigSound'
  <2>1. DocSound(j)'
    BY <1>1 DEF TakeoverInv, ConfigSound, DocSound, Backed, Names, Chosen, Cleaned
  <2> QED BY <1>2, <2>1, DocsOfOne DEF TakeoverInv, ConfigSound, Backed, Names
<1> QED BY <1>1, <1>3, <1>4, <1>5, NothingReported DEF TakeoverInv

-----------------------------------------------------------------------------
(* A setup.                                                                 *)

LEMMA CheckBackupKeeps ==
  ASSUME TakeoverInv, NEW j \in Jobs, CheckBackup(j)
  PROVE  TakeoverInv'
<1>0. /\ job[j] \in JobRecords /\ job[j].kind = "setup" /\ job[j].step = "check"
      /\ UNCHANGED <<port, config, bak, auth, saved, events>>
  BY DEF CheckBackup, Step, files, TakeoverInv, TakeoverTypes
<1>m. saved.manifest \in Manifests \cup {None}
  BY DEF TakeoverInv, TakeoverTypes
<1>1. CASE IsManifest(saved.manifest)
  <2>1. To(j, "read") /\ UNCHANGED before
    BY <1>m, <1>1, ManifestFacts DEF CheckBackup, None
  <2>2. bak' \in Docs \ {Zero} /\ Backed(bak')
    BY <1>0 DEF TakeoverInv, TakeoverTypes, ConfigSound
  <2> QED BY <1>0, <1>1, <2>1, <2>2, MoveKeeps DEF Steps
<1>2. CASE ~IsManifest(saved.manifest) /\ config.is = "zero"
  <2>1. Report(j, FALSE, FALSE) /\ UNCHANGED before
    <3>1. saved.manifest = None
      BY <1>m, <1>2 DEF IsManifest, Manifests
    <3> QED BY <1>2, <3>1 DEF CheckBackup, End
  <2> QED BY <1>0, <2>1, EndKeeps DEF TakeoverInv, TakeoverTypes
<1>3. CASE ~IsManifest(saved.manifest) /\ config.is # "zero"
  <2> DEFINE active == IF config.is = "toml" THEN config.active ELSE "none"
             m == Manifest(2, config.is = "toml", auth # NoLogin, active)
             step == IF auth # NoLogin THEN "copy" ELSE "manifest"
             r == [job[j] EXCEPT !.saw = m, !.step = step]
  <2>1. /\ job' = [job EXCEPT ![j] = r] /\ report' = NoReport
        /\ before' = [before EXCEPT !.logins = {auth}, !.actives = {active, "none"} \ {"gateway"}]
    <3>1. saved.manifest = None
      BY <1>m, <1>3 DEF IsManifest, Manifests
    <3> QED BY <1>0, <1>3, <3>1 DEF CheckBackup
  <2>2. active \in Providers
    BY DocFacts DEF TakeoverInv, TakeoverTypes, Providers
  <2>3. /\ m \in Manifests /\ IsManifest(m) /\ m.auth = (auth # NoLogin) /\ m.active = active
        /\ m.version = 2
    BY <2>2, ManifestType
  <2>4. config.is = "toml" => active = config.active
    OBVIOUS
  <2> HIDE DEF m, active
  <2>5. /\ r \in JobRecords /\ r.saw = m /\ r.step = step /\ r.kind = "setup"
        /\ r.doc = job[j].doc /\ r.how = job[j].how
    BY <1>0, <2>3 DEF JobRecords, Steps
  <2> HIDE DEF r
  <2>6. job' \in [Jobs -> JobRecords] /\ job'[j] = r
    BY <2>1, <2>5 DEF TakeoverInv, TakeoverTypes
  <2>7. OthersIdle(j)'
    BY <1>0, <2>1, <2>5, OthersStayIdle
  <2>8. TakeoverTypes'
    <3>1. before' \in Befores
      BY <2>1, <2>2 DEF TakeoverInv, TakeoverTypes, Befores, Providers
    <3> QED BY <1>0, <2>6, <3>1 DEF TakeoverInv, TakeoverTypes
  <2>9. before'.logins = {auth} /\ before'.actives = {active, "none"} \ {"gateway"}
    BY <2>1 DEF TakeoverInv, TakeoverTypes, Befores
  <2>10. LoginSound'
    <3>1. auth \notin {Local, Part}
      BY <1>3 DEF TakeoverInv, LoginSound
    <3>2. SetupHolds(j)'
      BY <1>0, <1>3, <2>3, <2>5, <2>6, <2>9 DEF SetupHolds, Holds
    <3> QED BY <1>0, <1>3, <2>5, <2>6, <2>7, <3>1, <3>2, LoginsOfOne
  <2>11. ConfigSound'
    <3>1. DocSound(j)'
      BY <1>0, <2>3, <2>4, <2>5, <2>6, <2>9 DEF TakeoverInv, ConfigSound, DocSound, Backed, Names, Chosen, Cleaned
    <3> QED BY <1>0, <1>3, <2>7, <2>9, <3>1, DocsOfOne DEF TakeoverInv, ConfigSound, Backed, Names
  <2> QED BY <2>1, <2>8, <2>10, <2>11, NothingReported DEF TakeoverInv
<1> QED BY <1>1, <1>2, <1>3

LEMMA CopyLoginKeeps ==
  ASSUME TakeoverInv, NEW j \in Jobs, CopyLogin(j)
  PROVE  TakeoverInv'
<1>0. /\ job[j].kind = "setup" /\ job[j].step = "copy"
      /\ UNCHANGED <<port, config, bak, auth, before>>
      /\ saved \in [manifest : Manifests \cup {None}, auth : Nat] /\ events \in Nat
  BY DEF CopyLogin, Step, TakeoverInv, TakeoverTypes
<1>1. CASE End(j, FALSE) /\ UNCHANGED <<saved, events>>
  BY <1>0, <1>1, EndKeeps DEF End
<1>2. CASE auth # NoLogin /\ To(j, "manifest") /\ saved' = [saved EXCEPT !.auth = auth] /\ UNCHANGED events
  <2>1. To(j, "manifest") /\ saved' = [saved EXCEPT !.auth = auth] /\ UNCHANGED events
    BY <1>2
  <2>2. /\ saved' \in [manifest : Manifests \cup {None}, auth : Nat]
        /\ saved'.manifest = saved.manifest /\ saved'.auth = auth
    BY <2>1 DEF TakeoverInv, TakeoverTypes
  <2>3. /\ job' \in [Jobs -> JobRecords] /\ report' = NoReport
        /\ job'[j].step = "manifest" /\ job'[j].kind = "setup" /\ job'[j].doc = job[j].doc
        /\ job'[j].saw = job[j].saw /\ job'[j].how = job[j].how
    BY <1>0, <2>1, JobMoves DEF TakeoverInv, Steps
  <2>4. OthersIdle(j)'
    BY <1>0, <2>1, OthersStayIdle DEF Steps
  <2>5. /\ ~IsManifest(saved.manifest) /\ IsManifest(job[j].saw) /\ job[j].saw.auth
        /\ auth \in before.logins /\ auth \notin {Local, Part}
    BY <1>0 DEF TakeoverInv, LoginSound, SetupHolds
  <2>6. TakeoverTypes'
    BY <1>0, <2>1, <2>2, <2>3 DEF TakeoverInv, TakeoverTypes
  <2>7. LoginSound'
    <3>1. SetupHolds(j)'
      BY <1>0, <1>2, <2>2, <2>3, <2>5 DEF SetupHolds, Holds
    <3> QED BY <1>0, <2>2, <2>3, <2>4, <2>5, <3>1, LoginsOfOne
  <2>8. ConfigSound'
    <3>1. DocSound(j)'
      BY <1>0, <2>2, <2>3 DEF TakeoverInv, ConfigSound, DocSound, Backed, Names, Chosen, Cleaned
    <3> QED BY <1>0, <2>2, <2>4, <3>1, DocsOfOne DEF TakeoverInv, ConfigSound, Backed, Names
  <2> QED BY <2>3, <2>6, <2>7, <2>8, NothingReported DEF TakeoverInv
<1>3. CASE CutOff(j) /\ saved' = [saved EXCEPT !.auth = Part]
  <2>1. /\ job' \in [Jobs -> JobRecords] /\ job'[j] = Idle /\ Blank(job[j])' /\ RestoreGivesBack'
        /\ OthersIdle(j)' /\ events' \in Nat
    <3>1. Report(j, FALSE, TRUE) /\ events' = events + 1 /\ TRUE \in BOOLEAN /\ FALSE \in BOOLEAN
      BY <1>3 DEF CutOff
    <3>2. OthersIdle(j)'
      BY <1>0, <3>1, OthersStayIdle
    <3>3. job' \in [Jobs -> JobRecords] /\ job'[j] = Idle /\ RestoreGivesBack'
      BY <3>1, JobReports, FailureReported DEF TakeoverInv
    <3>4. events' \in Nat
      BY <1>0, <3>1
    <3> QED BY <3>2, <3>3, <3>4, IdleFacts DEF Blank
  <2>2. /\ saved' \in [manifest : Manifests \cup {None}, auth : Nat] /\ saved'.manifest = saved.manifest
    BY <1>0, <1>3 DEF Part
  <2>3. ~IsManifest(saved.manifest) /\ auth \notin {Local, Part}
    BY <1>0 DEF TakeoverInv, LoginSound, SetupHolds
  <2>4. TakeoverTypes'
    BY <1>0, <2>1, <2>2 DEF TakeoverInv, TakeoverTypes
  <2>5. LoginSound'
    BY <1>0, <2>1, <2>2, <2>3, BlankIsSound, LoginsOfOne
  <2>6. (IsManifest(saved.manifest) => Chosen(config))'
    BY <2>2, <2>3
  <2>7. ConfigSound'
    BY <1>0, <2>1, <2>2, <2>6, BlankIsSound, DocsOfOne DEF TakeoverInv, ConfigSound, Backed, Names
  <2> QED BY <2>1, <2>4, <2>5, <2>7 DEF TakeoverInv
<1> QED BY <1>1, <1>2, <1>3 DEF CopyLogin

LEMMA WriteManifestKeeps ==
  ASSUME TakeoverInv, before'.harm = {}, NEW j \in Jobs, WriteManifest(j)
  PROVE  TakeoverInv'
<1>0. /\ job[j].kind = "setup" /\ job[j].step = "manifest" /\ job[j] \in JobRecords
      /\ UNCHANGED <<port, config, bak, auth, before, events>>
      /\ To(j, "read") /\ saved' = [saved EXCEPT !.manifest = job[j].saw]
  <2>1. Harmed("broken") => before'.harm # {}
    BY DEF Harmed, TakeoverInv, TakeoverTypes, Befores
  <2> QED BY <2>1 DEF WriteManifest, Step, TakeoverInv, TakeoverTypes
<1>1. /\ saved' \in [manifest : Manifests \cup {None}, auth : Nat]
      /\ saved'.manifest = job[j].saw /\ saved'.auth = saved.auth
  BY <1>0 DEF TakeoverInv, TakeoverTypes, JobRecords
<1>2. /\ job' \in [Jobs -> JobRecords] /\ report' = NoReport
      /\ job'[j].step = "read" /\ job'[j].kind = "setup" /\ job'[j].doc = job[j].doc
      /\ job'[j].saw = job[j].saw /\ job'[j].how = job[j].how
  BY <1>0, JobMoves DEF TakeoverInv, Steps
<1>3. OthersIdle(j)'
  BY <1>0, OthersStayIdle DEF Steps
<1>4. TakeoverTypes'
  BY <1>0, <1>1, <1>2 DEF TakeoverInv, TakeoverTypes
<1>5. LoginSound'
  <2>1. IsManifest(job[j].saw) /\ Holds(job[j].saw)
    BY <1>0 DEF TakeoverInv, LoginSound, SetupHolds
  <2>2. (IsManifest(saved.manifest) /\ Holds(saved.manifest))'
    BY <1>0, <1>1, <2>1 DEF Holds
  <2>3. (auth \notin {Local, Part})' /\ SetupHolds(j)'
    BY <1>0, <1>1, <1>2, <2>2 DEF TakeoverInv, LoginSound, SetupHolds
  <2> QED BY <1>2, <1>3, <2>2, <2>3, LoginsOfOne
<1>6. ConfigSound'
  <2>1. DocSound(j)'
    BY <1>0, <1>1, <1>2 DEF TakeoverInv, LoginSound, SetupHolds, ConfigSound, DocSound, Backed, Names, Chosen, Cleaned
  <2>2. Names(saved.manifest)'
    BY <1>0, <1>1 DEF TakeoverInv, ConfigSound, DocSound, Names
  <2> QED BY <1>0, <1>3, <2>1, <2>2, DocsOfOne DEF TakeoverInv, ConfigSound, Backed
<1> QED BY <1>2, <1>4, <1>5, <1>6, NothingReported DEF TakeoverInv

LEMMA WriteLoginKeeps ==
  ASSUME TakeoverInv, NEW j \in Jobs, WriteLogin(j)
  PROVE  TakeoverInv'
<1>0. /\ job[j].kind = "setup" /\ job[j].step = "auth"
      /\ UNCHANGED <<port, config, bak, saved, before, events>> /\ To(j, "caches") /\ auth' = Local
  BY DEF WriteLogin, Step
<1>1. /\ job' \in [Jobs -> JobRecords] /\ report' = NoReport
      /\ job'[j].step = "caches" /\ job'[j].kind = "setup" /\ job'[j].doc = job[j].doc
      /\ job'[j].saw = job[j].saw /\ job'[j].how = job[j].how
  BY <1>0, JobMoves DEF TakeoverInv, Steps
<1>2. OthersIdle(j)'
  BY <1>0, OthersStayIdle DEF Steps
<1>3. TakeoverTypes'
  BY <1>0, <1>1 DEF TakeoverInv, TakeoverTypes, Local
<1>4. LoginSound'
  <2>1. SetupHolds(j)' /\ IsManifest(saved.manifest)' /\ Holds(saved.manifest)'
    BY <1>0, <1>1 DEF TakeoverInv, LoginSound, SetupHolds, Holds
  <2> QED BY <1>0, <1>1, <1>2, <2>1, LoginsOfOne DEF Local, Part
<1>5. ConfigSound'
  <2>1. DocSound(j)'
    BY <1>0, <1>1 DEF TakeoverInv, ConfigSound, DocSound, Backed, Names, Chosen, Cleaned
  <2> QED BY <1>0, <1>2, <2>1, DocsOfOne DEF TakeoverInv, ConfigSound, Backed, Names
<1> QED BY <1>1, <1>3, <1>4, <1>5, NothingReported DEF TakeoverInv

-----------------------------------------------------------------------------
(* What the jobs have in common: the document.                              *)

LEMMA ReadManifestKeeps ==
  ASSUME TakeoverInv, NEW j \in Jobs, ReadManifest(j)
  PROVE  TakeoverInv'
<1> DEFINE r == [job[j] EXCEPT !.step = "read", !.saw = saved.manifest]
<1>0. /\ job[j].kind = "restore" /\ job[j] \in JobRecords /\ saved.manifest \in Manifests \cup {None}
      /\ job' = [job EXCEPT ![j] = r] /\ report' = NoReport
      /\ UNCHANGED <<port, config, bak, auth, saved, before, events>>
      /\ job[j].step = "check"
  <2>1. saved.manifest # Broken
    BY DEF TakeoverInv, TakeoverTypes, Manifests, None, Broken
  <2> QED BY <2>1 DEF ReadManifest, Step, files, TakeoverInv, TakeoverTypes
<1>1. /\ r \in JobRecords /\ r.saw = saved.manifest /\ r.step = "read" /\ r.kind = "restore"
      /\ r.doc = job[j].doc /\ r.how = job[j].how
  BY <1>0 DEF JobRecords, Steps
<1> HIDE DEF r
<1>2. job' \in [Jobs -> JobRecords] /\ job'[j] = r
  BY <1>0, <1>1 DEF TakeoverInv, TakeoverTypes
<1>3. OthersIdle(j)'
  BY <1>0, <1>1, OthersStayIdle
<1>4. TakeoverTypes'
  BY <1>0, <1>2 DEF TakeoverInv, TakeoverTypes
<1>5. LoginSound'
  <2>1. RestoreHolds(j)'
    BY <1>0, <1>1, <1>2 DEF TakeoverInv, LoginSound, RestoreHolds
  <2> QED BY <1>0, <1>1, <1>2, <1>3, <2>1, LoginsOfOne DEF TakeoverInv, LoginSound, Holds
<1>6. ConfigSound'
  <2>1. DocSound(j)'
    BY <1>0, <1>1, <1>2 DEF TakeoverInv, ConfigSound, DocSound, Backed, Names, Chosen, Cleaned
  <2> QED BY <1>0, <1>3, <2>1, DocsOfOne DEF TakeoverInv, ConfigSound, Backed, Names
<1> QED BY <1>0, <1>4, <1>5, <1>6, NothingReported DEF TakeoverInv

\* the provider a restore puts back
LEMMA OriginalFacts ==
  ASSUME TakeoverInv, NEW m \in Manifests, Names(m) \/ m = Fallback
  PROVE  /\ Original(m) \in Providers
         /\ Names(m) => Original(m) \in before.actives \cup {"gateway"}
<1>1. bak \in Docs /\ m.active \in Providers /\ m.version \in {1, 2} /\ IsManifest(m) /\ "none" \in before.actives
  BY DEF TakeoverInv, TakeoverTypes, ConfigSound, Manifests, IsManifest
<1>2. CASE m.version = 1 /\ bak.is = "toml" /\ ~(bak.active = "gateway" /\ Managed(bak))
  <2>1. Original(m) = bak.active /\ bak.active \in Providers
    BY <1>1, <1>2, DocFacts DEF Original
  <2> QED BY <1>1, <1>2, <2>1 DEF Names, Providers
<1>3. CASE ~(m.version = 1 /\ bak.is = "toml" /\ ~(bak.active = "gateway" /\ Managed(bak)))
  BY <1>1, <1>3 DEF Original, Names
<1> QED BY <1>2, <1>3

LEMMA ChangedFacts ==
  ASSUME TakeoverInv, NEW j \in Jobs, job[j].step = "read",
         NEW d \in Tomls, Backed(d)
  PROVE  LET c == Changed(j, d) IN
         /\ c \in Tomls /\ Backed(c)
         /\ job[j].kind = "setup" => c.active = IF job[j].how = "gateway" THEN "gateway" ELSE "user"
         /\ job[j].kind = "restore" => Cleaned(c)
         /\ job[j].kind # "setup" =>
              c.active \in {d.active, "none"} \cup (IF job[j].kind = "restore" THEN {Original(Manifested(j))} ELSE {})
<1>0. /\ port \in Ports /\ job[j] \in JobRecords /\ job[j].kind \in Kinds
      /\ job[j].saw \in Manifests \cup {None} /\ Names(job[j].saw)
  BY DEF TakeoverInv, TakeoverTypes, JobRecords, ConfigSound, DocSound
<1>1. CASE job[j].kind = "setup"
  <2>1. job[j].how \in {"gateway", "provider"} /\ Changed(j, d) = WriteConfig(d, job[j].how)
    BY <1>1 DEF Changed, TakeoverInv, ConfigSound, DocSound
  <2> QED BY <1>0, <1>1, <2>1, WriteConfigFacts
<1>2. CASE job[j].kind = "restore"
  <2>1. Manifested(j) \in Manifests /\ (Names(Manifested(j)) \/ Manifested(j) = Fallback)
    BY <1>0, ManifestFacts DEF Manifested
  <2>2. Original(Manifested(j)) \in Providers
    BY <2>1, OriginalFacts
  <2>3. Changed(j, d) = CleanConfig(d, Manifested(j), Original(Manifested(j)))
    BY <1>2 DEF Changed
  <2> QED BY <1>0, <1>2, <2>1, <2>2, <2>3, CleanConfigFacts
<1>3. CASE job[j].kind \in {"delete", "websocket"}
  <2>1. job[j].how \in {"gateway", "user"}
    BY <1>3 DEF TakeoverInv, ConfigSound, DocSound
  <2>2. Changed(j, d) = IF job[j].kind = "delete" THEN DeleteProvider(d, job[j].how) ELSE SetWebsocket(d, job[j].how)
    BY <1>3 DEF Changed
  <2> QED BY <1>3, <2>1, <2>2, FlagFacts
<1>4. CASE job[j].kind \notin {"setup", "restore", "delete", "websocket"}
  <2>1. Changed(j, d) = d
    BY <1>4 DEF Changed
  <2> QED BY <1>4, <2>1
<1> QED BY <1>1, <1>2, <1>3, <1>4

LEMMA ReadConfigKeeps ==
  ASSUME TakeoverInv, NEW j \in Jobs, ReadConfig(j)
  PROVE  TakeoverInv'
<1>0. /\ job[j].step = "read" /\ job[j] \in JobRecords /\ job[j].kind \in Kinds
      /\ UNCHANGED <<port, bak, auth, saved, events>>
      /\ config \in Docs /\ bak \in Docs \ {Zero}
  BY DEF ReadConfig, TakeoverInv, TakeoverTypes, JobRecords
<1>2. /\ before'.logins = before.logins /\ before.actives \subseteq before'.actives
      /\ before' \in Befores
  <2>1. before' = before \/ (Readable /\ config.is = "zero"
                             /\ before' = [before EXCEPT !.actives = @ \cup ({bak.active} \ {"gateway"})])
    BY DEF ReadConfig
  <2>2. Readable /\ config.is = "zero" => bak.active \in Providers
    BY DocFacts DEF Readable, TakeoverInv, TakeoverTypes
  <2> QED BY <2>1, <2>2 DEF TakeoverInv, TakeoverTypes, Befores
<1>r. job[j].kind = "restore" => job[j].saw = saved.manifest
  BY <1>0 DEF TakeoverInv, LoginSound, RestoreHolds
<1>s. job[j].kind = "setup" => IsManifest(saved.manifest)
  BY <1>0 DEF TakeoverInv, LoginSound, SetupHolds
<1>3. CASE Readable
  <2> DEFINE c == Changed(j, Read)
             step == IF job[j].kind = "restore" /\ c = Fresh THEN "delete" ELSE "bak"
             r == [job[j] EXCEPT !.doc = c, !.step = step]
  <2>1. config' = Read /\ report' = NoReport /\ job' = [job EXCEPT ![j] = r]
    BY <1>0, <1>3 DEF ReadConfig, TakeoverInv, TakeoverTypes
  <2>2. Read \in Tomls /\ Backed(Read)
    BY <1>0, <1>3, DocFacts DEF Readable, Read, TakeoverInv, ConfigSound
  <2>3. IsManifest(saved.manifest) \/ IsManifest(job[j].saw) => Read.active \in before'.actives \cup {"gateway"}
    <3>1. CASE config.is = "zero"
      <4>1. before'.actives = before.actives \cup ({bak.active} \ {"gateway"})
        BY <1>3, <3>1 DEF ReadConfig, TakeoverInv, TakeoverTypes, Befores
      <4> QED BY <3>1, <4>1 DEF Read
    <3>2. CASE config.is # "zero"
      <4>1. config.is = "toml"
        BY <1>3, <3>2 DEF Readable
      <4> QED BY <1>2, <3>2, <4>1 DEF Read, TakeoverInv, ConfigSound, DocSound, Chosen
    <3> QED BY <3>1, <3>2
  <2>4. /\ c \in Tomls /\ Backed(c)
        /\ job[j].kind = "setup" => c.active = IF job[j].how = "gateway" THEN "gateway" ELSE "user"
        /\ job[j].kind = "restore" => Cleaned(c)
        /\ job[j].kind # "setup" =>
             c.active \in {Read.active, "none"} \cup (IF job[j].kind = "restore" THEN {Original(Manifested(j))} ELSE {})
    BY <1>0, <2>2, ChangedFacts
  <2>5. job[j].kind = "restore" /\ IsManifest(job[j].saw) => Original(Manifested(j)) \in before.actives \cup {"gateway"}
    <3>1. Names(job[j].saw) /\ job[j].saw \in Manifests \cup {None}
      BY <1>0 DEF TakeoverInv, ConfigSound, DocSound, JobRecords
    <3>2. CASE IsManifest(job[j].saw)
      <4>1. Manifested(j) = job[j].saw /\ job[j].saw \in Manifests
        BY <3>1, <3>2, ManifestFacts DEF Manifested
      <4> QED BY <3>1, <4>1, OriginalFacts
    <3> QED BY <3>2
  <2> HIDE DEF c
  <2>6. /\ r \in JobRecords /\ r.doc = c /\ r.step = step /\ r.kind = job[j].kind
        /\ r.saw = job[j].saw /\ r.how = job[j].how
    BY <1>0, <2>4, DocFacts DEF JobRecords, Steps
  <2> HIDE DEF r
  <2>7. job' \in [Jobs -> JobRecords] /\ job'[j] = r
    BY <2>1, <2>6 DEF TakeoverInv, TakeoverTypes
  <2>o. OthersIdle(j)'
    BY <1>0, <2>1, <2>6, OthersStayIdle
  <2>8. TakeoverTypes'
    BY <1>0, <1>2, <2>1, <2>2, <2>7, DocFacts DEF TakeoverInv, TakeoverTypes
  <2>9. LoginSound'
    <3>1. (job[j].kind = "setup" => SetupHolds(j))' /\ (job[j].kind = "restore" => RestoreHolds(j))'
      BY <1>0, <1>2, <1>r, <1>s, <2>6, <2>7 DEF TakeoverInv, LoginSound, SetupHolds, RestoreHolds
    <3> QED BY <1>0, <1>2, <2>o, <3>1, LoginsOfOne DEF TakeoverInv, LoginSound, Holds
  <2>10. ConfigSound'
    <3>1. Names(job[j].saw)' /\ Names(saved.manifest)' /\ "none" \in before'.actives
      BY <1>0, <1>2, <2>6, <2>7 DEF TakeoverInv, ConfigSound, DocSound, Names
    <3>2. (IsManifest(saved.manifest) \/ IsManifest(job[j].saw))' =>
             Chosen(config)' /\ (job[j].kind # "setup" => Chosen(job[j].doc))'
      <4>1. c.active \in before'.actives \cup {"gateway"}
            \/ ~(IsManifest(saved.manifest) \/ IsManifest(job[j].saw)) \/ job[j].kind = "setup"
        BY <1>r, <1>2, <2>3, <2>4, <2>5, <3>1
      <4> QED BY <1>0, <2>1, <2>3, <2>6, <2>7, <4>1 DEF Chosen
    <3>3. DocSound(j)'
      BY <1>0, <2>4, <2>6, <2>7, <3>1, <3>2 DEF TakeoverInv, ConfigSound, DocSound, Backed, Cleaned
    <3> QED BY <1>0, <2>o, <2>1, <2>2, <3>1, <3>3, DocsOfOne DEF TakeoverInv, ConfigSound, Backed
  <2> QED BY <2>1, <2>8, <2>9, <2>10, NothingReported DEF TakeoverInv
<1>4. CASE ~Readable
  <2>1. UNCHANGED <<port, bak, auth, saved, events, config, before>>
    BY <1>0, <1>4 DEF ReadConfig
  <2>b. bak' \in Docs \ {Zero} /\ Backed(bak') /\ events' \in Nat
    BY <2>1 DEF TakeoverInv, TakeoverTypes, ConfigSound
  <2>2. CASE config.is = "missing" /\ job[j].kind \in {"setup", "websocket"}
    <3> DEFINE c == Changed(j, Fresh)
               r == [job[j] EXCEPT !.doc = c, !.step = "bak"]
    <3>1. job' = [job EXCEPT ![j] = r] /\ report' = NoReport
      BY <1>4, <2>2 DEF ReadConfig
    <3>2. Fresh \in Tomls /\ Backed(Fresh) /\ Fresh.active = "none"
      BY DocFacts DEF Backed
    <3>3. /\ c \in Tomls /\ Backed(c)
          /\ job[j].kind = "setup" => c.active = IF job[j].how = "gateway" THEN "gateway" ELSE "user"
          /\ job[j].kind # "setup" => c.active = "none"
      BY <1>0, <2>2, <3>2, ChangedFacts
    <3> HIDE DEF c
    <3>4. /\ r \in JobRecords /\ r.doc = c /\ r.step = "bak" /\ r.kind = job[j].kind
          /\ r.saw = job[j].saw /\ r.how = job[j].how
      BY <1>0, <3>3, DocFacts DEF JobRecords, Steps
    <3> HIDE DEF r
    <3>5. job' \in [Jobs -> JobRecords] /\ job'[j] = r
      BY <3>1, <3>4 DEF TakeoverInv, TakeoverTypes
    <3>o. OthersIdle(j)'
      BY <1>0, <3>1, <3>4, OthersStayIdle
    <3>6. TakeoverTypes'
      BY <2>1, <3>5 DEF TakeoverInv, TakeoverTypes
    <3>7. LoginSound'
      <4>1. (job[j].kind = "setup" => SetupHolds(j))' /\ (job[j].kind = "restore" => RestoreHolds(j))'
        BY <1>s, <2>1, <2>2, <3>4, <3>5 DEF TakeoverInv, LoginSound, SetupHolds, Holds
      <4> QED BY <2>1, <3>o, <4>1, LoginsOfOne DEF TakeoverInv, LoginSound, Holds
    <3>8. ConfigSound'
      <4>1. DocSound(j)'
        BY <2>1, <2>2, <3>3, <3>4, <3>5 DEF TakeoverInv, ConfigSound, DocSound, Backed, Names, Chosen, Cleaned
      <4> QED BY <2>1, <3>o, <4>1, DocsOfOne DEF TakeoverInv, ConfigSound, Backed, Names
    <3> QED BY <3>1, <3>6, <3>7, <3>8, NothingReported DEF TakeoverInv
  <2>3. CASE config.is = "missing" /\ job[j].kind = "launch"
    <3>1. To(j, "env")
      BY <1>4, <2>3 DEF ReadConfig
    <3> QED BY <1>0, <2>1, <2>b, <2>3, <3>1, MoveKeeps DEF Steps
  <2>4. CASE config.is = "missing" /\ job[j].kind = "restore"
    <3>1. To(j, "auth")
      BY <1>4, <2>4 DEF ReadConfig
    <3>2. Cleaned(config)
      BY <2>4 DEF Cleaned
    <3> QED BY <1>0, <1>r, <2>1, <2>b, <2>4, <3>1, <3>2, MoveKeeps DEF Steps
  <2>5. CASE ~(config.is = "missing" /\ job[j].kind \in {"setup", "websocket", "launch", "restore"})
    <3>1. Report(j, FALSE, FALSE)
      BY <1>4, <2>5 DEF ReadConfig, End
    <3> QED BY <1>0, <2>1, <2>b, <3>1, EndKeeps
  <2> QED BY <2>2, <2>3, <2>4, <2>5
<1> QED BY <1>3, <1>4

LEMMA BackUpKeeps ==
  ASSUME TakeoverInv, NEW j \in Jobs, BackUp(j)
  PROVE  TakeoverInv'
<1>0. /\ job[j].step = "bak" /\ UNCHANGED <<port, config, auth, saved, before, events>>
      /\ bak' = IF config.is = "toml" THEN config ELSE bak
      /\ To(j, IF job[j].kind = "launch" THEN "env" ELSE "write")
  BY DEF BackUp
<1>1. bak' \in Docs \ {Zero} /\ Backed(bak')
  BY <1>0, DocFacts DEF TakeoverInv, TakeoverTypes, ConfigSound
<1>2. job[j].kind = "setup" => IsManifest(saved.manifest)
  BY <1>0 DEF TakeoverInv, LoginSound, SetupHolds
<1>3. job[j].kind = "restore" => job[j].saw = saved.manifest
  BY <1>0 DEF TakeoverInv, LoginSound, RestoreHolds
<1> QED BY <1>0, <1>1, <1>2, <1>3, MoveKeeps DEF Steps

LEMMA WriteKeeps ==
  ASSUME TakeoverInv, NEW j \in Jobs, Write(j) \/ RemoveConfig(j)
  PROVE  TakeoverInv'
<1>0. /\ job[j].step \in {"write", "delete"} /\ UNCHANGED <<port, bak, auth, saved, events>>
      /\ job[j] \in JobRecords
  BY DEF Write, RemoveConfig, TakeoverInv, TakeoverTypes
<1>2. /\ before'.logins = before.logins /\ before.actives \subseteq before'.actives
      /\ before' \in Befores
      /\ Write(j) /\ job[j].kind = "setup" /\ job[j].how = "provider" => "user" \in before'.actives
  <2>1. before \in Befores
    BY DEF TakeoverInv, TakeoverTypes
  <2>p. port \in Ports
    BY DEF TakeoverInv, TakeoverTypes
  <2>2. \/ before' = before /\ ~(Write(j) /\ job[j].kind = "setup" /\ job[j].how = "provider")
        \/ before' = [before EXCEPT !.ports = @ \cup {port}, !.actives = @ \cup {"user"}]
        \/ /\ before' = [before EXCEPT !.ports = @ \cup {port}, !.actives = @ \cup {}]
           /\ job[j].how # "provider"
        \/ before' = before /\ RemoveConfig(j)
    BY DEF Write, RemoveConfig
  <2>3. ~(Write(j) /\ RemoveConfig(j))
    BY DEF Write, RemoveConfig
  <2>4. CASE before' = before
    BY <2>1, <2>2, <2>3, <2>4 DEF Befores
  <2>5. CASE before' = [before EXCEPT !.ports = @ \cup {port}, !.actives = @ \cup {"user"}]
    <3>1. PICK ports, actives : ports = before.ports \cup {port} /\ actives = before.actives \cup {"user"}
      OBVIOUS
    <3>2. ports \in SUBSET Ports /\ actives \in SUBSET Providers
      BY <2>1, <2>p, <3>1 DEF Providers, Befores
    <3>3. before' = [before EXCEPT !.ports = ports, !.actives = actives]
      BY <2>5, <3>1
    <3>4. before' \in Befores /\ before'.logins = before.logins /\ before'.actives = actives
      BY <2>1, <3>2, <3>3 DEF Befores
    <3> QED BY <3>1, <3>4
  <2>6. CASE /\ before' = [before EXCEPT !.ports = @ \cup {port}, !.actives = @ \cup {}]
             /\ job[j].how # "provider"
    <3>1. PICK ports, actives : ports = before.ports \cup {port} /\ actives = before.actives \cup {}
      OBVIOUS
    <3>2. ports \in SUBSET Ports /\ actives \in SUBSET Providers
      BY <2>1, <2>p, <3>1 DEF Befores
    <3>3. before' = [before EXCEPT !.ports = ports, !.actives = actives]
      BY <2>6, <3>1
    <3>4. before' \in Befores /\ before'.logins = before.logins /\ before'.actives = actives
      BY <2>1, <3>2, <3>3 DEF Befores
    <3> QED BY <2>6, <3>1, <3>4
  <2> QED BY <2>2, <2>4, <2>5, <2>6
<1>3. /\ job[j].doc \in Docs /\ config' \in Docs /\ Backed(config')
      /\ config' \in {job[j].doc, Missing} /\ (Write(j) => config' = job[j].doc)
  BY <1>0, DocFacts DEF Write, RemoveConfig, JobRecords, TakeoverInv, ConfigSound, DocSound, Backed
<1>c. IsManifest(saved.manifest) \/ IsManifest(job[j].saw) => Chosen(config)'
  <2>1. CASE config' = Missing
    BY <2>1, DocFacts DEF Chosen
  <2>2. CASE Write(j) /\ job[j].kind = "setup"
    BY <1>2, <1>3, <2>2 DEF Chosen, TakeoverInv, ConfigSound, DocSound
  <2>3. CASE Write(j) /\ job[j].kind # "setup"
    BY <1>2, <1>3, <2>3 DEF Chosen, TakeoverInv, ConfigSound, DocSound
  <2> QED BY <2>1, <2>2, <2>3 DEF RemoveConfig
<1>n. Names(saved.manifest)' /\ Names(job[j].saw) /\ "none" \in before'.actives
      /\ (IsManifest(job[j].saw) =>
            /\ job[j].saw.active \in before'.actives \cup {"gateway"}
            /\ job[j].saw.version = 1 => "user" \in before'.actives)
  BY <1>0, <1>2 DEF TakeoverInv, ConfigSound, DocSound, Names
<1>4. CASE To(j, "auth")
  <2>1. /\ job' \in [Jobs -> JobRecords] /\ report' = NoReport
        /\ job'[j].step = "auth" /\ job'[j].kind = job[j].kind /\ job'[j].doc = job[j].doc
        /\ job'[j].saw = job[j].saw /\ job'[j].how = job[j].how
    BY <1>4, JobMoves DEF TakeoverInv, Steps
  <2>o. OthersIdle(j)'
    BY <1>0, <1>4, OthersStayIdle DEF Steps
  <2>2. TakeoverTypes'
    BY <1>0, <1>2, <1>3, <2>1 DEF TakeoverInv, TakeoverTypes
  <2>3. LoginSound'
    <3>1. job[j].kind = "restore" => job[j].saw = saved.manifest
      BY <1>0 DEF TakeoverInv, LoginSound, RestoreHolds
    <3>2. job[j].kind = "setup" /\ Write(j) => IsManifest(saved.manifest)
      BY DEF TakeoverInv, LoginSound, SetupHolds, Write
    <3>3. job[j].kind = "setup" => Write(j)
      <4>1. job[j].kind = "setup" => job[j].step # "delete"
        BY DEF TakeoverInv, LoginSound, SetupHolds
      <4> QED BY <4>1 DEF RemoveConfig
    <3>4. (job[j].kind = "setup" => SetupHolds(j))' /\ (job[j].kind = "restore" => RestoreHolds(j))'
      BY <1>0, <2>1, <3>1, <3>2, <3>3 DEF SetupHolds, RestoreHolds
    <3> QED BY <1>0, <1>2, <2>o, <3>4, LoginsOfOne DEF TakeoverInv, LoginSound, Holds
  <2>4. ConfigSound'
    <3>1. DocSound(j)'
      <4>1. job[j].kind = "restore" => Cleaned(config)'
        BY <1>0, <1>3, DocFacts DEF TakeoverInv, ConfigSound, DocSound, Cleaned
      <4>2. Names(job[j].saw)'
        BY <1>n, <2>1 DEF Names
      <4> QED BY <1>0, <1>2, <1>c, <2>1, <4>1, <4>2 DEF TakeoverInv, ConfigSound, DocSound, Backed, Chosen, Cleaned
    <3> QED BY <1>0, <1>3, <1>n, <2>o, <3>1, DocsOfOne DEF TakeoverInv, ConfigSound, Backed
  <2> QED BY <2>1, <2>2, <2>3, <2>4, NothingReported DEF TakeoverInv
<1>5. CASE Report(j, TRUE, FALSE) /\ job[j].kind # "restore"
  <2>1. job' \in [Jobs -> JobRecords] /\ job'[j] = Idle /\ report'.kind # "restore"
    BY <1>5, JobReports DEF TakeoverInv
  <2>2. Blank(job[j])' /\ OthersIdle(j)'
    BY <1>0, <1>5, <2>1, IdleFacts, OthersStayIdle DEF Blank
  <2>3. RestoreGivesBack'
    BY <2>1 DEF RestoreGivesBack
  <2>4. TakeoverTypes'
    BY <1>0, <1>2, <1>3, <2>1 DEF TakeoverInv, TakeoverTypes
  <2>5. LoginSound'
    BY <1>0, <1>2, <2>2, BlankIsSound, LoginsOfOne DEF TakeoverInv, LoginSound, Holds
  <2>6. ConfigSound'
    <3>1. (IsManifest(saved.manifest) => Chosen(config))'
      BY <1>0, <1>c
    <3> QED BY <1>0, <1>3, <1>n, <2>2, <3>1, BlankIsSound, DocsOfOne DEF TakeoverInv, ConfigSound, Backed
  <2> QED BY <2>3, <2>4, <2>5, <2>6 DEF TakeoverInv
<1> QED BY <1>4, <1>5 DEF Write, RemoveConfig, End

-----------------------------------------------------------------------------
(* A restore, and the ends of the jobs.                                     *)

LEMMA RestoreLoginKeeps ==
  ASSUME TakeoverInv, NEW j \in Jobs, RestoreLogin(j)
  PROVE  TakeoverInv'
<1>0. /\ job[j].kind = "restore" /\ job[j].step = "auth" /\ job[j] \in JobRecords
      /\ UNCHANGED <<port, config, bak, saved, before>> /\ events \in Nat
      /\ job[j].saw = saved.manifest /\ Cleaned(config)
      /\ saved.manifest \in Manifests \cup {None} /\ saved.auth \in Nat /\ auth \in Nat
  BY DEF RestoreLogin, Step, TakeoverInv, TakeoverTypes, LoginSound, RestoreHolds, ConfigSound, DocSound
<1>2. CASE Manifested(j).auth /\ saved.auth = NoLogin
  <2>1. Report(j, FALSE, FALSE) /\ UNCHANGED <<auth, events>>
    BY <1>2 DEF RestoreLogin, End
  <2> QED BY <1>0, <2>1, EndKeeps DEF TakeoverInv, TakeoverTypes
<1>3. ASSUME NEW step \in {"env", "forget"}, To(j, step), auth' \in Nat, auth' \notin {Local, Part}, UNCHANGED events,
             IsManifest(saved.manifest) /\ NoLogin \notin before.logins => auth' \in before.logins
      PROVE  TakeoverInv'
  <2>1. /\ job' \in [Jobs -> JobRecords] /\ report' = NoReport
        /\ job'[j].step = step /\ job'[j].kind = "restore" /\ job'[j].doc = job[j].doc
        /\ job'[j].saw = job[j].saw /\ job'[j].how = job[j].how
    BY <1>0, <1>3, JobMoves DEF TakeoverInv, Steps
  <2>o. OthersIdle(j)'
    BY <1>0, <1>3, OthersStayIdle DEF Steps
  <2>2. TakeoverTypes'
    BY <1>0, <1>3, <2>1 DEF TakeoverInv, TakeoverTypes
  <2>3. LoginSound'
    <3>1. RestoreHolds(j)'
      BY <1>0, <1>3, <2>1 DEF RestoreHolds
    <3> QED BY <1>0, <1>3, <2>o, <2>1, <3>1, LoginsOfOne DEF TakeoverInv, LoginSound, Holds
  <2>4. ConfigSound'
    <3>1. DocSound(j)'
      BY <1>0, <2>1 DEF TakeoverInv, ConfigSound, DocSound, Backed, Names, Chosen, Cleaned
    <3> QED BY <1>0, <2>o, <3>1, DocsOfOne DEF TakeoverInv, ConfigSound, Backed, Names
  <2> QED BY <2>1, <2>2, <2>3, <2>4, NothingReported DEF TakeoverInv
<1>4. CASE Manifested(j).auth /\ saved.auth # NoLogin
  <2>1. \/ auth' = saved.auth /\ To(j, "forget") /\ UNCHANGED events
        \/ auth' = Part /\ CutOff(j)
    BY <1>4 DEF RestoreLogin
  <2>2. IsManifest(saved.manifest) /\ saved.manifest.auth
    BY <1>0, <1>4, ManifestFacts DEF Manifested
  <2>3. saved.auth \in before.logins \ {NoLogin, Local, Part}
    BY <2>2 DEF TakeoverInv, LoginSound, Holds
  <2>4. CASE auth' = saved.auth /\ To(j, "forget") /\ UNCHANGED events
    BY <1>0, <1>3, <2>3, <2>4
  <2>5. CASE auth' = Part /\ CutOff(j)
    <3>1. /\ job' \in [Jobs -> JobRecords] /\ job'[j] = Idle /\ Blank(job[j])' /\ RestoreGivesBack'
          /\ OthersIdle(j)' /\ events' \in Nat
      <4>1. Report(j, FALSE, TRUE) /\ events' = events + 1 /\ TRUE \in BOOLEAN /\ FALSE \in BOOLEAN
        BY <2>5 DEF CutOff
      <4>2. OthersIdle(j)'
        BY <1>0, <4>1, OthersStayIdle
      <4>3. job' \in [Jobs -> JobRecords] /\ job'[j] = Idle /\ RestoreGivesBack'
        BY <4>1, JobReports, FailureReported DEF TakeoverInv
      <4>4. events' \in Nat
        BY <1>0, <4>1
      <4> QED BY <4>2, <4>3, <4>4, IdleFacts DEF Blank
    <3>2. TakeoverTypes'
      BY <1>0, <2>5, <3>1 DEF TakeoverInv, TakeoverTypes, Part
    <3>3. LoginSound'
      BY <1>0, <2>2, <2>5, <3>1, BlankIsSound, LoginsOfOne DEF TakeoverInv, LoginSound, Holds, Part, Local
    <3>4. (IsManifest(saved.manifest) => Chosen(config))'
      BY <1>0 DEF TakeoverInv, ConfigSound, DocSound, Chosen
    <3>5. ConfigSound'
      BY <1>0, <3>1, <3>4, BlankIsSound, DocsOfOne DEF TakeoverInv, ConfigSound, Backed, Names
    <3> QED BY <3>1, <3>2, <3>3, <3>5 DEF TakeoverInv
  <2> QED BY <2>1, <2>4, <2>5
<1>5. CASE ~Manifested(j).auth
  <2>1. /\ auth' = IF auth = Local THEN NoLogin ELSE auth
        /\ To(j, IF job[j].saw.is = "none" THEN "env" ELSE "forget") /\ UNCHANGED events
        /\ auth # Part
    <3>1. auth # Part
      BY <1>0, <1>5, ManifestFacts DEF Manifested, TakeoverInv, LoginSound
    <3> QED BY <1>5, <3>1 DEF RestoreLogin
  <2>2. IsManifest(saved.manifest) => NoLogin \in before.logins
    BY <1>0, <1>5, ManifestFacts DEF Manifested, TakeoverInv, LoginSound, Holds
  <2> QED BY <1>0, <1>3, <2>1, <2>2 DEF NoLogin, Local, Part
<1> QED BY <1>2, <1>4, <1>5

LEMMA SweepKeeps ==
  ASSUME TakeoverInv, before'.harm = {}, NEW j \in Jobs, Sweep(j)
  PROVE  TakeoverInv'
<1>0. /\ job[j].kind = "restore" /\ job[j].step = "forget" /\ job[j] \in JobRecords
      /\ UNCHANGED <<port, config, bak, auth, before>> /\ events' \in Nat
      /\ To(j, "env") \/ Report(j, FALSE, TRUE)
      /\ auth \notin {Local, Part}
  <2>1. Harmed("swept") => before'.harm # {}
    BY DEF Harmed, TakeoverInv, TakeoverTypes, Befores
  <2>2. events \in Nat /\ job[j] \in JobRecords
    BY DEF TakeoverInv, TakeoverTypes
  <2>3. job[j].kind = "restore" /\ job[j].step = "forget"
    BY DEF Sweep, Step
  <2>4. auth \notin {Local, Part}
    BY <2>3 DEF TakeoverInv, LoginSound, RestoreHolds
  <2>5. UNCHANGED before
    BY <2>1 DEF Sweep
  <2>6. CASE To(j, "env") /\ UNCHANGED events
    BY <2>2, <2>3, <2>4, <2>5, <2>6 DEF Sweep
  <2>7. CASE CutOff(j)
    <3>1. events' = events + 1 /\ Report(j, FALSE, TRUE)
      BY <2>7 DEF CutOff
    <3>2. events' \in Nat
      BY <2>2, <3>1
    <3> QED BY <2>2, <2>3, <2>4, <2>5, <3>1, <3>2 DEF Sweep
  <2>8. CASE To(j, "env") /\ events' = events + 1
    <3>1. events' \in Nat
      BY <2>2, <2>8
    <3> QED BY <2>2, <2>3, <2>4, <2>5, <2>8, <3>1 DEF Sweep
  <2>9. \/ To(j, "env") /\ UNCHANGED events
        \/ CutOff(j)
        \/ To(j, "env") /\ events' = events + 1
    BY DEF Sweep
  <2> QED BY <2>6, <2>7, <2>8, <2>9
<1>2. /\ saved' \in [manifest : Manifests \cup {None}, auth : Nat]
      /\ saved' = saved \/ ~IsManifest(saved'.manifest)
  <2> DEFINE s == [saved EXCEPT !.manifest = None]
  <2>1. saved' \in {Unsaved, saved, s}
    <3> DEFINE c == [saved EXCEPT !.auth = NoLogin]
    <3>1. saved' \in {Unsaved, saved, s, c}
      BY DEF Sweep
    <3>2. saved' = c => saved'.manifest = None \/ saved'.auth = saved.auth
      BY DEF Sweep, Harmed, TakeoverInv, TakeoverTypes, Befores, Unsaved
    <3>3. c.manifest = saved.manifest /\ c.auth = NoLogin
      BY DEF TakeoverInv, TakeoverTypes
    <3>4. c.manifest = None => c = s \/ c = Unsaved
      BY DEF TakeoverInv, TakeoverTypes, Unsaved
    <3>5. c.auth = saved.auth => c = saved
      BY DEF TakeoverInv, TakeoverTypes
    <3> HIDE DEF c, s
    <3> QED BY <3>1, <3>2, <3>3, <3>4, <3>5
  <2>2. Unsaved \in [manifest : Manifests \cup {None}, auth : Nat] /\ ~IsManifest(Unsaved.manifest)
    BY ManifestFacts DEF Unsaved, NoLogin
  <2>3. s \in [manifest : Manifests \cup {None}, auth : Nat] /\ ~IsManifest(s.manifest)
    BY ManifestFacts DEF TakeoverInv, TakeoverTypes
  <2> HIDE DEF s
  <2> QED BY <2>1, <2>2, <2>3 DEF TakeoverInv, TakeoverTypes
<1>3. OthersIdle(j)'
  BY <1>0, OthersStayIdle DEF Steps
<1>4. CASE To(j, "env")
  <2>1. /\ job' \in [Jobs -> JobRecords] /\ report' = NoReport
        /\ job'[j].step = "env" /\ job'[j].kind = "restore" /\ job'[j].doc = job[j].doc
        /\ job'[j].saw = job[j].saw /\ job'[j].how = job[j].how
    BY <1>0, <1>4, JobMoves DEF TakeoverInv, Steps
  <2>2. TakeoverTypes'
    BY <1>0, <1>2, <2>1 DEF TakeoverInv, TakeoverTypes
  <2>3. LoginSound'
    <3>1. RestoreHolds(j)'
      BY <1>0, <2>1 DEF TakeoverInv, LoginSound, RestoreHolds
    <3> QED BY <1>0, <1>2, <1>3, <2>1, <3>1, LoginsOfOne DEF TakeoverInv, LoginSound, Holds
  <2>4. ConfigSound'
    <3>1. DocSound(j)'
      BY <1>0, <1>2, <2>1 DEF TakeoverInv, ConfigSound, DocSound, Backed, Names, Chosen, Cleaned
    <3> QED BY <1>0, <1>2, <1>3, <3>1, DocsOfOne DEF TakeoverInv, ConfigSound, Backed, Names
  <2> QED BY <2>1, <2>2, <2>3, <2>4, NothingReported DEF TakeoverInv
<1>5. CASE Report(j, FALSE, TRUE)
  <2>1. /\ job' \in [Jobs -> JobRecords] /\ job'[j] = Idle /\ Blank(job[j])' /\ RestoreGivesBack'
    BY <1>5, JobReports, FailureReported, IdleFacts DEF TakeoverInv, Blank
  <2>2. TakeoverTypes'
    BY <1>0, <1>2, <2>1 DEF TakeoverInv, TakeoverTypes
  <2>3. LoginSound'
    BY <1>0, <1>2, <1>3, <2>1, BlankIsSound, LoginsOfOne DEF TakeoverInv, LoginSound, Holds
  <2>4. (IsManifest(saved.manifest) => Chosen(config))'
    BY <1>0, <1>2 DEF TakeoverInv, ConfigSound, DocSound, Chosen
  <2>5. ConfigSound'
    BY <1>0, <1>2, <1>3, <2>1, <2>4, BlankIsSound, DocsOfOne DEF TakeoverInv, ConfigSound, Backed, Names
  <2> QED BY <2>1, <2>2, <2>3, <2>5 DEF TakeoverInv
<1> QED BY <1>0, <1>4, <1>5

\* a restore that ends well has left nothing behind
LEMMA EndsWell ==
  ASSUME TakeoverInv, PortSound, NEW j \in Jobs, job[j].step = "env", Report(j, TRUE, FALSE),
         UNCHANGED <<port, config, auth, before>>
  PROVE  RestoreGivesBack'
<1>1. report'.kind = job[j].kind /\ (report'.managed <=> IsManifest(job[j].saw))
  BY JobReports DEF TakeoverInv
<1>2. CASE job[j].kind = "restore"
  <2>1. /\ auth \notin {Local, Part}
        /\ IsManifest(job[j].saw) /\ NoLogin \notin before.logins => auth \in before.logins
    BY <1>2 DEF TakeoverInv, LoginSound, RestoreHolds
  <2>2. /\ Cleaned(config) /\ (IsManifest(job[j].saw) => Chosen(config)) /\ Backed(config)
    BY <1>2 DEF TakeoverInv, ConfigSound, DocSound
  <2>3. config.is = "toml" /\ before.ports \subseteq {port} =>
          config.base = "none" /\ config.gateway \notin Ports
    BY <2>2, PortFacts DEF PortSound, Traced, Cleaned
  <2>4. config.is = "toml" => config.base # port /\ config.gateway # port
    BY <2>2 DEF Cleaned
  <2>5. config.is = "toml" /\ before.ports \subseteq {port} =>
          /\ config.active # "gateway"
          /\ IsManifest(job[j].saw) => config.active \in before.actives
    BY <2>2, <2>3 DEF Backed, Chosen
  <2> QED BY <1>1, <2>1, <2>3, <2>4, <2>5 DEF RestoreGivesBack
<1> QED BY <1>1, <1>2 DEF RestoreGivesBack

LEMMA EnvironmentKeeps ==
  ASSUME TakeoverInv, PortSound, NEW j \in Jobs,
         SetEnvironment(j) \/ KeepEnvironment(j) \/ ClearEnvironment(j)
  PROVE  TakeoverInv'
<1>1. /\ job[j].step = "env" /\ Report(j, TRUE, FALSE) /\ events' \in Nat
      /\ UNCHANGED <<port, config, bak, auth, saved, before>>
  <2>0. port \in Ports /\ events \in Nat
    BY DEF TakeoverInv, TakeoverTypes
  <2>1. CASE SetEnvironment(j)
    BY <2>0, <2>1 DEF SetEnvironment, End, files
  <2>2. CASE KeepEnvironment(j)
    <3>1. events' = events + 1
      BY <2>2 DEF KeepEnvironment
    <3>2. events' \in Nat
      BY <2>0, <3>1
    <3>3. /\ job[j].step = "env" /\ Report(j, TRUE, FALSE)
          /\ UNCHANGED <<port, config, bak, auth, saved, before>>
      BY <2>2 DEF KeepEnvironment, End, files
    <3> QED BY <3>2, <3>3
  <2>3. CASE ClearEnvironment(j)
    BY <2>0, <2>3 DEF ClearEnvironment, End, Step, files
  <2> QED BY <2>1, <2>2, <2>3
<1>2. job' \in [Jobs -> JobRecords] /\ job'[j] = Idle
  BY <1>1, JobReports DEF TakeoverInv
<1>3. Blank(job[j])' /\ port' \in Ports /\ OthersIdle(j)'
  BY <1>1, <1>2, IdleFacts, OthersStayIdle DEF Blank, TakeoverInv, TakeoverTypes
<1> QED BY <1>1, <1>2, <1>3, EndsWell, BlankKeeps

LEMMA OperationKeeps ==
  ASSUME TakeoverInv, PortSound, before'.harm = {}, NEW j \in Jobs, Operation(j)
  PROVE  TakeoverInv'
<1>0. bak \in Docs \ {Zero} /\ Backed(bak) /\ events \in Nat
  BY DEF TakeoverInv, TakeoverTypes, ConfigSound
<1>1. CASE ClearCaches(j)
  BY <1>0, <1>1, MoveKeeps DEF ClearCaches, Step, files, Steps
<1>2. CASE Enable(j)
  <2>1. job[j].kind # "restore"
    BY <1>2 DEF Enable, TakeoverInv, LoginSound, RestoreHolds
  <2> QED BY <1>0, <1>2, <2>1, MoveKeeps DEF Enable, files, Steps
<1>3. CASE BreakOff(j)
  <2>1. /\ events' \in Nat /\ job[j] # Idle /\ Report(j, FALSE, TRUE)
        /\ UNCHANGED <<port, config, bak, auth, saved, before>>
    <3>1. events' = events + 1 /\ Report(j, FALSE, TRUE) /\ job[j] # Idle
      BY <1>3 DEF BreakOff, CutOff
    <3>2. events' \in Nat
      BY <1>0, <3>1
    <3> QED BY <1>3, <3>1, <3>2 DEF BreakOff, files
  <2> QED BY <2>1, EndKeeps
<1> QED BY <1>1, <1>2, <1>3, CheckBackupKeeps, CopyLoginKeeps, WriteManifestKeeps, ReadManifestKeeps,
           ReadConfigKeeps, BackUpKeeps, WriteKeeps, WriteLoginKeeps, RestoreLoginKeeps, SweepKeeps,
           EnvironmentKeeps DEF Operation

-----------------------------------------------------------------------------
(* The user, the app and the machine.                                       *)

LEMMA LogsInKeeps ==
  ASSUME TakeoverInv, LogsIn
  PROVE  TakeoverInv'
<1>0. /\ UNCHANGED <<port, config, job, bak, saved>> /\ report' = NoReport /\ events' \in Nat
      /\ auth' \in Nat /\ auth' \notin {Local, Part}
  BY DEF LogsIn, Happens, First, Local, Part, NoLogin, TakeoverInv, TakeoverTypes
<1>1. /\ before' \in Befores
      /\ before'.actives = before.actives /\ before.logins \subseteq before'.logins
      /\ \A j \in Jobs : job[j].step \in {"copy", "manifest"} \/ job[j].kind = "restore" =>
           auth' \in before'.logins
  BY <1>0 DEF LogsIn, TakeoverInv, TakeoverTypes, Befores
<1>2. TakeoverTypes'
  BY <1>0, <1>1 DEF TakeoverInv, TakeoverTypes
<1>3. LoginSound'
  <2>2. ASSUME NEW j \in Jobs, job[j].kind = "setup" PROVE SetupHolds(j)'
    <3>1. SetupHolds(j)
      BY <2>2 DEF TakeoverInv, LoginSound
    <3>2. Holds(job[j].saw) => Holds(job[j].saw)'
      BY <1>0, <1>1 DEF Holds
    <3> QED BY <1>0, <1>1, <3>1, <3>2 DEF SetupHolds
  <2>3. ASSUME NEW j \in Jobs, job[j].kind = "restore" PROVE RestoreHolds(j)'
    BY <1>0, <1>1, <2>3 DEF TakeoverInv, LoginSound, RestoreHolds
  <2>4. IsManifest(saved.manifest) => Holds(saved.manifest)'
    BY <1>0, <1>1 DEF TakeoverInv, LoginSound, Holds
  <2> QED BY <1>0, <2>2, <2>3, <2>4 DEF TakeoverInv, LoginSound, Alone
<1>4. ConfigSound'
  BY <1>0, <1>1 DEF TakeoverInv, ConfigSound, DocSound, Backed, Names, Chosen, Cleaned
<1> QED BY <1>0, <1>2, <1>3, <1>4, NothingReported DEF TakeoverInv

LEMMA EditsConfigKeeps ==
  ASSUME TakeoverInv, EditsConfig
  PROVE  TakeoverInv'
<1> DEFINE doc == IF config.is = "missing" THEN Fresh ELSE config
<1>0. /\ UNCHANGED <<port, auth, job, bak, saved>> /\ report' = NoReport /\ events' \in Nat
      /\ config \in Docs /\ config.is # "zero"
  BY DEF EditsConfig, Happens, TakeoverInv, TakeoverTypes
<1>1. /\ doc \in Tomls /\ Backed(doc)
      /\ config.is = "missing" => doc.base = "none" /\ doc.gateway = "none" /\ doc.active = "none"
      /\ config.is # "missing" => doc = config
  BY <1>0, DocFacts DEF TakeoverInv, ConfigSound, Backed
<1>2. PICK active \in {doc.active, "user"} :
        /\ config' = [doc EXCEPT !.own = TRUE, !.active = active, !.provider = doc.provider \/ active = "user"]
        /\ before' = [before EXCEPT !.actives = @ \cup ({active} \ {"gateway"})]
  BY DEF EditsConfig
<1> HIDE DEF doc
<1>3. /\ config' \in Tomls /\ config'.base = doc.base /\ config'.gateway = doc.gateway
      /\ config'.active = active
  BY <1>1, <1>2 DEF Tomls, Providers
<1>4. active \in Providers
  BY <1>1, DocFacts DEF Providers
<1>5. /\ before' \in Befores
      /\ before'.logins = before.logins
      /\ before'.actives = before.actives \cup ({active} \ {"gateway"})
  BY <1>2, <1>4 DEF TakeoverInv, TakeoverTypes, Befores
<1>6. Backed(config)' /\ Chosen(config)' /\ (Cleaned(config) => Cleaned(config)')
  BY <1>0, <1>1, <1>3, <1>5, DocFacts, PortFacts DEF Backed, Chosen, Cleaned, TakeoverInv, TakeoverTypes
<1>7. TakeoverTypes'
  BY <1>0, <1>3, <1>5, DocFacts DEF TakeoverInv, TakeoverTypes
<1>8. LoginSound'
  BY <1>0, <1>5 DEF TakeoverInv, LoginSound, Alone, SetupHolds, RestoreHolds, Holds
<1>9. ConfigSound'
  <2>1. ASSUME NEW j \in Jobs PROVE DocSound(j)'
    <3>1. DocSound(j)
      BY DEF TakeoverInv, ConfigSound
    <3>2. Names(job[j].saw)' /\ (Chosen(job[j].doc) => Chosen(job[j].doc)') /\ (Cleaned(job[j].doc) => Cleaned(job[j].doc)')
      BY <1>0, <1>5, <3>1 DEF DocSound, Names, Chosen, Cleaned
    <3> QED BY <1>0, <1>6, <3>1, <3>2 DEF DocSound, Backed
  <2> QED BY <1>0, <1>5, <1>6, <2>1 DEF TakeoverInv, ConfigSound, Backed, Names
<1> QED BY <1>0, <1>7, <1>8, <1>9, NothingReported DEF TakeoverInv

\* the daemon or the machine stops, and with it the job
LEMMA StopKeeps ==
  ASSUME TakeoverInv, ChangesPort \/ PowerFails
  PROVE  TakeoverInv'
<1>0. /\ UNCHANGED <<auth, before, bak, saved>> /\ report' = NoReport /\ events' \in Nat /\ port' \in Ports
      /\ config' \in {config, Zero} /\ job' = [j \in Jobs |-> Idle]
  BY DEF ChangesPort, PowerFails, Happens, TakeoverInv, TakeoverTypes
<1>1. job' \in [Jobs -> JobRecords] /\ \A j \in Jobs : Blank(job[j])'
  BY <1>0, IdleFacts DEF Blank
<1>2. config' \in Docs /\ Backed(config)' /\ (Chosen(config) => Chosen(config)')
  BY <1>0, DocFacts DEF TakeoverInv, TakeoverTypes, ConfigSound, Backed, Chosen
<1>3. TakeoverTypes'
  BY <1>0, <1>1, <1>2 DEF TakeoverInv, TakeoverTypes
<1>4. LoginSound'
  <2>1. PICK j \in Jobs : TRUE
    BY TakeoverAssumption
  <2>2. OthersIdle(j)'
    BY <1>0 DEF OthersIdle
  <2> QED BY <1>0, <1>1, <2>2, BlankIsSound, LoginsOfOne DEF TakeoverInv, LoginSound, Holds
<1>5. ConfigSound'
  <2>1. PICK j \in Jobs : TRUE
    BY TakeoverAssumption
  <2>2. (IsManifest(saved.manifest) => Chosen(config))'
    BY <1>0, <1>2, <2>1 DEF TakeoverInv, ConfigSound, DocSound
  <2> QED BY <1>0, <1>1, <1>2, <2>2, BlankIsSound DEF TakeoverInv, ConfigSound, Backed, Names
<1> QED BY <1>0, <1>3, <1>4, <1>5, NothingReported DEF TakeoverInv

-----------------------------------------------------------------------------
LEMMA TakeoverStarts ==
  ASSUME Init
  PROVE  TakeoverInv
<1>0. /\ port \in Ports /\ job = [j \in Jobs |-> Idle] /\ report = NoReport /\ events = 0
  BY DEF Init
<1>1. \A j \in Jobs : job[j] = Idle
  BY <1>0
<1>2. RestoreGivesBack
  BY <1>0 DEF NoReport, RestoreGivesBack
<1>3. /\ Own \in Tomls /\ Own.is = "toml" /\ Own.active = "user"
      /\ Taken \in Tomls /\ Taken.is = "toml" /\ Taken.active = "gateway" /\ Taken.gateway = port
      /\ NoLogin \in Nat /\ Local \in Nat /\ First \in Nat /\ First \notin {NoLogin, Local, Part}
      /\ NoLogin \notin {Local, Part} /\ Local # Part
  BY <1>0 DEF Own, Taken, Config, Tomls, Providers, NoLogin, Local, First, Part
<1>4. CASE /\ config \in {Missing, Own}
           /\ auth \in {NoLogin, First} /\ saved = Unsaved
           /\ bak = Missing /\ before = [logins |-> {auth}, actives |-> {"none"}, ports |-> {}, harm |-> {}]
  <2>1. saved \in [manifest : Manifests \cup {None}, auth : Nat] /\ ~IsManifest(saved.manifest)
    BY <1>4, ManifestFacts DEF Unsaved, NoLogin
  <2>2. /\ before \in Befores /\ "none" \in before.actives
        /\ bak \in Docs \ {Zero} /\ config \in Docs /\ auth \in Nat /\ auth \notin {Local, Part}
    BY <1>3, <1>4, DocFacts DEF Providers, Befores
  <2>3. TakeoverTypes
    BY <1>0, <2>1, <2>2, IdleFacts DEF TakeoverTypes
  <2>4. LoginSound
    BY <1>1, <2>1, <2>2, IdleFacts DEF LoginSound, Alone
  <2>5. ConfigSound
    <3>1. Backed(config) /\ Backed(bak)
      BY <1>3, <1>4, DocFacts DEF Backed
    <3> QED BY <1>1, <2>1, <2>2, <3>1, IdleFacts, DocFacts, ManifestFacts DEF ConfigSound, DocSound, Names, Backed, Chosen
  <2> QED BY <1>2, <2>3, <2>4, <2>5 DEF TakeoverInv
<1>5. CASE /\ config = Taken /\ auth = Local /\ bak \in {Own, Taken}
           /\ saved = [manifest |-> Manifest(1, TRUE, TRUE, "none"), auth |-> First]
           /\ before = [logins |-> {First}, actives |-> {"user", "none"}, ports |-> {port}, harm |-> {}]
  <2> DEFINE m == Manifest(1, TRUE, TRUE, "none")
  <2>0. m \in Manifests /\ IsManifest(m) /\ m.auth /\ m.active = "none"
    BY DEF Manifest, Manifests, IsManifest, Providers
  <2> HIDE DEF m
  <2>1. saved \in [manifest : Manifests \cup {None}, auth : Nat] /\ saved.manifest = m /\ saved.auth = First
    BY <1>3, <1>5, <2>0 DEF m
  <2>2. /\ before \in Befores
        /\ before.logins = {First} /\ before.actives = {"user", "none"}
        /\ bak \in Docs \ {Zero} /\ config \in Docs /\ auth \in Nat
    BY <1>0, <1>3, <1>5, DocFacts DEF Providers, Befores
  <2>3. TakeoverTypes
    BY <1>0, <2>1, <2>2, IdleFacts DEF TakeoverTypes
  <2>4. LoginSound
    BY <1>1, <1>3, <2>0, <2>1, <2>2, IdleFacts DEF LoginSound, Alone, Holds
  <2>5. ConfigSound
    <3>1. Backed(config) /\ Backed(bak) /\ Chosen(config)
      BY <1>0, <1>3, <1>5 DEF Backed, Chosen
    <3>2. Names(saved.manifest)
      BY <2>0, <2>1, <2>2 DEF Names
    <3> QED BY <1>1, <2>1, <2>2, <3>1, <3>2, IdleFacts, DocFacts, ManifestFacts DEF ConfigSound, DocSound, Names, Backed, Chosen
  <2> QED BY <1>2, <2>3, <2>4, <2>5 DEF TakeoverInv
<1> QED BY <1>4, <1>5 DEF Init

LEMMA TakeoverKeeps ==
  ASSUME TakeoverInv, PortSound, before'.harm = {}, [Next]_vars
  PROVE  TakeoverInv'
<1>1. CASE Next
  BY <1>1, AskKeeps, OperationKeeps, LogsInKeeps, EditsConfigKeeps, StopKeeps DEF Next
<1>2. CASE UNCHANGED vars
  BY <1>2 DEF vars, files, session, TakeoverInv, TakeoverTypes, LoginSound, Alone, SetupHolds, RestoreHolds,
              Holds, ConfigSound, DocSound, Backed, Names, Chosen, Cleaned, RestoreGivesBack
<1> QED BY <1>1, <1>2

-----------------------------------------------------------------------------
(* The ports, and what befell the backup.                                   *)

LEMMA TracedMore ==
  ASSUME NEW d, NEW P, NEW Q, P \subseteq Q, Traced(d, P)
  PROVE  Traced(d, Q)
BY DEF Traced

LEMMA ChangedTraces ==
  ASSUME TakeoverInv, NEW j \in Jobs, job[j].step = "read",
         NEW d \in Tomls, NEW P, Traced(d, P)
  PROVE  Traced(Changed(j, d), P \cup IF job[j].kind = "setup" THEN {port} ELSE {})
<1>0. d.is = "toml" /\ d.base \in P \cup {"none"} /\ d.gateway \in P \cup {"none", "stub"}
  BY DocFacts DEF Traced
<1>1. CASE job[j].kind = "setup"
  <2>1. Changed(j, d) = WriteConfig(d, job[j].how)
    BY <1>1 DEF Changed
  <2>2. /\ Changed(j, d).base = port
        /\ Changed(j, d).gateway \in {port, d.gateway}
    BY <2>1 DEF WriteConfig, Tomls
  <2> QED BY <1>0, <1>1, <2>2 DEF Traced
<1>2. CASE job[j].kind = "restore"
  <2> DEFINE m == Manifested(j)
             original == Original(m)
  <2>1. Changed(j, d) = CleanConfig(d, m, original)
    BY <1>2 DEF Changed
  <2> HIDE DEF m, original
  <2>2. Changed(j, d).base \in {d.base, "none"} /\ Changed(j, d).gateway \in {d.gateway, "none"}
    BY <2>1 DEF CleanConfig, Tomls
  <2> QED BY <1>0, <1>2, <2>2 DEF Traced
<1>3. CASE job[j].kind = "delete"
  <2>1. Changed(j, d) = DeleteProvider(d, job[j].how)
    BY <1>3 DEF Changed
  <2>2. Changed(j, d).base = d.base /\ Changed(j, d).gateway \in {d.gateway, "none"}
    BY <2>1 DEF DeleteProvider, Tomls
  <2> QED BY <1>0, <1>3, <2>2 DEF Traced
<1>4. CASE job[j].kind = "websocket"
  <2>1. Changed(j, d) = SetWebsocket(d, job[j].how)
    BY <1>4 DEF Changed
  <2>2. Changed(j, d).base = d.base /\ Changed(j, d).gateway \in {d.gateway, "stub"}
    BY <2>1 DEF SetWebsocket, Tomls
  <2> QED BY <1>0, <1>4, <2>2 DEF Traced
<1>5. CASE job[j].kind \notin {"setup", "restore", "delete", "websocket"}
  <2>1. Changed(j, d) = d
    BY <1>5 DEF Changed
  <2> QED BY <1>0, <1>5, <2>1 DEF Traced
<1> QED BY <1>1, <1>2, <1>3, <1>4, <1>5

LEMMA BlanksAreTraced ==
  \A P : Traced(Missing, P) /\ Traced(Zero, P) /\ Traced(Fresh, P)
BY DocFacts DEF Traced

\* the ports stay, or a setup adds the present one
LEMMA HistoryGrows ==
  ASSUME TakeoverInv, [Next]_vars
  PROVE  before.ports \subseteq before'.ports
<1>0. before \in Befores
  BY DEF TakeoverInv, TakeoverTypes
<1>1. ASSUME NEW j \in Jobs, Ask(j) \/ AskRepair(j) PROVE before.ports \subseteq before'.ports
  BY <1>0, <1>1 DEF Ask, AskRepair, Start, Harmed, Befores
<1>2. ASSUME NEW j \in Jobs, Operation(j) PROVE before.ports \subseteq before'.ports
  BY <1>0, <1>2 DEF Operation, CheckBackup, CopyLogin, WriteManifest, ReadManifest, ReadConfig, BackUp, Write,
                    RemoveConfig, WriteLogin, RestoreLogin, Sweep, ClearCaches, Enable, SetEnvironment,
                    KeepEnvironment, ClearEnvironment, BreakOff, Harmed, Befores
<1>3. CASE LogsIn \/ EditsConfig \/ ChangesPort \/ PowerFails
  BY <1>0, <1>3 DEF LogsIn, EditsConfig, ChangesPort, PowerFails, Befores
<1> QED BY <1>1, <1>2, <1>3 DEF Next, vars

LEMMA PortsKeep ==
  ASSUME TakeoverInv, PortSound, [Next]_vars
  PROVE  PortSound'
<1> DEFINE P == before.ports
           Q == before'.ports
           Ours(j) == IF job[j].kind = "setup" THEN {port} ELSE {}
<1>0. /\ P \subseteq Q /\ job \in [Jobs -> JobRecords] /\ port \in Ports
      /\ Traced(config, P) /\ Traced(bak, P) /\ \A j \in Jobs : Traced(job[j].doc, P \cup Ours(j))
  BY HistoryGrows DEF TakeoverInv, TakeoverTypes, PortSound
<1>i. Traced(Idle.doc, Q)
  BY IdleFacts, BlanksAreTraced
<1>2. Traced(config, Q) /\ Traced(bak, Q)
  BY <1>0, TracedMore
<1>s. ASSUME NEW j \in Jobs PROVE Traced(job[j].doc, Q \cup Ours(j))
  <2>1. P \cup Ours(j) \subseteq Q \cup Ours(j) /\ Traced(job[j].doc, P \cup Ours(j))
    BY <1>0
  <2> HIDE DEF P, Q, Ours
  <2> QED BY <2>1, TracedMore
\* a job's document stays, or it is blank
<1>1. ASSUME UNCHANGED port, Traced(config', Q), Traced(bak', Q), NEW j \in Jobs,
             \/ job'[j].doc = job[j].doc /\ job'[j].kind = job[j].kind
             \/ job'[j].doc = Missing
             \/ Traced(job'[j].doc, Q \cup Ours(j)) /\ job'[j].kind = job[j].kind,
             \A k \in Jobs : k # j => job'[k] = job[k]
      PROVE  PortSound'
  <2>1. ASSUME NEW k \in Jobs
        PROVE  Traced(job'[k].doc, Q \cup IF job'[k].kind = "setup" THEN {port'} ELSE {})
    <3>1. Traced(job[k].doc, Q \cup Ours(k))
      BY <1>s
    <3>2. CASE k # j
      BY <1>1, <3>1, <3>2
    <3>3. CASE k = j
      BY <1>1, <3>1, <3>3, BlanksAreTraced
    <3> QED BY <3>2, <3>3
  <2> QED BY <1>1, <2>1 DEF PortSound
<1> HIDE DEF P, Q
<1>3. ASSUME NEW j \in Jobs, Ask(j) \/ AskRepair(j) PROVE PortSound'
  <2>1. PICK new \in JobRecords : Start(j, new) /\ new.doc = Missing
    BY <1>3, JobStarts DEF Ask, AskRepair, Kinds, Steps
  <2>2. /\ job' = [job EXCEPT ![j] = new] /\ UNCHANGED <<port, config, bak>>
    BY <2>1 DEF Start, files
  <2> QED BY <1>0, <1>1, <1>2, <2>1, <2>2
<1>4. ASSUME NEW j \in Jobs, Operation(j) PROVE PortSound'
  <2>0. job[j] \in JobRecords /\ TakeoverTypes /\ UNCHANGED port
    <3>1. UNCHANGED port
      BY <1>4 DEF Operation, CheckBackup, CopyLogin, WriteManifest, ReadManifest, ReadConfig, BackUp, Write,
                  RemoveConfig, WriteLogin, RestoreLogin, Sweep, ClearCaches, Enable, SetEnvironment,
                  KeepEnvironment, ClearEnvironment, BreakOff
    <3> QED BY <1>0, <3>1 DEF TakeoverInv
  <2>1. ASSUME UNCHANGED <<config, bak>>,
               \/ \E step \in Steps : To(j, step)
               \/ \E ok, cut \in BOOLEAN : Report(j, ok, cut)
        PROVE  PortSound'
    <3>1. CASE \E step \in Steps : To(j, step)
      BY <1>1, <1>2, <2>0, <2>1, <3>1, JobMoves
    <3>2. CASE \E ok, cut \in BOOLEAN : Report(j, ok, cut)
      BY <1>1, <1>2, <2>0, <2>1, <3>2, JobReports, IdleFacts
    <3> QED BY <2>1, <3>1, <3>2
  <2>2. CASE CopyLogin(j) \/ WriteManifest(j) \/ WriteLogin(j) \/ RestoreLogin(j) \/ Sweep(j) \/ ClearCaches(j)
             \/ Enable(j) \/ SetEnvironment(j) \/ KeepEnvironment(j) \/ ClearEnvironment(j) \/ BreakOff(j)
    <3>1. UNCHANGED <<config, bak>>
      BY <2>2 DEF CopyLogin, WriteManifest, WriteLogin, RestoreLogin, Sweep, ClearCaches, Enable,
                  SetEnvironment, KeepEnvironment, ClearEnvironment, BreakOff, files
    <3>2. \/ \E step \in {"manifest", "read", "caches", "forget", "env", "switch"} : To(j, step)
          \/ \E ok, cut \in BOOLEAN : Report(j, ok, cut)
      BY <2>2 DEF CopyLogin, WriteManifest, WriteLogin, RestoreLogin, Sweep, ClearCaches, Enable,
                  SetEnvironment, KeepEnvironment, ClearEnvironment, BreakOff, CutOff, End
    <3> QED BY <2>1, <3>1, <3>2 DEF Steps
  <2>3. CASE CheckBackup(j) \/ ReadManifest(j)
    <3>1. UNCHANGED <<config, bak>>
      BY <2>3 DEF CheckBackup, ReadManifest, files
    <3>2. \/ To(j, "read") \/ Report(j, FALSE, FALSE)
          \/ /\ job'[j].doc = job[j].doc /\ job'[j].kind = job[j].kind
             /\ \A k \in Jobs : k # j => job'[k] = job[k]
      <4>1. CASE CheckBackup(j)
        <5>1. CASE To(j, "read") \/ End(j, FALSE)
          BY <5>1 DEF End
        <5>2. CASE ~(To(j, "read") \/ End(j, FALSE))
          <6> DEFINE active == IF config.is = "toml" THEN config.active ELSE "none"
                     saw == Manifest(2, config.is = "toml", auth # NoLogin, active)
                     step == IF auth # NoLogin THEN "copy" ELSE "manifest"
          <6>1. job' = [job EXCEPT ![j].saw = saw, ![j].step = step]
            BY <4>1, <5>2 DEF CheckBackup
          <6> HIDE DEF saw, step
          <6> QED BY <1>0, <2>0, <6>1 DEF JobRecords
        <5> QED BY <5>1, <5>2
      <4>2. CASE ReadManifest(j)
        <5>1. CASE End(j, FALSE)
          BY <5>1 DEF End
        <5>2. CASE ~End(j, FALSE)
          <6>1. job' = [job EXCEPT ![j].step = "read", ![j].saw = saved.manifest]
            BY <4>2, <5>2 DEF ReadManifest
          <6> QED BY <1>0, <2>0, <6>1 DEF JobRecords
        <5> QED BY <5>1, <5>2
      <4> QED BY <2>3, <4>1, <4>2
    <3> QED BY <1>1, <1>2, <2>0, <2>1, <3>1, <3>2 DEF Steps
  <2>4. CASE ReadConfig(j)
    <3>0. job[j].step = "read" /\ UNCHANGED bak
      BY <2>4 DEF ReadConfig
    <3>1. CASE Readable
      <4> DEFINE c == Changed(j, Read)
      <4>1. /\ config' = Read
            /\ \E step : job' = [job EXCEPT ![j].doc = c, ![j].step = step]
        BY <2>4, <3>1 DEF ReadConfig
      <4>2. Read \in Tomls /\ Traced(Read, Q)
        BY <1>2, <2>0, <3>1, DocFacts DEF Readable, Read, TakeoverTypes
      <4>3. Traced(c, Q \cup Ours(j))
        BY <3>0, <4>2, ChangedTraces
      <4> HIDE DEF c
      <4>4. /\ job'[j].doc = c /\ job'[j].kind = job[j].kind
            /\ \A k \in Jobs : k # j => job'[k] = job[k]
        BY <1>0, <2>0, <4>1 DEF JobRecords
      <4> QED BY <1>1, <1>2, <2>0, <3>0, <4>1, <4>2, <4>3, <4>4
    <3>2. CASE ~Readable
      <4> DEFINE c == Changed(j, Fresh)
      <4>1. /\ UNCHANGED config
            /\ \/ job' = [job EXCEPT ![j].doc = c, ![j].step = "bak"]
               \/ To(j, "env") \/ To(j, "auth") \/ Report(j, FALSE, FALSE)
        BY <2>4, <3>2 DEF ReadConfig, End
      <4>2. CASE job' = [job EXCEPT ![j].doc = c, ![j].step = "bak"]
        <5>1. Traced(c, Q \cup Ours(j))
          BY <3>0, DocFacts, BlanksAreTraced, ChangedTraces
        <5> HIDE DEF c
        <5>2. /\ job'[j].doc = c /\ job'[j].kind = job[j].kind
              /\ \A k \in Jobs : k # j => job'[k] = job[k]
          BY <1>0, <2>0, <4>2 DEF JobRecords
        <5> QED BY <1>1, <1>2, <2>0, <3>0, <4>1, <5>1, <5>2
      <4>3. CASE To(j, "env") \/ To(j, "auth") \/ Report(j, FALSE, FALSE)
        BY <2>1, <3>0, <4>1, <4>3 DEF Steps
      <4> QED BY <4>1, <4>2, <4>3
    <3> QED BY <3>1, <3>2
  <2>5. CASE BackUp(j)
    <3>1. /\ UNCHANGED config /\ bak' \in {config, bak}
          /\ To(j, IF job[j].kind = "launch" THEN "env" ELSE "write")
      BY <2>5 DEF BackUp
    <3>2. /\ job'[j].doc = job[j].doc /\ job'[j].kind = job[j].kind
          /\ \A k \in Jobs : k # j => job'[k] = job[k]
      BY <2>0, <3>1, JobMoves DEF Steps
    <3> QED BY <1>1, <1>2, <2>0, <3>1, <3>2
  <2>6. CASE Write(j) \/ RemoveConfig(j)
    <3>1. /\ UNCHANGED bak /\ config' \in {job[j].doc, Missing}
          /\ To(j, "auth") \/ Report(j, TRUE, FALSE)
      BY <2>6 DEF Write, RemoveConfig, End
    <3>2. job[j].kind = "setup" /\ config' # Missing => port \in Q
      <4>1. before \in Befores
        BY <2>0 DEF TakeoverTypes
      <4> QED BY <2>6, <4>1 DEF Write, RemoveConfig, Befores, Q
    <3>3. Traced(config', Q)
      <4>1. CASE config' = Missing
        BY <4>1, BlanksAreTraced
      <4>2. CASE config' # Missing
        <5>1. P \cup Ours(j) \subseteq Q
          BY <1>0, <3>2, <4>2
        <5> QED BY <1>0, <3>1, <4>2, <5>1, TracedMore
      <4> QED BY <4>1, <4>2
    <3>4. /\ \/ job'[j].doc = job[j].doc /\ job'[j].kind = job[j].kind
             \/ job'[j].doc = Missing
          /\ \A k \in Jobs : k # j => job'[k] = job[k]
      BY <2>0, <3>1, JobMoves, JobReports, IdleFacts DEF Steps
    <3> QED BY <1>1, <1>2, <2>0, <3>1, <3>3, <3>4
  <2> QED BY <1>4, <2>2, <2>3, <2>4, <2>5, <2>6 DEF Operation
<1>5. CASE LogsIn
  <2>1. UNCHANGED <<port, config, bak, job>>
    BY <1>5 DEF LogsIn, Happens
  <2> QED BY <1>2, <1>s, <2>1 DEF PortSound, Q
<1>6. CASE EditsConfig
  <2> DEFINE doc == IF config.is = "missing" THEN Fresh ELSE config
  <2>1. UNCHANGED <<port, bak, job>> /\ config.is # "zero" /\ config \in Docs
    BY <1>6 DEF EditsConfig, Happens, TakeoverInv, TakeoverTypes
  <2>2. doc \in Tomls /\ Traced(doc, Q)
    BY <1>2, <2>1, DocFacts, BlanksAreTraced
  <2>3. PICK active : config' = [doc EXCEPT !.own = TRUE, !.active = active,
                                            !.provider = doc.provider \/ active = "user"]
    BY <1>6 DEF EditsConfig
  <2> HIDE DEF doc
  <2>4. config'.is = "toml" /\ config'.base = doc.base /\ config'.gateway = doc.gateway /\ doc.is = "toml"
    BY <2>2, <2>3 DEF Tomls
  <2>5. Traced(config', Q)
    BY <2>2, <2>4 DEF Traced
  <2> QED BY <1>2, <1>s, <2>1, <2>5 DEF PortSound, Q
<1>7. CASE ChangesPort \/ PowerFails
  <2>1. /\ job' = [j \in Jobs |-> Idle] /\ UNCHANGED bak /\ config' \in {config, Zero}
    BY <1>7 DEF ChangesPort, PowerFails, Happens
  <2>2. Traced(config', Q)
    BY <1>2, <2>1, BlanksAreTraced
  <2> QED BY <1>2, <2>1, <2>2, IdleFacts, BlanksAreTraced DEF PortSound, Q
<1>8. CASE UNCHANGED vars
  BY <1>0, <1>8 DEF vars, files, PortSound, P, Q
<1> QED BY <1>3, <1>4, <1>5, <1>6, <1>7, <1>8 DEF Next

LEMMA PortsStart ==
  ASSUME Init
  PROVE  PortSound
<1>1. \A j \in Jobs : job[j].doc = Missing
  BY IdleFacts DEF Init
<1>2. Traced(config, before.ports) /\ Traced(bak, before.ports)
  <2>1. Traced(Own, before.ports)
    BY DEF Own, Config, Traced
  <2>2. port \in before.ports => Traced(Taken, before.ports)
    BY DEF Taken, Config, Traced
  <2>3. CASE config \in {Missing, Own} /\ bak = Missing
    BY <2>1, <2>3, BlanksAreTraced
  <2>4. CASE config = Taken /\ bak \in {Own, Taken} /\ before.ports = {port}
    BY <2>1, <2>2, <2>4
  <2>5. \/ config \in {Missing, Own} /\ bak = Missing
        \/ config = Taken /\ bak \in {Own, Taken} /\ before.ports = {port}
    <3>1. \/ config \in {Missing, Own} /\ bak = Missing
          \/ /\ config = Taken /\ bak \in {Own, Taken}
             /\ before = [logins |-> {First}, actives |-> {"user", "none"}, ports |-> {port}, harm |-> {}]
      BY Zenon DEF Init
    <3> QED BY <3>1
  <2> QED BY <2>3, <2>4, <2>5
<1> QED BY <1>1, <1>2, BlanksAreTraced DEF PortSound

\* what befell the backup or the jobs is not forgotten
Fields == {"logins", "actives", "ports", "harm"}

LEMMA HarmLasts ==
  ASSUME DOMAIN before = Fields, [Next]_vars
  PROVE  DOMAIN before' = Fields /\ before.harm \subseteq before'.harm
<1>0. "harm" \in DOMAIN before
  BY DEF Fields
<1>1. ASSUME NEW j \in Jobs, Ask(j) \/ AskRepair(j)
      PROVE  DOMAIN before' = Fields /\ before.harm \subseteq before'.harm
  BY <1>0, <1>1 DEF Ask, AskRepair, Start, Harmed
<1>2. ASSUME NEW j \in Jobs, Operation(j)
      PROVE  DOMAIN before' = Fields /\ before.harm \subseteq before'.harm
  BY <1>0, <1>2 DEF Operation, CheckBackup, CopyLogin, WriteManifest, ReadManifest, ReadConfig, BackUp, Write,
                    RemoveConfig, WriteLogin, RestoreLogin, Sweep, ClearCaches, Enable, SetEnvironment,
                    KeepEnvironment, ClearEnvironment, BreakOff, Harmed
<1>3. CASE LogsIn \/ EditsConfig \/ ChangesPort \/ PowerFails
  BY <1>0, <1>3 DEF LogsIn, EditsConfig, ChangesPort, PowerFails
<1> QED BY <1>1, <1>2, <1>3 DEF Next, vars

\* as long as nothing befell them, all is sound
Sound ==
  /\ DOMAIN before = Fields
  /\ before.harm = {} => TakeoverInv /\ PortSound

LEMMA SoundStarts == Init => Sound
<1> SUFFICES ASSUME Init PROVE Sound
  OBVIOUS
<1>1. DOMAIN before = Fields
  BY DEF Init, Fields
<1> QED BY <1>1, TakeoverStarts, PortsStart DEF Sound

LEMMA SoundStays == Sound /\ [Next]_vars => Sound'
<1> SUFFICES ASSUME Sound, [Next]_vars PROVE Sound'
  OBVIOUS
<1>1. DOMAIN before' = Fields /\ before.harm \subseteq before'.harm
  BY HarmLasts DEF Sound
<1>2. ASSUME before'.harm = {} PROVE TakeoverInv' /\ PortSound'
  <2>1. TakeoverInv /\ PortSound
    BY <1>1, <1>2 DEF Sound
  <2> QED BY <1>2, <2>1, TakeoverKeeps, PortsKeep
<1> QED BY <1>1, <1>2 DEF Sound

(* While Codex uses the local identity, or a part of a login, the login it  *)
(* replaced can be given back (codex_app_config.rs, ensure_managed_backup   *)
(* and the restore): wherever a setup or a restore is cut off, within the   *)
(* copy of the login as between two file operations, and whatever the user, *)
(* the app and the machine do meanwhile.  Once a manifest was torn, a copy  *)
(* was removed without its manifest or two jobs ran at once it need not be. *)
THEOREM LoginsAreKept == Spec => []LoginIsKept
<1>1. Sound => LoginIsKept
  BY DEF Sound, TakeoverInv, LoginSound, LoginIsKept, Holds, IsManifest
<1> QED BY <1>1, SoundStarts, SoundStays, PTL DEF Spec

(* A restore that reports success has taken the present port out of         *)
(* config.toml and the local identity out of auth.json; when every setup    *)
(* was made under that port, nothing of the takeover is left, and the       *)
(* provider and the login are back, or the ones the user chose since        *)
(* (uninstall_codex_app and the cleanup it runs).  The same exceptions.     *)
THEOREM RestoresGiveBack == Spec => []RestoreGivesBack
<1>1. Sound => RestoreGivesBack
  BY DEF Sound, TakeoverInv, RestoreGivesBack
<1> QED BY <1>1, SoundStarts, SoundStays, PTL DEF Spec

-----------------------------------------------------------------------------
(* The extension's script (ExtensionPatch).                                 *)

Scripts == [flag : BOOLEAN, by : {"nobody", "absent", "openai", "user"}]
Written == {s \in Scripts : s.by # "absent"}

Directories == [file : Written, backup : Written \cup {Absent}, state : Scripts]

PatchTypes ==
  /\ latest \in Nat \ {0}
  /\ dirs \in [1..latest -> Directories]
  /\ source \in Scripts /\ changes \in Nat
  /\ daemon \in {"backup", "patch", "state"} => source.by # "absent"

\* a script without a flag that is not its own
Untouched(script) == script.flag => latest \in Native

\* the backup is never of a patched script, and without one there is no patch
BackupFirst ==
  /\ Untouched(Dir.backup)
  /\ Dir.backup = Absent => Untouched(Dir.file) /\ daemon # "patch"
  /\ daemon = "backup" => Dir.backup = Absent
  /\ daemon = "copy" => Dir.backup # Absent

TakenBack ==
  /\ daemon = "forget" => Untouched(Dir.file)
  /\ FlagIsTakenBack

PatchInv == PatchTypes /\ BackupFirst /\ TakenBack

LEMMA ScriptFacts ==
  /\ Absent \in Scripts /\ Absent.flag = FALSE /\ Absent.by = "absent"
  /\ Torn \in Written /\ Torn.flag = FALSE /\ Torn # Absent
  /\ \A s \in Written : s \in Scripts /\ s # Absent /\ s.flag \in BOOLEAN
  /\ \A v \in Nat : Shipped(v) \in Written /\ Shipped(v).flag = (v \in Native)
  /\ \A s \in Scripts : s.by # "absent" => Patched(s) \in Written
  /\ \A flag \in BOOLEAN : Script(flag, "user") \in Written /\ Script(flag, "user").flag = flag
<1>1. \A s \in Scripts : s.by # "absent" => Patched(s) \in Written
  BY DEF Patched, Scripts, Written
<1>2. \A v \in Nat : Shipped(v) \in Written /\ Shipped(v).flag = (v \in Native)
  BY DEF Shipped, Script, Scripts, Written
<1> QED BY <1>1, <1>2 DEF Absent, Torn, Script, Scripts, Written

\* a step puts d into the place of the newest version, or leaves it
LEMMA PutKeepsTypes ==
  ASSUME PatchTypes, NEW d \in Directories,
         Put(d), UNCHANGED latest
  PROVE  /\ dirs' \in [1..latest' -> Directories]
         /\ Dir' = d
<1>1. latest \in 1..latest
  BY DEF PatchTypes
<1> QED BY <1>1 DEF PatchTypes, Put, Dir

LEMMA DirType ==
  ASSUME PatchTypes
  PROVE  /\ Dir \in Directories
         /\ Dir.file \in Written /\ Dir.backup \in Written \cup {Absent} /\ Dir.state \in Scripts
         /\ Dir.file \in Scripts /\ Dir.file # Absent
<1>1. latest \in 1..latest
  BY DEF PatchTypes
<1> QED BY <1>1, ScriptFacts DEF PatchTypes, Directories, Dir

LEMMA DaemonStepKeeps ==
  ASSUME PatchInv,
         EnableRemoteControl \/ BackUpScript \/ WritePatch \/ WriteState
           \/ RestoreRemoteControl \/ CopyBack \/ RemoveState
  PROVE  PatchInv'
<1>0. /\ PatchTypes /\ Dir \in Directories /\ Dir.file \in Written /\ Dir.backup \in Written \cup {Absent} /\ Dir.state \in Scripts
      /\ Dir.file \in Scripts /\ Dir.file # Absent /\ Absent \in Scripts
  BY DirType, ScriptFacts DEF PatchInv
<1>f. Dir.file.by # "absent"
  BY <1>0 DEF Written
<1>1. CASE EnableRemoteControl
  <2>1. UNCHANGED <<dirs, latest, changes>> /\ Dir' = Dir
    BY <1>1 DEF EnableRemoteControl, Dir
  <2>2. /\ action' \in {"none", "error", "already_supported", "already_patched"}
        /\ \/ daemon' = "up" /\ source' = Absent
           \/ daemon' \in {"state", "patch"} /\ source' = Dir.file /\ Dir.backup # Absent
           \/ daemon' = "backup" /\ source' = Dir.file /\ Dir.backup = Absent
    BY <1>1 DEF EnableRemoteControl, Answer, Go
  <2>3. PatchTypes'
    BY <1>0, <1>f, <2>1, <2>2 DEF PatchTypes
  <2>4. BackupFirst'
    BY <2>1, <2>2 DEF PatchInv, BackupFirst, Untouched
  <2>5. TakenBack'
    BY <2>2 DEF TakenBack, FlagIsTakenBack
  <2> QED BY <2>3, <2>4, <2>5 DEF PatchInv
<1>2. CASE BackUpScript
  <2> DEFINE d == [Dir EXCEPT !.backup = Dir.file]
  <2>1. /\ d \in Directories /\ d.file = Dir.file /\ d.backup = Dir.file
    BY <1>0 DEF Directories
  <2>2. /\ Put(d) /\ UNCHANGED <<latest, source, changes>> /\ daemon' = "patch" /\ action' = "none"
        /\ Dir.backup = Absent /\ daemon = "backup"
    BY <1>2 DEF BackUpScript, Go, PatchInv, BackupFirst
  <2> HIDE DEF d
  <2>3. dirs' \in [1..latest' -> Directories] /\ Dir' = d
    BY <1>0, <2>1, <2>2, PutKeepsTypes
  <2>4. PatchTypes'
    BY <1>0, <2>2, <2>3 DEF PatchTypes
  <2>5. BackupFirst' /\ TakenBack'
    BY <1>0, <2>1, <2>2, <2>3 DEF PatchInv, BackupFirst, Untouched, TakenBack, FlagIsTakenBack
  <2> QED BY <2>4, <2>5 DEF PatchInv
<1>3. CASE WritePatch
  <2> DEFINE d == [Dir EXCEPT !.file = Patched(source)]
  <2>1. Patched(source) \in Written /\ Dir.backup # Absent
    BY <1>0, <1>3, ScriptFacts DEF WritePatch, PatchTypes, PatchInv, BackupFirst
  <2>2. d \in Directories /\ d.backup = Dir.backup
    BY <1>0, <2>1 DEF Directories
  <2>3. /\ Put(d) /\ UNCHANGED <<latest, source, changes>> /\ daemon' = "state" /\ action' = "none"
        /\ daemon = "patch"
    BY <1>3 DEF WritePatch, Go
  <2> HIDE DEF d
  <2>4. dirs' \in [1..latest' -> Directories] /\ Dir' = d
    BY <1>0, <2>2, <2>3, PutKeepsTypes
  <2>5. PatchTypes'
    BY <1>0, <2>3, <2>4 DEF PatchTypes
  <2>6. BackupFirst' /\ TakenBack'
    BY <2>1, <2>2, <2>3, <2>4 DEF PatchInv, BackupFirst, Untouched, TakenBack, FlagIsTakenBack
  <2> QED BY <2>5, <2>6 DEF PatchInv
<1>4. CASE WriteState
  <2> DEFINE d == [Dir EXCEPT !.state = Patched(source)]
  <2>1. Patched(source) \in Scripts
    BY <1>0, <1>4, ScriptFacts DEF WriteState, PatchTypes
  <2>2. d \in Directories /\ d.backup = Dir.backup /\ d.file = Dir.file
    BY <1>0, <2>1 DEF Directories
  <2>3. /\ Put(d) /\ UNCHANGED <<latest, changes>> /\ daemon' = "up" /\ action' = "patched"
        /\ source' = Absent
    BY <1>4 DEF WriteState, Answer
  <2> HIDE DEF d
  <2>4. dirs' \in [1..latest' -> Directories] /\ Dir' = d
    BY <1>0, <2>2, <2>3, PutKeepsTypes
  <2>5. PatchTypes'
    BY <1>0, <2>3, <2>4 DEF PatchTypes
  <2>6. BackupFirst' /\ TakenBack'
    BY <2>2, <2>3, <2>4 DEF PatchInv, BackupFirst, Untouched, TakenBack, FlagIsTakenBack
  <2> QED BY <2>5, <2>6 DEF PatchInv
<1>5. CASE RestoreRemoteControl
  <2>1. UNCHANGED <<dirs, latest, changes>> /\ Dir' = Dir
    BY <1>5 DEF RestoreRemoteControl, Dir
  <2>2. /\ daemon' \in {"down", "copy"} /\ source' \in {source, Absent}
        /\ daemon' = "copy" => Dir.backup # Absent
        /\ \/ Dir.backup = Absent
           \/ action' \in {"none", "skipped_modified"}
           \/ action' = "skipped_unmanaged" /\ ~Dir.file.flag
    BY <1>5 DEF RestoreRemoteControl, Answer, Go
  <2>3. PatchTypes'
    BY <1>0, <2>1, <2>2 DEF PatchTypes
  <2>4. BackupFirst'
    BY <2>1, <2>2 DEF PatchInv, BackupFirst, Untouched
  <2>5. TakenBack'
    BY <2>1, <2>2 DEF PatchInv, BackupFirst, Untouched, TakenBack, FlagIsTakenBack
  <2> QED BY <2>3, <2>4, <2>5 DEF PatchInv
<1>6. CASE CopyBack
  <2> DEFINE d == [Dir EXCEPT !.file = Dir.backup]
  <2>1. /\ Put(d) /\ UNCHANGED <<latest, source, changes>> /\ daemon' = "forget" /\ action' = "none"
        /\ Dir.backup # Absent /\ Untouched(Dir.backup)
    BY <1>6 DEF CopyBack, Go, PatchInv, BackupFirst
  <2>2. d \in Directories /\ d.file = Dir.backup /\ d.backup = Dir.backup
    BY <1>0, <2>1 DEF Directories
  <2> HIDE DEF d
  <2>3. dirs' \in [1..latest' -> Directories] /\ Dir' = d
    BY <1>0, <2>1, <2>2, PutKeepsTypes
  <2>4. PatchTypes'
    BY <1>0, <2>1, <2>3 DEF PatchTypes
  <2>5. BackupFirst' /\ TakenBack'
    BY <2>1, <2>2, <2>3 DEF BackupFirst, Untouched, TakenBack, FlagIsTakenBack
  <2> QED BY <2>4, <2>5 DEF PatchInv
<1>7. CASE RemoveState
  <2> DEFINE d == [Dir EXCEPT !.state = Absent]
  <2>1. /\ UNCHANGED <<latest, changes>> /\ daemon' = "down" /\ source' = Absent
        /\ Untouched(Dir.file)
    BY <1>7 DEF RemoveState, Answer, PatchInv, TakenBack
  <2>2. d \in Directories /\ d.file = Dir.file /\ d.backup = Dir.backup
    BY <1>0 DEF Directories
  <2>3. dirs' = dirs \/ Put(d)
    BY <1>0, <1>7 DEF RemoveState, Put, Dir, PatchTypes, Directories
  <2> HIDE DEF d
  <2>4. /\ dirs' \in [1..latest' -> Directories]
        /\ Dir'.file = Dir.file /\ Dir'.backup = Dir.backup
    <3>1. CASE dirs' = dirs
      BY <1>0, <2>1, <3>1 DEF PatchTypes, Dir
    <3>2. CASE Put(d)
      BY <1>0, <2>1, <2>2, <3>2, PutKeepsTypes
    <3> QED BY <2>3, <3>1, <3>2
  <2>5. PatchTypes'
    BY <1>0, <2>1, <2>4 DEF PatchTypes
  <2>6. BackupFirst' /\ TakenBack'
    BY <2>1, <2>4 DEF PatchInv, BackupFirst, Untouched, TakenBack, FlagIsTakenBack
  <2> QED BY <2>5, <2>6 DEF PatchInv
<1> QED BY <1>1, <1>2, <1>3, <1>4, <1>5, <1>6, <1>7

LEMMA ChangeKeeps ==
  ASSUME PatchInv, Killed \/ Install \/ Edit
  PROVE  PatchInv'
<1>0. /\ PatchTypes /\ Dir \in Directories /\ Dir.file \in Written /\ Dir.backup \in Written \cup {Absent}
      /\ Dir.state \in Scripts /\ Absent \in Scripts /\ Torn \in Written /\ Torn \in Scripts
  BY DirType, ScriptFacts DEF PatchInv
<1>c. changes' \in Nat /\ action' = "none"
  BY <1>0 DEF PatchTypes, Killed, Install, Edit, Change
<1>1. CASE Killed
  <2> DEFINE b == [Dir EXCEPT !.backup = Torn]
             f == [Dir EXCEPT !.file = Torn]
             s == [Dir EXCEPT !.state = Torn]
  <2>1. UNCHANGED latest /\ daemon' = "down" /\ source' = Absent
    BY <1>1 DEF Killed
  <2>2. /\ b \in Directories /\ b.file = Dir.file /\ b.backup = Torn
        /\ f \in Directories /\ f.file = Torn /\ f.backup = Dir.backup
        /\ s \in Directories /\ s.file = Dir.file /\ s.backup = Dir.backup
    BY <1>0 DEF Directories
  <2>3. dirs' = dirs \/ Put(b) \/ Put(f) \/ Put(s)
    <3>1. /\ [dirs EXCEPT ![latest].backup = Torn] = [dirs EXCEPT ![latest] = b]
          /\ [dirs EXCEPT ![latest].file = Torn] = [dirs EXCEPT ![latest] = f]
          /\ [dirs EXCEPT ![latest].state = Torn] = [dirs EXCEPT ![latest] = s]
      BY <1>0 DEF Dir, PatchTypes, Directories
    <3>2. \/ dirs' = dirs
          \/ dirs' = [dirs EXCEPT ![latest].backup = Torn]
          \/ dirs' = [dirs EXCEPT ![latest].file = Torn]
          \/ dirs' = [dirs EXCEPT ![latest].state = Torn]
      BY <1>1 DEF Killed
    <3> QED BY <3>1, <3>2 DEF Put
  <2> HIDE DEF b, f, s
  <2>4. PICK d \in {Dir, b, f, s} : dirs' \in [1..latest' -> Directories] /\ Dir' = d
    <3>1. CASE dirs' = dirs
      BY <1>0, <2>1, <3>1 DEF PatchTypes, Dir
    <3>2. CASE Put(b)
      BY <1>0, <2>1, <2>2, <3>2, PutKeepsTypes
    <3>3. CASE Put(f)
      BY <1>0, <2>1, <2>2, <3>3, PutKeepsTypes
    <3>4. CASE Put(s)
      BY <1>0, <2>1, <2>2, <3>4, PutKeepsTypes
    <3> QED BY <2>3, <3>1, <3>2, <3>3, <3>4
  <2>5. PatchTypes'
    BY <1>0, <1>c, <2>1, <2>4 DEF PatchTypes
  <2>6. BackupFirst' /\ TakenBack'
    BY <1>c, <2>1, <2>2, <2>4, ScriptFacts DEF PatchInv, BackupFirst, Untouched, TakenBack, FlagIsTakenBack
  <2> QED BY <2>5, <2>6 DEF PatchInv
<1>2. ASSUME UNCHANGED <<latest, daemon, source>>,
             NEW script \in Written, script.flag => Dir.file.flag \/ latest \in Native,
             Put([Dir EXCEPT !.file = script])
      PROVE  PatchInv'
  <2> DEFINE d == [Dir EXCEPT !.file = script]
  <2>1. d \in Directories /\ d.file = script /\ d.backup = Dir.backup
    BY <1>0 DEF Directories
  <2>2. Put(d)
    BY <1>2
  <2> HIDE DEF d
  <2>3. dirs' \in [1..latest' -> Directories] /\ Dir' = d
    BY <1>0, <1>2, <2>1, <2>2, PutKeepsTypes
  <2>4. PatchTypes'
    BY <1>0, <1>2, <1>c, <2>3 DEF PatchTypes
  <2>5. BackupFirst' /\ TakenBack'
    BY <1>2, <1>c, <2>1, <2>3 DEF PatchInv, BackupFirst, Untouched, TakenBack, FlagIsTakenBack
  <2> QED BY <2>4, <2>5 DEF PatchInv
<1>3. CASE Install
  <2>1. CASE UNCHANGED latest /\ Put([Dir EXCEPT !.file = Shipped(latest)])
    <3>1. latest \in Nat
      BY <1>0 DEF PatchTypes
    <3>2. Shipped(latest) \in Written /\ (Shipped(latest).flag => latest \in Native)
      BY <3>1, ScriptFacts
    <3> QED BY <1>2, <1>3, <2>1, <3>2 DEF Install
  <2>2. CASE /\ daemon \in {"down", "up"} /\ latest' = latest + 1
             /\ dirs' = [v \in 1..(latest + 1) |-> IF v \in 1..latest THEN dirs[v] ELSE Installed(v)]
    <3>1. latest \in Nat \ {0} /\ latest + 1 \in Nat \ {0} /\ latest + 1 \in 1..(latest + 1)
          /\ latest + 1 \notin 1..latest
      BY <1>0 DEF PatchTypes
    <3>2. \A v \in Nat : Installed(v) \in Directories /\ Installed(v).file = Shipped(v)
                         /\ Installed(v).backup = Absent
      BY <1>0, ScriptFacts DEF Installed, Directories
    <3>3. \A v \in 1..(latest + 1) : v \notin 1..latest => v \in Nat
      BY <3>1
    <3>4. dirs' \in [1..latest' -> Directories]
      BY <1>0, <2>2, <3>2, <3>3 DEF PatchTypes
    <3>5. Dir' = Installed(latest')
      BY <2>2, <3>1 DEF Dir
    <3>6. latest' \in Nat
      BY <2>2, <3>1
    <3>7. Dir'.file = Shipped(latest') /\ Dir'.backup = Absent
      BY <3>2, <3>5, <3>6
    <3>8. Dir'.file.flag => latest' \in Native
      BY <3>6, <3>7, ScriptFacts
    <3>9. UNCHANGED <<daemon, source>>
      BY <1>3 DEF Install
    <3>10. PatchTypes'
      BY <1>0, <1>c, <2>2, <3>1, <3>4, <3>9 DEF PatchTypes
    <3>11. BackupFirst' /\ TakenBack'
      BY <1>c, <2>2, <3>7, <3>8, <3>9, ScriptFacts DEF BackupFirst, Untouched, TakenBack, FlagIsTakenBack
    <3> QED BY <3>10, <3>11 DEF PatchInv
  <2> QED BY <1>3, <2>1, <2>2 DEF Install
<1>4. CASE Edit
  <2>1. PICK flag \in {FALSE, Dir.file.flag} : Put([Dir EXCEPT !.file = Script(flag, "user")])
    BY <1>4 DEF Edit
  <2>2. flag \in BOOLEAN
    BY <1>0, ScriptFacts
  <2>3. Script(flag, "user") \in Written /\ Script(flag, "user").flag = flag
    BY <2>2, ScriptFacts
  <2>4. Script(flag, "user").flag => Dir.file.flag
    BY <2>1, <2>3
  <2> QED BY <1>2, <1>4, <2>1, <2>3, <2>4 DEF Edit
<1> QED BY <1>1, <1>3, <1>4

LEMMA PatchStarts ==
  PatchInit("down") => PatchInv
<1> SUFFICES ASSUME PatchInit("down") PROVE PatchInv
  OBVIOUS
<1>1. /\ latest = 1 /\ dirs = [v \in 1..1 |-> Installed(v)]
      /\ daemon = "down" /\ source = Absent /\ action = "none" /\ changes = 0
  <2>1. {1} = 1..1
    OBVIOUS
  <2> QED BY <2>1 DEF PatchInit
<1>2. Installed(1) \in Directories /\ Installed(1).file = Shipped(1) /\ Installed(1).backup = Absent
  BY ScriptFacts DEF Installed, Directories
<1>3. dirs \in [1..latest -> Directories] /\ Dir = Installed(1)
  <2>1. \A v \in 1..1 : v = 1
    OBVIOUS
  <2> QED BY <1>1, <1>2, <2>1 DEF Dir
<1>4. Dir.file.flag => latest \in Native
  BY <1>1, <1>2, <1>3, ScriptFacts
<1> QED BY <1>1, <1>2, <1>3, <1>4, ScriptFacts
      DEF PatchInv, PatchTypes, BackupFirst, Untouched, TakenBack, FlagIsTakenBack

LEMMA PatchStutters ==
  ASSUME PatchInv, UNCHANGED patchVars
  PROVE  PatchInv'
BY DEF PatchInv, PatchTypes, BackupFirst, Untouched, TakenBack, FlagIsTakenBack, Dir, patchVars

\* However the daemon starts, stops and is killed between two file operations,
\* whatever the user edits and VS Code installs meanwhile: a stop of the daemon
\* that reports the script restored, never patched or not its own leaves no flag
\* in the newest script that the extension does not pass by itself.
THEOREM FlagsAreTakenBack ==
  PatchInit("down") /\ [][PatchNext]_patchVars => []FlagIsTakenBack
<1>1. PatchInv /\ [PatchNext]_patchVars => PatchInv'
  BY DaemonStepKeeps, ChangeKeeps, PatchStutters DEF PatchNext
<1>2. PatchInv => FlagIsTakenBack
  BY DEF PatchInv, TakenBack
<1> QED BY <1>1, <1>2, PatchStarts, PTL
=============================================================================
