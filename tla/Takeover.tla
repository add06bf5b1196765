------------------------------ MODULE Takeover ------------------------------
(***************************************************************************)
(* The takeover of a Codex home: codex_app_config.rs and its callers in    *)
(* web/codex_app.rs and main.rs.  A setup makes Codex talk to the local    *)
(* backend: it saves the login, rewrites config.toml, replaces auth.json   *)
(* by a local identity and sets switches and environment.  A restore takes *)
(* that back.  Both are sequences of file operations that an error or the  *)
(* end of the process may cut off anywhere, and within those writes and    *)
(* removals that are not atomic, while the user and the Codex App go on    *)
(* writing the same two files.                                             *)
(***************************************************************************)
EXTENDS Naturals

CONSTANTS
  Jobs,        \* handlers that run at once; no lock keeps them apart
  Ports,       \* values of `bind` the daemon is started with
  MaxEvent     \* bound: acts of the user and of the app, errors and faults

\* auth.json: missing, the local identity, a part of a copy, or one of the
\* user's logins
NoLogin == 0
Local == 1
Part == 2
First == 3

ASSUME TakeoverAssumption ==
  /\ MaxEvent \in Nat /\ Jobs # {} /\ Ports # {}
  /\ Ports \cap {"none", "user", "stub"} = {}

VARIABLES
  port,        \* the port of the running daemon
  config, bak,        \* config.toml and config.toml.bak
  auth,        \* auth.json
  saved,       \* the managed backup: its manifest and its copy of auth.json
  switch,      \* what makes the app open a remote-control connection
  api,         \* CODEX_API_BASE_URL of the session
  legacy,      \* environment that earlier releases left behind
  cached,      \* Codex holds lists cached under another backend
  job,         \* the jobs
  report,      \* the outcome of the job that ended with the last step
  before,      \* history: what a restore may give back, the ports setups
               \* wrote, and what befell the backup or the jobs
  events       \* acts and faults so far

files == <<config, bak, auth, saved>>
session == <<switch, api, legacy, cached>>
vars == <<port, files, session, job, report, before, events>>

-----------------------------------------------------------------------------
(* config.toml as far as the takeover tells apart: chatgpt_base_url, the   *)
(* active provider, the table of the ai-gateway provider, one of the user, *)
(* the defaults a setup adds, and whether there is anything else.          *)

Missing == [is |-> "missing"]
Zero == [is |-> "zero"]
Config(base, active, gateway, provider, defaults, own) ==
  [is |-> "toml", base |-> base, active |-> active, gateway |-> gateway,
   provider |-> provider, defaults |-> defaults, own |-> own]
Fresh == Config("none", "none", "none", FALSE, FALSE, FALSE)

\* a manifest; "none" without one.  The fallback holds for a restore without.
Manifest(version, existed, login, active) ==
  [is |-> "manifest", version |-> version, config |-> existed, auth |-> login, active |-> active]
None == [is |-> "none"]
Broken == [is |-> "broken"]
Fallback == Manifest(2, TRUE, FALSE, "none")

Unsaved == [manifest |-> None, auth |-> NoLogin]
Idle == [kind |-> "none", step |-> "idle", doc |-> Missing, saw |-> None, how |-> "none"]
Job(kind, step, how) == [Idle EXCEPT !.kind = kind, !.step = step, !.how = how]
NoReport == [kind |-> "none", ok |-> FALSE, managed |-> FALSE, cut |-> FALSE]

\* the user's own configuration, or one an earlier release took over: its
\* manifest has no provider, and config.toml.bak is the user's file or, after
\* a second setup, the managed one
Own == Config("none", "user", "none", TRUE, FALSE, TRUE)
Taken == Config(port, "gateway", port, TRUE, TRUE, TRUE)

Init ==
  /\ port \in Ports
  /\ \/ /\ config \in {Missing, Own}
        /\ auth \in {NoLogin, First} /\ saved = Unsaved
        /\ bak = Missing /\ switch = FALSE /\ api = "none" /\ legacy = {}
        /\ before = [logins |-> {auth}, actives |-> {"none"}, ports |-> {}, harm |-> {}]
     \/ /\ config = Taken /\ auth = Local /\ bak \in {Own, Taken}
        /\ saved = [manifest |-> Manifest(1, TRUE, TRUE, "none"), auth |-> First]
        /\ switch = TRUE /\ api = port /\ legacy = {"bypass", "cli"}
        /\ before = [logins |-> {First}, actives |-> {"user", "none"}, ports |-> {port}, harm |-> {}]
  /\ cached = TRUE
  /\ job = [j \in Jobs |-> Idle] /\ report = NoReport /\ events = 0

-----------------------------------------------------------------------------
(* What a job makes of the document it read.                               *)

\* how is "gateway" for the built-in provider, "provider" for one the caller
\* names
WriteConfig(doc, how) ==
  [doc EXCEPT
     !.base = port, !.defaults = TRUE,
     !.active = IF how = "gateway" THEN "gateway" ELSE "user",
     !.gateway = IF how = "gateway" THEN port ELSE @,
     !.provider = @ \/ how # "gateway"]

Managed(doc) == doc.gateway = port

\* seeded: a restore keeps a provider the manifest does not name
KeepActive(doc, manifest, original) ==
  [doc EXCEPT
     !.base = IF @ = port THEN "none" ELSE @,
     !.active = IF original \in {"none", "gateway"} THEN @ ELSE original,
     !.gateway = IF Managed(doc) THEN "none" ELSE @,
     !.defaults = @ /\ manifest.config]

CleanConfig(doc, manifest, original) ==
  [doc EXCEPT
     !.base = IF @ = port THEN "none" ELSE @,
     !.active = IF ~(Managed(doc) /\ @ = "gateway") THEN @
                ELSE IF original = "gateway" THEN "none" ELSE original,
     !.gateway = IF Managed(doc) THEN "none" ELSE @,
     !.defaults = @ /\ manifest.config]

\* a manifest of version 1 has no provider: the backup may tell it
Original(manifest) ==
  IF manifest.version = 1 /\ bak.is = "toml" /\ ~(bak.active = "gateway" /\ Managed(bak))
    THEN bak.active ELSE manifest.active

DeleteProvider(doc, name) ==
  [doc EXCEPT !.active = IF @ = name THEN "none" ELSE @,
              !.gateway = IF name = "gateway" THEN "none" ELSE @,
              !.provider = @ /\ name # "user"]

\* setting a flag of a provider creates its table
SetWebsocket(doc, name) ==
  [doc EXCEPT !.gateway = IF name = "gateway" /\ @ = "none" THEN "stub" ELSE @,
              !.provider = @ \/ name = "user"]

\* reading for an update recovers a zero-filled file from its backup
Readable == config.is = "toml" \/ (config.is = "zero" /\ bak.is = "toml")
Read == IF config.is = "zero" THEN bak ELSE config

-----------------------------------------------------------------------------
(* Jobs.  A step is one file operation.                                    *)

Step(j, kind, step) == job[j].kind = kind /\ job[j].step = step
To(j, step) == job' = [job EXCEPT ![j].step = step] /\ report' = NoReport

Report(j, ok, cut) ==
  /\ job' = [job EXCEPT ![j] = Idle]
  /\ report' = [kind |-> job[j].kind, ok |-> ok, managed |-> job[j].saw.is = "manifest", cut |-> cut]
End(j, ok) == Report(j, ok, FALSE)

\* an error, or the end of the process
CutOff(j) == events < MaxEvent /\ events' = events + 1 /\ Report(j, FALSE, TRUE)

Harmed(how) == before' = [before EXCEPT !.harm = @ \cup {how}]

Start(j, new) ==
  /\ job[j] = Idle
  /\ job' = [job EXCEPT ![j] = new] /\ report' = NoReport
  /\ IF \E k \in Jobs : job[k] # Idle THEN Harmed("together") ELSE UNCHANGED before
  /\ UNCHANGED <<port, files, session, events>>

\* configure_codex_app, uninstall_codex_app, the provider requests, and what
\* an enhanced launch does before it starts the app
Ask(j) ==
  \/ \E how \in {"gateway", "provider"} : Start(j, Job("setup", "check", how))
  \/ Start(j, Job("restore", "check", "none"))
  \/ Start(j, Job("launch", "read", "none"))
  \/ \E kind \in {"delete", "websocket"}, name \in {"gateway", "user"} :
       /\ kind = "delete" => config.is # "missing"
       /\ Start(j, Job(kind, "read", name))

\* repair_codex_app_gui_environment
AskRepair(j) ==
  /\ config.is = "toml" /\ config.base = port /\ auth = Local
  /\ Start(j, Job("repair", "switch", "none"))

\* seeded: a setup saves the login although there is a manifest
CheckAlways(j) ==
  /\ Step(j, "setup", "check") /\ config.is # "zero"
  /\ LET active == IF config.is = "toml" THEN config.active ELSE "none" IN
       /\ job' = [job EXCEPT
            ![j].saw = Manifest(2, config.is = "toml", auth # NoLogin, active),
            ![j].step = IF auth # NoLogin THEN "copy" ELSE "manifest"]
       /\ before' = [before EXCEPT !.logins = {auth}, !.actives = {active, "none"} \ {"gateway"}]
  /\ report' = NoReport
  /\ UNCHANGED <<port, files, session, events>>

\* ensure_managed_backup: nothing to do when there is a manifest, whatever it
\* says.  Otherwise it must be able to read the active provider, which does
\* not recover.
CheckBackup(j) ==
  /\ Step(j, "setup", "check")
  /\ IF saved.manifest # None
     THEN To(j, "read") /\ UNCHANGED before
     ELSE IF config.is = "zero"
     THEN End(j, FALSE) /\ UNCHANGED before
     ELSE LET active == IF config.is = "toml" THEN config.active ELSE "none" IN
       /\ job' = [job EXCEPT
            ![j].saw = Manifest(2, config.is = "toml", auth # NoLogin, active),
            ![j].step = IF auth # NoLogin THEN "copy" ELSE "manifest"]
       /\ report' = NoReport
       /\ before' = [before EXCEPT !.logins = {auth}, !.actives = {active, "none"} \ {"gateway"}]
  /\ UNCHANGED <<port, files, session, events>>

\* std::fs::copy: a copy that is cut off leaves a part
CopyLogin(j) ==
  /\ Step(j, "setup", "copy")
  /\ \/ auth = NoLogin /\ End(j, FALSE) /\ UNCHANGED <<saved, events>>
     \/ auth # NoLogin /\ To(j, "manifest") /\ saved' = [saved EXCEPT !.auth = auth] /\ UNCHANGED events
     \/ auth # NoLogin /\ CutOff(j) /\ saved' = [saved EXCEPT !.auth = Part]
  /\ UNCHANGED <<port, config, bak, auth, session, before>>

\* std::fs::write: a write that is cut off leaves a manifest that cannot be read
WriteManifest(j) ==
  /\ Step(j, "setup", "manifest")
  /\ \/ /\ saved' = [saved EXCEPT !.manifest = job[j].saw]
        /\ To(j, "read") /\ UNCHANGED <<before, events>>
     \/ saved' = [saved EXCEPT !.manifest = Broken] /\ CutOff(j) /\ Harmed("broken")
  /\ UNCHANGED <<port, config, bak, auth, session>>

\* read_managed_backup_manifest, or the cleanup without one
ReadManifest(j) ==
  /\ Step(j, "restore", "check")
  /\ IF saved.manifest = Broken THEN End(j, FALSE)
     ELSE /\ job' = [job EXCEPT ![j].step = "read", ![j].saw = saved.manifest]
          /\ report' = NoReport
  /\ UNCHANGED <<port, files, session, before, events>>

Manifested(j) == IF job[j].saw.is = "none" THEN Fallback ELSE job[j].saw

\* parse_existing_config_toml_for_update and the change of the document; a
\* setup and a flag start from an empty one when there is no file
Changed(j, doc) ==
  CASE job[j].kind = "setup" -> WriteConfig(doc, job[j].how)
    [] job[j].kind = "restore" -> CleanConfig(doc, Manifested(j), Original(Manifested(j)))
    [] job[j].kind = "delete" -> DeleteProvider(doc, job[j].how)
    [] job[j].kind = "websocket" -> SetWebsocket(doc, job[j].how)
    [] OTHER -> doc

ReadConfig(j) ==
  /\ job[j].step = "read" /\ UNCHANGED <<port, bak, auth, saved, session, events>>
  /\ before' = IF Readable /\ config.is = "zero"
               THEN [before EXCEPT !.actives = @ \cup ({bak.active} \ {"gateway"})] ELSE before
  /\ IF Readable
     THEN /\ config' = Read
          /\ report' = NoReport
          /\ LET doc == Changed(j, Read) IN
             job' = [job EXCEPT ![j].doc = doc,
                       ![j].step = IF job[j].kind = "restore" /\ doc = Fresh THEN "delete" ELSE "bak"]
     ELSE /\ UNCHANGED config
          /\ CASE config.is = "missing" /\ job[j].kind \in {"setup", "websocket"} ->
                 /\ job' = [job EXCEPT ![j].doc = Changed(j, Fresh), ![j].step = "bak"]
                 /\ report' = NoReport
               [] config.is = "missing" /\ job[j].kind = "launch" -> To(j, "env")
               [] config.is = "missing" /\ job[j].kind = "restore" -> To(j, "auth")
               [] OTHER -> End(j, FALSE)

\* backup_existing: nothing to copy, or not a zero-filled file
BackUp(j) ==
  /\ job[j].step = "bak"
  /\ bak' = IF config.is = "toml" THEN config ELSE bak
  /\ To(j, IF job[j].kind = "launch" THEN "env" ELSE "write")
  /\ UNCHANGED <<port, config, auth, saved, session, before, events>>

\* write_file_atomically
Write(j) ==
  /\ job[j].step = "write"
  /\ config' = job[j].doc
  /\ CASE job[j].kind = "setup" -> To(j, "auth")
       [] job[j].kind = "restore" -> To(j, "auth")
       [] OTHER -> End(j, TRUE)
  /\ before' = IF job[j].kind # "setup" THEN before
               ELSE [before EXCEPT
                       !.ports = @ \cup {port},
                       !.actives = @ \cup IF job[j].how = "provider" THEN {"user"} ELSE {}]
  /\ UNCHANGED <<port, bak, auth, saved, session, events>>

\* a restored document without content is removed
RemoveConfig(j) ==
  /\ job[j].step = "delete"
  /\ config' = Missing /\ To(j, "auth")
  /\ UNCHANGED <<port, bak, auth, saved, session, before, events>>

\* write_auth_json, and the copy of the file it replaces
WriteLogin(j) ==
  /\ Step(j, "setup", "auth")
  /\ auth' = Local /\ To(j, "caches")
  /\ UNCHANGED <<port, config, bak, saved, session, before, events>>

\* clear_codex_models_cache, clear_connector_directory_cache and the like
ClearCaches(j) ==
  /\ Step(j, "setup", "caches")
  /\ cached' = FALSE /\ To(j, "switch")
  /\ UNCHANGED <<port, files, switch, api, legacy, before, events>>

\* enable_remote_control_switch_in_home: the databases, the enrollment and
\* the settings of the app-server daemon
Enable(j) ==
  /\ job[j].step = "switch"
  /\ switch' = TRUE /\ To(j, "env")
  /\ UNCHANGED <<port, files, api, legacy, cached, before, events>>

\* configure_gui_environment, whose errors a setup and a repair ignore, and
\* for a setup the proxy of earlier releases
SetEnvironment(j) ==
  /\ job[j].step = "env" /\ job[j].kind \in {"setup", "repair", "launch"}
  /\ api' = port
  /\ legacy' = legacy \ (IF job[j].kind = "setup" THEN {"bypass", "cli"} ELSE {"bypass"})
  /\ End(j, TRUE)
  /\ UNCHANGED <<port, files, switch, cached, before, events>>

KeepEnvironment(j) ==
  /\ job[j].step = "env" /\ job[j].kind \in {"setup", "repair", "restore"}
  /\ events < MaxEvent /\ events' = events + 1
  /\ legacy' = IF job[j].kind = "repair" THEN legacy ELSE legacy \ {"cli"}
  /\ End(j, TRUE)
  /\ UNCHANGED <<port, files, switch, api, cached, before>>

\* restore_or_remove_managed_file: a copy of the saved login replaces whatever
\* is there; without one only a local identity is removed
RestoreLogin(j) ==
  /\ Step(j, "restore", "auth")
  /\ \/ /\ Manifested(j).auth /\ saved.auth = NoLogin
        /\ End(j, FALSE) /\ UNCHANGED <<auth, events>>
     \/ /\ Manifested(j).auth /\ saved.auth # NoLogin
        /\ \/ auth' = saved.auth /\ To(j, "forget") /\ UNCHANGED events
           \/ auth' = Part /\ CutOff(j)
     \/ /\ ~Manifested(j).auth
        /\ auth' = IF auth = Local THEN NoLogin ELSE auth
        /\ To(j, IF job[j].saw.is = "none" THEN "env" ELSE "forget") /\ UNCHANGED events
  /\ UNCHANGED <<port, config, bak, saved, session, before>>

\* remove_dir_all removes one file after the other, in any order.  Its error is
\* only logged; and it may be cut off.
Sweep(j) ==
  /\ Step(j, "restore", "forget")
  /\ \/ saved' = Unsaved /\ To(j, "env") /\ UNCHANGED <<before, events>>
     \/ /\ saved' \in {saved, [saved EXCEPT !.manifest = None], [saved EXCEPT !.auth = NoLogin]}
        /\ IF saved'.manifest # None /\ saved'.auth # saved.auth THEN Harmed("swept") ELSE UNCHANGED before
        /\ CutOff(j) \/ (events < MaxEvent /\ events' = events + 1 /\ To(j, "env"))
  /\ UNCHANGED <<port, config, bak, auth, session>>

\* cleanup_gui_environment and cleanup_app_server_proxy_environment
ClearEnvironment(j) ==
  /\ Step(j, "restore", "env")
  /\ api' = "none" /\ legacy' = {}
  /\ End(j, TRUE)
  /\ UNCHANGED <<port, files, switch, cached, before, events>>

\* Between two file operations.
BreakOff(j) ==
  /\ job[j] # Idle /\ CutOff(j)
  /\ UNCHANGED <<port, files, session, before>>

Operation(j) ==
  \/ CheckBackup(j) \/ CopyLogin(j) \/ WriteManifest(j) \/ ReadManifest(j)
  \/ ReadConfig(j) \/ BackUp(j) \/ Write(j) \/ RemoveConfig(j)
  \/ WriteLogin(j) \/ RestoreLogin(j) \/ Sweep(j)
  \/ ClearCaches(j) \/ Enable(j) \/ SetEnvironment(j) \/ KeepEnvironment(j) \/ ClearEnvironment(j)
  \/ BreakOff(j)

-----------------------------------------------------------------------------
(* The user, the Codex App and the machine.                                *)

Happens ==
  /\ events < MaxEvent /\ events' = events + 1
  /\ report' = NoReport /\ UNCHANGED <<bak, saved, session>>

\* a login or a logout; a setup that is about to save the login saves either
LogsIn ==
  /\ Happens /\ UNCHANGED <<port, config, job>>
  /\ auth' \in {First + events + 1, NoLogin}
  /\ before' = IF \E j \in Jobs : \/ job[j].step \in {"copy", "manifest"}
                                \/ job[j].kind = "restore"
               THEN [before EXCEPT !.logins = @ \cup {auth'}] ELSE before

\* settings, and which provider is active; the rest of the file is kept
EditsConfig ==
  /\ Happens /\ UNCHANGED <<port, auth, job>>
  /\ config.is # "zero"
  /\ LET doc == IF config.is = "missing" THEN Fresh ELSE config IN
     \E active \in {doc.active, "user"} :
       /\ config' = [doc EXCEPT !.own = TRUE, !.active = active,
                                !.provider = doc.provider \/ active = "user"]
       /\ before' = [before EXCEPT !.actives = @ \cup ({active} \ {"gateway"})]

\* the daemon starts again with another `bind`
ChangesPort ==
  /\ Happens /\ UNCHANGED <<config, auth, before>>
  /\ port' \in Ports \ {port} /\ job' = [j \in Jobs |-> Idle]

\* a power failure fills a file that was not yet on the disk with zeros
PowerFails ==
  /\ config.is = "toml"
  /\ Happens /\ UNCHANGED <<port, auth, before>>
  /\ config' = Zero /\ job' = [j \in Jobs |-> Idle]

Next ==
  \/ \E j \in Jobs : \/ Ask(j) \/ AskRepair(j)
                     \/ Operation(j)
  \/ LogsIn \/ EditsConfig \/ ChangesPort \/ PowerFails

Spec == Init /\ [][Next]_vars

-----------------------------------------------------------------------------
\* While Codex uses the local identity, or a part of a login, the login it
\* replaced can be given back: the managed backup says whether there was one
\* and holds it, wherever a setup or a restore was cut off.  Excepted is what
\* the code does not guard against: a manifest of which a part was written, a
\* removal that took the copy and left the manifest, two jobs at a time.
LoginIsKept ==
  auth \in {Local, Part} /\ before.harm = {} =>
    /\ saved.manifest.is = "manifest"
    /\ IF saved.manifest.auth THEN saved.auth \in before.logins \ {NoLogin, Local, Part}
       ELSE NoLogin \in before.logins

\* A restore that reports success leaves nothing of the present port in
\* config.toml and no local identity in auth.json.  When every setup was made
\* under that port it leaves nothing of the takeover at all; the provider and
\* the login are those from before the setup unless the user chose others
\* since.  The exceptions are those of LoginIsKept.
RestoreGivesBack ==
  report.kind = "restore" /\ report.ok /\ before.harm = {} =>
    /\ config.is = "toml" => config.base # port /\ config.gateway # port
    /\ config.is = "toml" /\ before.ports \subseteq {port} =>
         /\ config.base = "none" /\ config.gateway \notin Ports /\ config.active # "gateway"
         /\ report.managed => config.active \in before.actives
    /\ auth \notin {Local, Part}
    /\ report.managed /\ NoLogin \notin before.logins => auth \in before.logins

\* README.en.md: "Click `Restore Codex Config` in the GUI to restore the Codex
\* connection from before setup."  Codex is connected through the gateway no
\* more, whichever port it listened at.
ConnectionIsRestored ==
  report.kind = "restore" /\ report.ok /\ before.harm = {} /\ config.is = "toml" =>
    config.base = "none" /\ config.active # "gateway"

\* docs/codex-app-cdp-model-diagnostics.zh-CN.md: an update of the configuration
\* recovers a zero-filled config.toml from a valid backup; no setup fails on it.
ZeroedIsRecovered ==
  report.kind = "setup" /\ ~report.ok /\ ~report.cut => ~(config.is = "zero" /\ bak.is = "toml")
=============================================================================
