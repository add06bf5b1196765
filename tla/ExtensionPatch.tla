--------------------------- MODULE ExtensionPatch ---------------------------
(***************************************************************************)
(* vscode_extension_patch.rs and its two calls in main.rs: the daemon adds *)
(* --remote-control to the launch arguments in the extension's script when *)
(* it starts and takes the flag back when it stops in good order.  Next to *)
(* the script it keeps a backup and a state file with the hash of what it  *)
(* wrote.  Each version of the extension lies in a directory of its own;   *)
(* only the newest one is looked at.                                       *)
(***************************************************************************)
EXTENDS Naturals

CONSTANTS
  MaxVersion,    \* bound: versions of the extension
  Native,        \* versions that pass the flag themselves
  MaxChange      \* bound: kills of the daemon and changes by others

VARIABLES
  dirs,          \* version -> [file, backup, state]
  latest,        \* the newest installed version
  daemon,        \* "down", "up", or the file operation it is at
  source,        \* the script the running operation read
  action,        \* the action of the last report
  changes        \* kills and changes so far

patchVars == <<dirs, latest, daemon, source, action, changes>>

\* a script: the launch arguments carry the flag, who wrote the rest; a write
\* that was cut off leaves a script without recognisable launch arguments
Script(flag, by) == [flag |-> flag, by |-> by]
Torn == Script(FALSE, "nobody")
Absent == Script(FALSE, "absent")
Shipped(version) == Script(version \in Native, "openai")
Installed(version) == [file |-> Shipped(version), backup |-> Absent, state |-> Absent]

PatchInit(at) ==
  /\ latest = 1 /\ dirs = [v \in {1} |-> Installed(v)]
  /\ daemon = at /\ source = Absent /\ action = "none" /\ changes = 0

\* the directory find_latest_codex_extension chooses
Dir == dirs[latest]
Put(dir) == dirs' = [dirs EXCEPT ![latest] = dir]
Go(step) == daemon' = step /\ action' = "none"
Answer(to, what) == daemon' = to /\ action' = what /\ source' = Absent

\* patch_remote_control_source
Patchable(script) == script # Torn
Patched(script) == [script EXCEPT !.flag = TRUE]

(* enable_remote_control *)
EnableRemoteControl ==
  /\ daemon = "down"
  /\ \/ ~Patchable(Dir.file) /\ Answer("up", "error")
     \/ /\ Patchable(Dir.file) /\ Dir.file.flag
        /\ IF Dir.backup # Absent /\ Dir.state = Absent
           THEN Go("state") /\ source' = Dir.file
           ELSE Answer("up", IF Dir.backup = Absent THEN "already_supported" ELSE "already_patched")
     \/ /\ Patchable(Dir.file) /\ ~Dir.file.flag
        /\ Go(IF Dir.backup = Absent THEN "backup" ELSE "patch") /\ source' = Dir.file
  /\ UNCHANGED <<dirs, latest, changes>>

\* seeded: the backup is taken of the patched script
BackUpLate ==
  /\ daemon = "backup"
  /\ Put([Dir EXCEPT !.backup = Patched(source)]) /\ Go("patch")
  /\ UNCHANGED <<latest, source, changes>>

BackUpScript ==
  /\ daemon = "backup"
  /\ Put([Dir EXCEPT !.backup = Dir.file]) /\ Go("patch")
  /\ UNCHANGED <<latest, source, changes>>

WritePatch ==
  /\ daemon = "patch"
  /\ Put([Dir EXCEPT !.file = Patched(source)]) /\ Go("state")
  /\ UNCHANGED <<latest, source, changes>>

\* write_patch_state, also for a patch whose state is missing
WriteState ==
  /\ daemon = "state"
  /\ Put([Dir EXCEPT !.state = Patched(source)]) /\ Answer("up", "patched")
  /\ UNCHANGED <<latest, changes>>

\* a state file that was cut off is there but tells nothing
Known(state) == state \notin {Absent, Torn}

(* restore_remote_control, after the servers have stopped *)
RestoreRemoteControl ==
  /\ daemon = "up"
  /\ \/ Dir.backup = Absent /\ Answer("down", "no_backup")
     \/ /\ Dir.backup # Absent /\ Known(Dir.state) /\ Dir.state # Dir.file
        /\ Answer("down", "skipped_modified")
     \/ /\ Dir.backup # Absent /\ ~Known(Dir.state) /\ ~Dir.file.flag
        /\ Answer("down", "skipped_unmanaged")
     \/ /\ Dir.backup # Absent /\ (Dir.state = Dir.file \/ (~Known(Dir.state) /\ Dir.file.flag))
        /\ Go("copy") /\ UNCHANGED source
  /\ UNCHANGED <<dirs, latest, changes>>

CopyBack ==
  /\ daemon = "copy"
  /\ Put([Dir EXCEPT !.file = Dir.backup]) /\ Go("forget")
  /\ UNCHANGED <<latest, source, changes>>

\* remove_file, whose error is ignored
RemoveState ==
  /\ daemon = "forget"
  /\ dirs' \in {dirs, [dirs EXCEPT ![latest].state = Absent]} /\ Answer("down", "restored")
  /\ UNCHANGED <<latest, changes>>

-----------------------------------------------------------------------------
Change == changes < MaxChange /\ changes' = changes + 1

\* the daemon is killed; fs::copy and fs::write may be cut off half way
Killed ==
  /\ daemon # "down" /\ Change
  /\ daemon' = "down" /\ source' = Absent /\ action' = "none" /\ UNCHANGED latest
  /\ dirs' \in {dirs} \cup
       (CASE daemon = "backup" -> {[dirs EXCEPT ![latest].backup = Torn]}
          [] daemon \in {"patch", "copy"} -> {[dirs EXCEPT ![latest].file = Torn]}
          [] daemon = "state" -> {[dirs EXCEPT ![latest].state = Torn]}
          [] OTHER -> {})

\* VS Code installs a newer version, or this one again
Install ==
  /\ Change /\ action' = "none" /\ UNCHANGED <<daemon, source>>
  /\ \/ UNCHANGED latest /\ Put([Dir EXCEPT !.file = Shipped(latest)])
     \/ /\ daemon \in {"down", "up"} /\ latest < MaxVersion /\ latest' = latest + 1
        /\ dirs' = [v \in 1..(latest + 1) |-> IF v \in 1..latest THEN dirs[v] ELSE Installed(v)]

\* the user edits the script and leaves or takes out the flag
Edit ==
  /\ Change /\ Dir.file # Torn /\ action' = "none"
  /\ \E flag \in {FALSE, Dir.file.flag} : Put([Dir EXCEPT !.file = Script(flag, "user")])
  /\ UNCHANGED <<latest, daemon, source>>

PatchNext ==
  \/ EnableRemoteControl \/ BackUpScript \/ WritePatch \/ WriteState
  \/ RestoreRemoteControl \/ CopyBack \/ RemoveState
  \/ Killed \/ Install \/ Edit

\* A stop that ends with anything but "skipped_modified" leaves the newest
\* script without a flag that the extension does not pass by itself.
FlagIsTakenBack ==
  action \in {"restored", "no_backup", "skipped_unmanaged"} =>
    (Dir.file.flag => latest \in Native)
=============================================================================
