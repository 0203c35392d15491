------------------------------- MODULE Updater -------------------------------
(* The self-update of the agent (updater.rs, commands/update.rs): the check   *)
(* of the signed manifest, by a timer or by the user's button, the choice of  *)
(* a release, the download, and the batch script that outlives the agent,     *)
(* kills it, saves the installed files, replaces them and starts the agent    *)
(* again.  A release is known by what the updater compares: its version, its  *)
(* label, its build and commit, and by what was compiled into its binary.     *)
EXTENDS Naturals, FiniteSets

CONSTANTS
    Targets,     \* the "tauri" blocks the release server may publish
    Shipped,     \* the release the installer put on this computer
    MaxChanges,  \* bound: how often the server publishes something else
    MaxFaults    \* bound: how many copies of the scripts may fail

Nil == 0                           \* no number
NoLabel == [version |-> 0, channel |-> "none", seq |-> Nil]
Tasks == {"auto", "manual"}
Channels == {"stable", "beta"}
Releases == Targets \cup {Shipped}

(* What .yummi-release.json says, or what the binary itself was built with.   *)
(* A file that is not there says as little as one without any of the fields.  *)
NoFile == [label |-> NoLabel, build |-> Nil, commit |-> Nil]
IdentityOf(t) == [label |-> t.label, build |-> t.build, commit |-> t.commit]

VARIABLES
    published,   \* the block the server serves now
    channel,     \* config.update_channel
    proc,        \* "up" | "down": the agent process
    running,     \* the release whose binary the process was started from
    binary,      \* the release the executable in the app folder comes from
    file,        \* .yummi-release.json in the app folder
    job,         \* per task: where its check is, with which channel and target
    mutex,       \* the process holds Local\YummiLcuAgentUpdate
    script,      \* the scripts that run: stage, target and what they saved
    changes,     \* how often the server has published
    faults,      \* how many copies have failed
    torn         \* history: two scripts ran at once, a copy failed whose save
                 \* had no identity file to put back, or the identity was put
                 \* back under a check that had weighed the other

vars == <<published, channel, proc, running, binary, file, job, mutex,
          script, changes, faults, torn>>

NoBackup == [binary |-> Shipped, file |-> NoFile]
Idle == [pc |-> "idle", channel |-> "stable", target |-> Shipped]
NoScript == [stage |-> "none", target |-> Shipped, saved |-> NoBackup]

Init ==
    /\ published \in Targets
    /\ channel \in Channels
    /\ proc = "up"
    /\ running = Shipped
    /\ binary = Shipped
    /\ file \in {NoFile, IdentityOf(Shipped)}
    /\ job = [k \in Tasks |-> Idle]
    /\ mutex = FALSE
    /\ script = [k \in Tasks |-> NoScript]
    /\ changes = 0
    /\ faults = 0
    /\ torn = FALSE

-----------------------------------------------------------------------------
(* The choice of a release.                                                   *)

(* canonical_json and the ed25519 check of the block without its signature.   *)
Verified(t) == t.signed

(* installed_release_identity: each field of the file counts when it is there,*)
(* otherwise what was compiled into the binary that runs.                     *)
Installed(f) ==
    [label |-> IF f.label = NoLabel THEN running.exe.label ELSE f.label,
     build |-> IF f.build = Nil THEN running.exe.build ELSE f.build,
     commit |-> IF f.commit = Nil THEN running.exe.commit ELSE f.commit]

(* current_build_matches_target.                                              *)
SameBuild(t) ==
    /\ t.build # Nil /\ t.build = Installed(file).build
    /\ t.commit # Nil /\ t.commit = Installed(file).commit

(* release_sequence: the number behind "<version>-<channel>." of a label.     *)
Sequence(label, version, c) ==
    IF label.version = version /\ label.channel = c
    THEN label.seq ELSE Nil

(* The order that a comment in is_newer_target rejects: within a version by build.*)
NewerByBuild(t, version, identity, c) ==
    IF t.version # version THEN t.version > version
    ELSE /\ c # "stable"
         /\ t.build > identity.build

(* is_newer_target: the version decides; within one version only a prerelease *)
(* channel knows newer releases, by label, and by build when a label is       *)
(* missing on either side.                                                    *)
Newer(t, version, identity, c) ==
    LET remote == Sequence(t.label, t.version, c)
        local == Sequence(identity.label, version, c)
    IN  IF t.version # version THEN t.version > version
        ELSE /\ c # "stable"
             /\ IF remote # Nil /\ local # Nil THEN remote > local
                ELSE /\ t.build # Nil /\ identity.build # Nil
                     /\ t.build > identity.build

(* should_apply_target.  A blocked version leaves the rollout aside, but not  *)
(* the channel, the order or min_version.                                     *)
ShouldApply(t, f, c) ==
    /\ t.channel = c
    /\ Newer(t, running.version, Installed(f), c)
    /\ ~ (running.version < t.min)
    /\ (running.version \in t.blocked) \/ t.rolledOut

(* The identity as it would be without that file.                             *)
CompiledIn(t) == t.exe

(* The identity persist_release_identity writes beside the executable.        *)
Persisted(t) == IdentityOf(t)

(* blocks_update_for_gameflow_phase.  A client that is not there, or that     *)
(* cannot be asked, does not block.                                           *)
Phases == {"no client", "unreadable", "Lobby", "ChampSelect", "InProgress", "EndOfGame"}
Blocks(phase) == phase \in {"ChampSelect", "InProgress", "EndOfGame"}

-----------------------------------------------------------------------------
(* The check.                                                                 *)

Install == <<proc, running, binary, script, faults, torn>>
Config == <<published, channel, changes>>

(* The server publishes another block.                                        *)
Publish(t) ==
    /\ changes < MaxChanges
    /\ changes' = changes + 1
    /\ published' = t
    /\ UNCHANGED <<channel, file, job, mutex, Install>>

(* The user saves another channel.                                            *)
SaveConfig(c) ==
    /\ proc = "up"
    /\ c # channel
    /\ channel' = c
    /\ UNCHANGED <<published, changes, file, job, mutex, Install>>

(* A round of auto_update_on_startup, which the settings may also skip.       *)
AutoCheck ==
    /\ proc = "up"
    /\ job["auto"].pc = "idle"
    /\ job' = [job EXCEPT !["auto"] = [pc |-> "fetch", channel |-> channel,
                                       target |-> Shipped]]
    /\ UNCHANGED <<Config, file, mutex, Install>>

(* apply_beta_update_now: the channel is saved as beta, then a check runs.    *)
ManualCheck ==
    /\ proc = "up"
    /\ job["manual"].pc = "idle"
    /\ channel' = "beta"
    /\ job' = [job EXCEPT !["manual"] = [pc |-> "fetch", channel |-> "beta",
                                         target |-> Shipped]]
    /\ UNCHANGED <<published, changes, file, mutex, Install>>

Weighed(k) == job[k].pc \in {"gate", "download", "leave"}
Ended(k) == job' = [job EXCEPT ![k] = Idle]

(* The URL is refused, the manifest cannot be fetched, or its signature does  *)
(* not fit.                                                                   *)
FetchFails(k) ==
    /\ job[k].pc = "fetch"
    /\ Ended(k)
    /\ UNCHANGED <<Config, file, mutex, Install>>

(* The manifest is there and signed.  A block that describes the very build   *)
(* that runs renews the identity file; then the block is weighed with the     *)
(* identity read again.                                                       *)
Fetched(k) ==
    /\ job[k].pc = "fetch"
    /\ Verified(published)
    /\ file' = IF SameBuild(published) THEN Persisted(published) ELSE file
    /\ IF ShouldApply(published, file', job[k].channel)
       THEN job' = [job EXCEPT ![k].pc = "gate", ![k].target = published]
       ELSE Ended(k)
    /\ UNCHANGED <<Config, mutex, Install>>

(* update_block_reason, and the checks of the block before the download.      *)
Gate(k) ==
    /\ job[k].pc = "gate"
    /\ \E phase \in Phases :
         IF Blocks(phase) \/ ~ job[k].target.hasUrl
         THEN Ended(k)
         ELSE job' = [job EXCEPT ![k].pc = "download"]
    /\ UNCHANGED <<Config, file, mutex, Install>>

(* The download, its hash, the archive, the list of its files or the          *)
(* executable in it is not what the block promises.                           *)
DownloadFails(k) ==
    /\ job[k].pc = "download"
    /\ Ended(k)
    /\ UNCHANGED <<Config, file, mutex, Install>>

(* The archive is unpacked, the identity written beside the new executable,   *)
(* the script written; it starts unless another check holds the mutex.        *)
Downloaded(k) ==
    /\ job[k].pc = "download"
    /\ script[k].stage = "none"
    /\ IF mutex
       THEN /\ Ended(k)
            /\ UNCHANGED <<mutex, script, torn>>
       ELSE /\ job' = [job EXCEPT ![k].pc = "leave"]
            /\ mutex' = TRUE
            /\ script' = [script EXCEPT ![k] = [stage |-> "wait", target |-> job[k].target,
                                                saved |-> NoBackup]]
            /\ torn' = (torn \/ \E o \in Tasks : script[o].stage # "none")
    /\ UNCHANGED <<Config, file, proc, running, binary, faults>>

(* The process is gone: its tasks and its mutex with it.                      *)
ProcessEnds ==
    /\ proc' = "down"
    /\ job' = [k \in Tasks |-> Idle]
    /\ mutex' = FALSE

(* check_and_apply_update: begin_shutdown and app.exit(0) a second later.     *)
Leave(k) ==
    /\ job[k].pc = "leave"
    /\ ProcessEnds
    /\ UNCHANGED <<Config, file, running, binary, script, faults, torn>>

(* The user ends the agent from the tray.                                     *)
Quit ==
    /\ proc = "up"
    /\ ProcessEnds
    /\ UNCHANGED <<Config, file, running, binary, script, faults, torn>>

(* The user starts the agent; a second instance ends at once.                 *)
Launch ==
    /\ proc = "down"
    /\ proc' = "up"
    /\ running' = binary
    /\ UNCHANGED <<Config, binary, file, job, mutex, script, faults, torn>>

-----------------------------------------------------------------------------
(* apply-update.cmd.  robocopy waits for a file in use and copies the         *)
(* identity file before the executable.                                       *)

To(k, stage) == script' = [script EXCEPT ![k].stage = stage]
ScriptEnds(k) == script' = [script EXCEPT ![k] = NoScript]
Checks == <<Config, torn>>

(* The old agent is killed until tasklist no longer shows it.                 *)
ScriptKills(k) ==
    /\ script[k].stage = "wait"
    /\ IF proc = "up" THEN ProcessEnds ELSE UNCHANGED <<proc, job, mutex>>
    /\ To(k, "backup")
    /\ UNCHANGED <<Checks, running, binary, file, faults>>

(* The app folder is saved.                                                   *)
ScriptSaves(k) ==
    /\ script[k].stage = "backup"
    /\ script' = [script EXCEPT ![k] = [stage |-> "identity", target |-> @.target,
                                        saved |-> [binary |-> binary, file |-> file]]]
    /\ UNCHANGED <<Checks, proc, running, binary, file, job, mutex, faults>>

(* :fail, the old agent does not go away or the folder cannot be saved: the   *)
(* script ends and starts nothing.                                            *)
ScriptFails(k) ==
    /\ script[k].stage = "backup" \/ (script[k].stage = "wait" /\ proc = "up")
    /\ faults < MaxFaults
    /\ faults' = faults + 1
    /\ ScriptEnds(k)
    /\ UNCHANGED <<Checks, proc, running, binary, file, job, mutex>>

ScriptCopiesIdentity(k) ==
    /\ script[k].stage = "identity"
    /\ file' = Persisted(script[k].target)
    /\ To(k, "executable")
    /\ UNCHANGED <<Checks, proc, running, binary, job, mutex, faults>>

ScriptCopiesExecutable(k) ==
    /\ script[k].stage = "executable"
    /\ proc = "down"
    /\ binary' = script[k].target
    /\ To(k, "start")
    /\ UNCHANGED <<Checks, proc, running, file, job, mutex, faults>>

(* The publisher's signature does not fit, or robocopy gives up.              *)
ScriptCopyFails(k) ==
    /\ script[k].stage \in {"identity", "executable", "start"}
    /\ faults < MaxFaults
    /\ faults' = faults + 1
    /\ To(k, "restore")
    /\ torn' = (torn \/ script[k].saved.file = NoFile)
    /\ UNCHANGED <<Config, proc, running, binary, file, job, mutex>>

(* :restore.  The saved folder is copied back over the new one; a file the    *)
(* save does not have stays.                                                  *)
RestoredNot(saved) == file
RestoredFile(saved) == IF saved.file = NoFile THEN file ELSE saved.file

ScriptRestores(k) ==
    /\ script[k].stage = "restore"
    /\ proc = "down" \/ binary = script[k].saved.binary
    /\ binary' = script[k].saved.binary
    /\ file' = RestoredFile(script[k].saved)
    /\ torn' = (torn \/ \E o \in Tasks : Weighed(o))
    /\ To(k, "start")
    /\ UNCHANGED <<Config, proc, running, job, mutex, faults>>

ScriptStarts(k) ==
    /\ script[k].stage = "start"
    /\ proc' = "up"
    /\ running' = IF proc = "down" THEN binary ELSE running
    /\ ScriptEnds(k)
    /\ UNCHANGED <<Checks, binary, file, job, mutex, faults>>

Script(k) ==
    \/ ScriptKills(k) \/ ScriptSaves(k) \/ ScriptFails(k)
    \/ ScriptCopiesIdentity(k) \/ ScriptCopiesExecutable(k)
    \/ ScriptCopyFails(k) \/ ScriptRestores(k) \/ ScriptStarts(k)

Next ==
    \/ \E t \in Targets : Publish(t)
    \/ \E c \in Channels : SaveConfig(c)
    \/ AutoCheck \/ ManualCheck
    \/ \E k \in Tasks :
         \/ FetchFails(k) \/ Fetched(k) \/ Gate(k)
         \/ DownloadFails(k) \/ Downloaded(k) \/ Leave(k) \/ Script(k)
    \/ Quit \/ Launch

Spec == Init /\ [][Next]_vars

-----------------------------------------------------------------------------
NoScripts == \A k \in Tasks : script[k].stage = "none"
Identities == {NoFile} \cup {IdentityOf(t) : t \in Releases} \cup {t.exe : t \in Releases}

(* Every variable has its type.                                               *)
TypeOK ==
    /\ published \in Targets
    /\ channel \in Channels
    /\ mutex \in BOOLEAN /\ torn \in BOOLEAN
    /\ proc \in {"up", "down"}
    /\ running \in Releases /\ binary \in Releases
    /\ file \in Identities
    /\ job \in [Tasks -> [pc : {"idle", "fetch", "gate", "download", "leave"},
                          channel : Channels, target : Releases]]
    /\ script \in [Tasks -> [stage : {"none", "wait", "backup", "identity", "executable",
                                      "start", "restore"},
                             target : Releases,
                             saved : [binary : Releases, file : Identities]]]
    /\ changes \in 0..MaxChanges
    /\ faults \in 0..MaxFaults

(* The identity file names the build that is installed, also after a copy that*)
(* failed half way: otherwise the comparison within a version, which trusts   *)
(* the file, would take the old binary for the new one and never try again    *)
(* (persist_release_identity, :restore).                                      *)
IdentityFits ==
    NoScripts /\ ~ torn /\ file # NoFile => file.build = binary.build

(* No check sets out to install the release that already runs, whatever the   *)
(* binary of a promoted release was built as: the agent would restart forever.*)
(* Only a check of a process started between the two copies of a script, which*)
(* then fails and puts the identity back, has weighed an identity that is not *)
(* of the binary that runs (should_apply_target, :restore).                   *)
NoReinstall ==
    \A k \in Tasks :
       Weighed(k) /\ NoScripts /\ ~ torn =>
          job[k].target # running

(* A script never replaces a release by one of an older version, nor, within  *)
(* one version and channel, by one with a smaller label sequence, although    *)
(* builds may be numbered the other way round (is_newer_target).              *)
CopiesNewer ==
    \A k \in Tasks :
        ScriptCopiesExecutable(k) /\ ~ torn =>
            \/ binary'.version > binary.version
            \/ /\ binary'.version = binary.version
               /\ binary'.label.channel = binary.label.channel
                     => binary'.label.seq > binary.label.seq
=============================================================================
