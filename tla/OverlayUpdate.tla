----------------------------- MODULE OverlayUpdate -----------------------------
(* The updates of the Game Bar overlay (gamebar_bridge.rs,                     *)
(* Update-YummiGameBar.ps1): checks that the agent starts by itself stage a    *)
(* verified ZIP, a check asked for with Win+G applies it, a button installs    *)
(* the latest release. All hold one lock of the agent; the updater script is   *)
(* a process of its own and outlives the agent.                                *)
EXTENDS Naturals, FiniteSets

CONSTANTS
    Releases,    \* 1..n, in the order of their versions; each has one build
    MaxFails,    \* bound: failures of the network, the disk or Windows
    MaxExits     \* bound: exits of the agent

VARIABLES
    published,   \* the release the index advertises; the CDN may serve any before
    appx,        \* the registered package, 0: none
    deferred,    \* the package Windows registers once the widget is gone, 0: none
    widget,      \* the widget runs, and with it the package is in use
    stateFile,   \* state.json: [rel, pending], rel = 0: none
    zip,         \* verified-update.zip: a release, 0: none
    updater,     \* Update-YummiGameBar.ps1 is in its folder
    cache,       \* GAMEBAR_TARGET_CACHE: [rel, fresh]
    op,          \* who holds the lock: [kind, pc, target]
    scripts,     \* the running updater scripts: [rel, from, pc]
    fails, exits,
    \* history
    wanted,      \* the releases the button or Win+G was to install
    sneaked,     \* a package was registered that nobody had asked for
    down,        \* an update has put an older release in the place of a newer one
    left,        \* the agent has exited while an updater script was at work
    outdated     \* an agent has exited with more registered than state.json tells, or
                 \* the button has taken an older release than that for the latest

vars ==
    <<published, appx, deferred, widget, stateFile, zip, updater, cache, op, scripts, fails,
      exits, wanted, sneaked, down, left, outdated>>
package == <<appx, deferred, sneaked, down>>
files == <<stateFile, zip, updater>>
history == <<left, outdated>>
world == <<published, widget, exits, history>>

Free == [kind |-> "none", pc |-> "free", target |-> 0]
NoState == [rel |-> 0, pending |-> FALSE]
MaxRelease == CHOOSE r \in Releases : \A q \in Releases : q <= r

Init ==
    /\ published = 1 /\ appx = 0 /\ deferred = 0 /\ widget = FALSE
    /\ stateFile = NoState /\ zip = 0 /\ updater = FALSE
    /\ cache = [rel |-> 0, fresh |-> FALSE] /\ op = Free /\ scripts = {}
    /\ fails = 0 /\ exits = 0
    /\ wanted = {} /\ sneaked = FALSE /\ down = FALSE /\ left = FALSE /\ outdated = FALSE

-----------------------------------------------------------------------------
(* The world.                                                                 *)

Publish ==
    /\ published < MaxRelease /\ published' = published + 1
    /\ UNCHANGED <<widget, exits, history, package, files, cache, op, scripts, fails, wanted>>

(* Windows registers a deferred package once the widget is closed.            *)
Registers(v, from) ==
    /\ appx' = v
    /\ sneaked' = (sneaked \/ v \notin wanted)
    /\ down' = (down \/ (v < appx /\ from # "install"))

WidgetOpens ==
    /\ ~ widget /\ appx # 0 /\ widget' = TRUE
    /\ UNCHANGED <<published, exits, history, package, files, cache, op, scripts, fails, wanted>>
WidgetCloses ==
    /\ widget /\ widget' = FALSE
    /\ UNCHANGED <<published, exits, history, package, files, cache, op, scripts, fails, wanted>>
DeferredRegisters ==
    /\ deferred # 0 /\ ~ widget
    /\ Registers(deferred, "windows") /\ deferred' = 0
    /\ UNCHANGED <<world, files, cache, op, scripts, fails, wanted>>

(* The lock and the cache go with the process; an updater script goes on.  As *)
(* history: one goes on, or one has failed after it had registered a release  *)
(* that state.json does not tell of.                                          *)
AgentExits ==
    /\ exits < MaxExits /\ exits' = exits + 1
    /\ left' = (left \/ scripts # {})
    /\ outdated' = (outdated \/ stateFile.rel < appx \/ stateFile.rel < deferred)
    /\ op' = Free /\ cache' = [rel |-> 0, fresh |-> FALSE]
    /\ UNCHANGED <<published, widget, package, files, scripts, fails, wanted>>

(* Fifteen seconds after it was fetched the target is fetched again.          *)
CacheAges ==
    /\ cache.fresh /\ cache' = [cache EXCEPT !.fresh = FALSE]
    /\ UNCHANGED <<world, package, files, op, scripts, fails, wanted>>

-----------------------------------------------------------------------------
(* Requests.                                                                  *)

Start(kind) == op = Free /\ op' = [kind |-> kind, pc |-> "fetch", target |-> 0]
Return == op' = Free
Fails == fails < MaxFails /\ fails' = fails + 1

(* Without an updater nothing was ever installed.                             *)
CheckInBackground ==
    /\ updater /\ Start("background")
    /\ UNCHANGED <<world, package, files, cache, scripts, fails, wanted>>
CheckWithWinG ==
    /\ updater /\ Start("force")
    /\ UNCHANGED <<world, package, files, cache, scripts, fails, wanted>>
InstallLatest ==
    /\ Start("install")
    /\ UNCHANGED <<world, package, files, cache, scripts, fails, wanted>>

(* Everything the overlay has is removed, whatever a script has pending, and   *)
(* also while one that an earlier agent left behind is at work.               *)
Reset ==
    /\ op = Free
    /\ appx' = 0 /\ deferred' = 0 /\ widget' = FALSE
    /\ stateFile' = NoState /\ zip' = 0 /\ updater' = FALSE
    /\ UNCHANGED <<published, exits, history, cache, op, scripts, fails, wanted, sneaked, down>>

-----------------------------------------------------------------------------
(* fetch_published_gamebar_target                                             *)

Served(served) == served

(* A newer target of this process is kept against a stale answer of the CDN,  *)
(* and stays as old as it was.                                                *)
Newer(served) == IF cache.rel > served THEN cache.rel ELSE served

(* The button is not asked for what state.json tells, so that it may take an   *)
(* older answer than that for the latest release.                             *)
Fetched(r) ==
    /\ outdated' = (outdated \/ (op.kind = "install" /\ r < stateFile.rel))
    /\ wanted' = IF op.kind = "background" THEN wanted ELSE wanted \cup {r}
    /\ op' = [op EXCEPT !.pc = IF op.kind = "install" THEN "unpack" ELSE "decide", !.target = r]

FetchCached ==
    /\ op.pc = "fetch" /\ cache.fresh
    /\ Fetched(cache.rel)
    /\ UNCHANGED <<published, widget, exits, left, package, files, cache, scripts, fails>>
Fetch(served) ==
    /\ op.pc = "fetch" /\ ~ cache.fresh /\ served <= published
    /\ Fetched(Newer(served))
    /\ cache' = IF cache.rel > served THEN cache ELSE [rel |-> served, fresh |-> TRUE]
    /\ UNCHANGED <<published, widget, exits, left, package, files, scripts, fails>>
FetchFails ==
    /\ op.pc \in {"fetch", "stage", "unpack"} /\ Fails /\ Return
    /\ UNCHANGED <<world, package, files, cache, scripts, wanted>>

-----------------------------------------------------------------------------
(* check_overlay_update                                                       *)

KeptNever == FALSE
KeptNewer == stateFile.rel > op.target

(* What state.json tells: a newer release is kept, the same one is current, or *)
(* waits for Win+G, or is not what Windows has.                               *)
Decide ==
    LET same == stateFile.rel = op.target
        force == op.kind = "force"
    IN  /\ op.pc = "decide"
        /\ op' = IF KeptNewer \/ (same /\ appx = op.target)
                    \/ (same /\ stateFile.pending /\ ~ force) THEN Free
                 ELSE IF same /\ stateFile.pending /\ zip # 0 THEN [op EXCEPT !.pc = "run"]
                 ELSE [op EXCEPT !.pc = "stage"]
    /\ UNCHANGED <<world, package, files, cache, scripts, fails, wanted>>

AppliesAny == op.kind # "none"

(* Only Win+G applies what is staged.                                         *)
Applies == op.kind = "force"

(* A staged ZIP of the target is taken as it is, any other is replaced.       *)
Stage ==
    /\ op.pc = "stage"
    /\ zip' = op.target
    /\ op' = IF Applies THEN [op EXCEPT !.pc = "run"] ELSE Free
    /\ UNCHANGED <<world, package, stateFile, updater, cache, scripts, fails, wanted>>

(* install_overlay_latest takes the updater out of the archive, and asks      *)
(* state.json nothing.                                                        *)
Unpack ==
    /\ op.pc = "unpack" /\ updater' = TRUE
    /\ op' = [op EXCEPT !.pc = "run"]
    /\ UNCHANGED <<world, package, stateFile, zip, cache, scripts, fails, wanted>>

Run ==
    /\ op.pc = "run"
    /\ scripts' = scripts \cup {[rel |-> op.target, from |-> op.kind, pc |-> "check"]}
    /\ op' = [op EXCEPT !.pc = "await"]
    /\ UNCHANGED <<world, package, files, cache, fails, wanted>>

(* The agent waits for the script and then verifies what is registered.       *)
Awaited ==
    /\ op.pc = "await"
    /\ ~ \E s \in scripts : s.rel = op.target /\ s.from = op.kind
    /\ Return
    /\ UNCHANGED <<world, package, files, cache, scripts, fails, wanted>>

-----------------------------------------------------------------------------
(* Update-YummiGameBar.ps1                                                    *)

Becomes(s, pc) == scripts' = (scripts \ {s}) \cup {[s EXCEPT !.pc = pc]}
Ends(s) == scripts' = scripts \ {s}

(* The ZIP is hashed again right before it is installed; the one of the       *)
(* button is a file of its own.                                               *)
Intact(s) == s.from = "install" \/ zip = s.rel
ScriptChecks(s) ==
    /\ s.pc = "check"
    /\ IF Intact(s) THEN Becomes(s, "install") ELSE Ends(s)
    /\ UNCHANGED <<world, package, files, cache, op, fails, wanted>>

(* A package in use is registered later.                                      *)
ScriptInstalls(s) ==
    /\ s.pc = "install"
    /\ IF widget /\ appx # s.rel
       THEN deferred' = s.rel /\ UNCHANGED <<appx, sneaked, down>>
       ELSE Registers(s.rel, s.from) /\ deferred' = 0
    /\ Becomes(s, "verify")
    /\ UNCHANGED <<world, files, cache, op, fails, wanted>>

(* With Win+G, or when the widget is gone, the host is shut down for it.      *)
ScriptFinalizes(s) ==
    /\ s.pc = "verify" /\ appx # s.rel /\ (s.from = "force" \/ ~ widget)
    /\ Registers(s.rel, s.from) /\ deferred' = 0 /\ widget' = FALSE
    /\ UNCHANGED <<published, exits, history, scripts, files, cache, op, fails, wanted>>

NotYet(s) == appx # s.rel
NeverPending(s) == FALSE

(* state.json tells whether the registration is still to come, because the     *)
(* widget runs or because finalizing changed nothing; the ZIP stays as long   *)
(* as it is.                                                                  *)
PendingOf(s) == NotYet(s)

ScriptEnds(s) ==
    /\ s.pc = "verify"
    /\ stateFile' = [rel |-> s.rel, pending |-> PendingOf(s)]
    /\ zip' = IF NotYet(s) \/ s.from = "install" THEN zip ELSE 0
    /\ updater' = TRUE
    /\ Ends(s)
    /\ UNCHANGED <<world, package, cache, op, fails, wanted>>

(* Wherever it fails, state.json stays as it was; the ZIP is kept only when    *)
(* the registration was found to be deferred.                                 *)
ScriptFails(s) ==
    /\ s.pc \in {"install", "verify"} /\ Fails
    /\ zip' = IF s.from = "install" \/ (s.pc = "verify" /\ NotYet(s)) THEN zip ELSE 0
    /\ Ends(s)
    /\ UNCHANGED <<world, package, stateFile, updater, cache, op, wanted>>

Next ==
    \/ Publish \/ WidgetOpens \/ WidgetCloses \/ DeferredRegisters \/ AgentExits \/ CacheAges
    \/ CheckInBackground \/ CheckWithWinG \/ InstallLatest \/ Reset
    \/ FetchCached \/ \E r \in Releases : Fetch(r)
    \/ FetchFails \/ Decide \/ Stage \/ Unpack \/ Run \/ Awaited
    \/ \E s \in scripts :
        \/ ScriptChecks(s) \/ ScriptInstalls(s) \/ ScriptFinalizes(s)
        \/ ScriptEnds(s) \/ ScriptFails(s)

Spec == Init /\ [][Next]_vars

-----------------------------------------------------------------------------
(* Every variable has its type.                                               *)
TypeOK ==
    /\ published \in Releases /\ {appx, deferred, zip} \subseteq Releases \cup {0}
    /\ {widget, updater, sneaked, down, left, outdated} \subseteq BOOLEAN
    /\ stateFile.rel \in Releases \cup {0} /\ cache.rel \in Releases \cup {0}
    /\ op.pc \in {"free", "fetch", "decide", "stage", "unpack", "run", "await"}
    /\ \A s \in scripts : s.rel \in Releases /\ s.pc \in {"check", "install", "verify"}

(* A check the agent starts by itself registers nothing: Win+G, or the        *)
(* button, is needed to apply a release, also when the widget is closed.      *)
OnlyAsked == ~ sneaked

(* What state.json calls installed is, unless a script is at work, as long as *)
(* none failed and no agent left one behind: a later check that finds it up    *)
(* to date is not deceived, also after a restart.                             *)
StateTrue ==
    ~ left /\ fails = 0 /\ scripts = {} /\ stateFile.rel # 0 /\ ~ stateFile.pending
        => appx = stateFile.rel

(* No update puts an older release in the place of a newer one: while an agent *)
(* runs, the newest target it was told keeps the old answers of the CDN away, *)
(* after a restart state.json does, and the lock keeps older staged ZIPs      *)
(* away.  It ends when an agent exits before its script has ended, or after   *)
(* one failed without telling state.json what it had registered, and when the *)
(* button, which does not ask state.json, is answered with an older release.  *)
NeverDown == ~ left /\ ~ outdated => ~ down
===============================================================================
