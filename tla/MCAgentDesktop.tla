---------------------------- MODULE MCAgentDesktop ----------------------------
(* TLC instance of the parts of the agent that face the desktop: the mouse    *)
(* over the pinned overlay, the snapshots it shows, its updates, its toggles, *)
(* the Discord activity and the invitations asked for in Discord.  They share *)
(* no state here; a behaviour runs one of them, so the run explores each part *)
(* completely without their product.                                          *)
EXTENDS Naturals

CONSTANTS Friends, Sources, Sticky, Channels, MaxToasts, MaxVoice, RefreshEvery, MaxPushes,
          MaxResets, Releases, MaxFails, MaxExits, None, StartupAttempts, ConnectAttempts,
          MaxQuits, MaxSlow, Users, RiotIds, MaxAsks, MaxAnswers, MaxLost, Enforce,
          Widget, Retries, MaxToggles, MaxProbes, MaxUser,
          Snapshots  \* what the agent may detect of the player

VARIABLES
    part,
    button, at, async, behind, block, shield, ext, clicked, poll, sync, began, polled, doubt,
    online, snap, watch, expired, stamp, widgetClient, steady, greeted, missed, overrun,
    published, appx, deferred, widget, stateFile, zip, updater, cache, op, scripts, fails,
    exits, wanted, sneaked, down, left, outdated,
    discord, shown, league, ready, client, task, last, retry, nudge, quits, slow,
    lobby, inbox, lookups, answers, pending, joinTask, asks, taken, invited, lost,
    preference, saving, generation, tasks, applier, prober, probe, recent, bar, pinned, through,
    probes, doings, saves, applied, touched

inputVars ==
    <<button, at, async, behind, block, shield, ext, clicked, poll, sync, began, polled, doubt>>
snapshotVars ==
    <<online, snap, watch, expired, stamp, widgetClient, steady, greeted, missed, overrun>>
overlayVars ==
    <<published, appx, deferred, widget, stateFile, zip, updater, cache, op, scripts, fails,
      exits, wanted, sneaked, down, left, outdated>>
activityVars ==
    <<discord, shown, league, ready, client, task, last, retry, nudge, quits, slow>>
joinVars ==
    <<lobby, inbox, lookups, answers, pending, joinTask, asks, taken, invited, lost>>
controlVars ==
    <<preference, saving, generation, tasks, applier, prober, probe, recent, bar, pinned, through,
      probes, doings, saves, applied, touched>>

(* Two looks of one phase, as when the champion changes, and another phase.   *)
MCSnapshots == {[phase |-> "select", look |-> 1], [phase |-> "select", look |-> 2],
                [phase |-> "game", look |-> 1]}

Input == INSTANCE GameBarInput
Shown == INSTANCE GameBarSnapshots WITH client <- widgetClient
Overlay == INSTANCE OverlayUpdate
Activity == INSTANCE DiscordActivity
Joins == INSTANCE DiscordJoins WITH task <- joinTask
Controls == INSTANCE OverlayControls

(* The bounds are numbers, there is an attempt to start the client and one to *)
(* reach the toolbar, releases are numbered in their order from 1, a refresh   *)
(* of the friends comes up, the enforcement and the widget's probe are no      *)
(* jobs, and None is neither a presence nor a request nor one of those.        *)
ASSUME AttemptsAreCounted == StartupAttempts \in Nat \ {0} /\ ConnectAttempts \in Nat
ASSUME AsksAreCounted == MaxAsks \in Nat /\ MaxLost \in Nat
ASSUME NoneIsNobody == None \notin Snapshots /\ None \notin RiotIds /\ None \notin Joins!Request
ASSUME TogglesAreCounted == MaxToggles \in Nat /\ Retries \in Nat \ {0}
ASSUME ProbersDiffer == Enforce \notin 1..MaxToggles /\ Widget \notin 1..MaxToggles /\ Enforce # Widget
ASSUME NoneIsNoProber == None \notin Controls!Probers
ASSUME ReleasesAreCounted ==
    Overlay!MaxRelease \in Nat \ {0} /\ Releases = 1..Overlay!MaxRelease
ASSUME PushesAreCounted ==
    /\ MaxToasts \in Nat /\ MaxVoice \in Nat /\ RefreshEvery \in Nat \ {0}
    /\ MaxPushes \in Nat /\ MaxResets \in Nat

(* The variables of a part that does not run have one value.                  *)
InputIdle ==
    /\ button = FALSE /\ at = None /\ async = FALSE /\ behind = FALSE /\ block = None
    /\ shield = FALSE /\ ext = None /\ clicked = None /\ poll = None /\ sync = None
    /\ began = None /\ polled = FALSE /\ doubt = FALSE
ShownIdle ==
    /\ online = {} /\ snap = None /\ watch = None /\ expired = {} /\ stamp = 0
    /\ widgetClient = None /\ steady = {} /\ greeted = {} /\ missed = FALSE /\ overrun = {}
OverlayIdle ==
    /\ published = 0 /\ appx = 0 /\ deferred = 0 /\ widget = FALSE /\ stateFile = None
    /\ zip = 0 /\ updater = FALSE /\ cache = None /\ op = None /\ scripts = {} /\ fails = 0
    /\ exits = 0 /\ wanted = {} /\ sneaked = FALSE /\ down = FALSE /\ left = FALSE /\ outdated = FALSE
ActivityIdle ==
    /\ discord = FALSE /\ shown = None /\ league = None /\ ready = FALSE /\ client = None
    /\ task = None /\ last = None /\ retry = FALSE /\ nudge = None /\ quits = 0 /\ slow = 0
JoinsIdle ==
    /\ lobby = FALSE /\ inbox = {} /\ lookups = {} /\ answers = {} /\ pending = None
    /\ joinTask = None /\ asks = 0 /\ taken = None /\ invited = None /\ lost = None
ControlsIdle ==
    /\ preference = FALSE /\ saving = None /\ generation = 0 /\ tasks = None /\ applier = None
    /\ prober = None /\ probe = None /\ recent = FALSE /\ bar = None /\ pinned = FALSE
    /\ through = FALSE /\ probes = 0 /\ doings = 0 /\ saves = 0 /\ applied = FALSE
    /\ touched = FALSE

Init ==
    /\ part \in {"input", "snapshots", "overlay", "activity", "joins", "controls"}
    /\ IF part = "input" THEN Input!Init ELSE InputIdle
    /\ IF part = "snapshots" THEN Shown!Init ELSE ShownIdle
    /\ IF part = "overlay" THEN Overlay!Init ELSE OverlayIdle
    /\ IF part = "activity" THEN Activity!Init ELSE ActivityIdle
    /\ IF part = "joins" THEN Joins!Init ELSE JoinsIdle
    /\ IF part = "controls" THEN Controls!Init ELSE ControlsIdle

InputNext ==
    /\ part = "input" /\ Input!Next
    /\ UNCHANGED <<part, snapshotVars, overlayVars, activityVars, joinVars, controlVars>>
ShownNext ==
    /\ part = "snapshots" /\ Shown!Next
    /\ UNCHANGED <<part, inputVars, overlayVars, activityVars, joinVars, controlVars>>
OverlayNext ==
    /\ part = "overlay" /\ Overlay!Next
    /\ UNCHANGED <<part, inputVars, snapshotVars, activityVars, joinVars, controlVars>>
ActivityNext ==
    /\ part = "activity" /\ Activity!Next
    /\ UNCHANGED <<part, inputVars, snapshotVars, overlayVars, joinVars, controlVars>>
JoinsNext ==
    /\ part = "joins" /\ Joins!Next
    /\ UNCHANGED <<part, inputVars, snapshotVars, overlayVars, activityVars, controlVars>>
ControlsNext ==
    /\ part = "controls" /\ Controls!Next
    /\ UNCHANGED <<part, inputVars, snapshotVars, overlayVars, activityVars, joinVars>>

Next == InputNext \/ ShownNext \/ OverlayNext \/ ActivityNext \/ JoinsNext \/ ControlsNext
Spec ==
    Init /\ [][Next]_<<part, inputVars, snapshotVars, overlayVars, activityVars, joinVars,
                       controlVars>>

(* Not explored: pushes after a reset of the tutorial, which shares only the   *)
(* notification with them; pushes after a friend list was made up, where       *)
(* Baseline claims nothing any more; what follows the user's own pinning after *)
(* the last setting, where LastSettingWins claims nothing any more; and the    *)
(* widget's probe together with a second thing the user does in Game Bar.      *)
Explored ==
    /\ part = "snapshots" => (snap.reset = 0 /\ ~ missed) \/ stamp = 0
    /\ part = "controls" => (~ touched \/ saves < MaxToggles) /\ doings + probes <= MaxUser

(* The application behind the overlay gets the release of every press it got, *)
(* the shield is shown as long as a press is held and no longer, and a click  *)
(* counts for its gesture only (GameReleased, ShieldMatches and ClickOwned of *)
(* GameBarInput); a widget that waits shows what there is to show, no set     *)
(* takes a pushed toast or message away, and friends who were online before   *)
(* are not announced (ClientCurrent, NothingOverrun, VoiceOfChannel and       *)
(* Baseline of GameBarSnapshots).                                             *)
GameBarSafe ==
    /\ part = "input" =>
           Input!TypeOK /\ Input!GameReleased /\ Input!ShieldMatches /\ Input!ClickOwned
    /\ part = "snapshots" =>
           /\ Shown!TypeOK /\ Shown!ClientCurrent /\ Shown!NothingOverrun
           /\ Shown!VoiceOfChannel /\ Shown!Baseline

(* Only what was asked for is installed; as long as no agent has left a       *)
(* script behind, state.json does not lie, but for failures, and no older     *)
(* release replaces a newer one, but for one nobody has told of (OnlyAsked,   *)
(* StateTrue and NeverDown of OverlayUpdate); the last setting of the toggles *)
(* wins over older traversals (LastSettingWins of OverlayControls).           *)
OverlaySafe ==
    /\ part = "overlay" =>
           Overlay!TypeOK /\ Overlay!OnlyAsked /\ Overlay!StateTrue /\ Overlay!NeverDown
    /\ part = "controls" => Controls!TypeOK /\ Controls!LastSettingWins

(* Discord shows what was published last or nothing, by a connected client,   *)
(* and where a late answer was taken for that of an activity it will, unless  *)
(* it refuses it (ShownIsLast and ShownByClient of DiscordActivity); a        *)
(* request to join gets one invitation, while it waits (InvitedOnce and       *)
(* InvitesWaiting of DiscordJoins).                                           *)
PresenceSafe ==
    /\ part = "activity" =>
           Activity!TypeOK /\ Activity!ShownIsLast /\ Activity!ShownByClient
    /\ part = "joins" => Joins!TypeOK /\ Joins!InvitedOnce /\ Joins!InvitesWaiting
===============================================================================
