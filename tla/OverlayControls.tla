---------------------------- MODULE OverlayControls ----------------------------
(* The pin and click-through toggles of the overlay (commands/overlay.rs, and  *)
(* probe_gamebar_uia of gamebar_bridge.rs).  A setting is saved at once and     *)
(* applied later, by a job that operates the toolbar of Game Bar through UI     *)
(* Automation, a slow traversal; the widget asks for the same by itself, and   *)
(* for click-through to be restored when it sees it off.                       *)
EXTENDS Naturals

CONSTANTS
    None, Enforce, Widget,
    Retries,    \* attempts after Game Bar was opened (4 in the code)
    MaxToggles, \* bound: settings saved
    MaxProbes,  \* bound: probes the widget asks for
    MaxUser     \* bound: what the user does in Game Bar

Jobs == 1..MaxToggles
Probers == Jobs \cup {Enforce, Widget}

VARIABLES
    preference, \* overlay_pin_preference of the file
    saving,     \* set_overlay_control between the save and the request
    generation, \* CONTROL_REQUEST_GENERATION
    tasks,      \* the jobs, the enforcement and the widget's probe: [pc, want, left]
    applier,    \* holder of control_apply_lock
    prober,     \* holder of UIA_LOCK
    probe,      \* its traversal: [stage, pin, through, at]
    recent,     \* an enforcement began in the last 15 s
    bar,        \* the toolbar: "closed", of "other" widgets or of "yummi"
    pinned, through,  \* the toggles of the widget
    probes, doings,
    \* history
    saves,      \* settings saved
    applied,    \* a traversal that read the last setting set the toggle
    touched     \* the user pinned or unpinned by hand since

requests == <<preference, saving, generation, recent, probes, saves>>
locks == <<applier, prober, probe>>
game == <<bar, pinned, through, doings, applied, touched>>
vars == <<requests, tasks, locks, game>>

Idle == [pc |-> "idle", want |-> None, left |-> 0]
NoProbe == [stage |-> "none", pin |-> None, through |-> FALSE, at |-> 0]

Init ==
    /\ preference = TRUE /\ saving = None /\ generation = 0
    /\ tasks = [a \in Probers |-> Idle]
    /\ applier = None /\ prober = None /\ probe = NoProbe /\ recent = FALSE
    /\ bar \in {"closed", "other", "yummi"} /\ pinned \in BOOLEAN /\ through \in BOOLEAN
    /\ probes = 0 /\ doings = 0 /\ saves = 0 /\ applied = FALSE /\ touched = FALSE

To(a, pc) == tasks' = [tasks EXCEPT ![a].pc = pc]
Ends(a) == tasks' = [tasks EXCEPT ![a] = Idle]

-----------------------------------------------------------------------------
(* Game Bar and its user.                                                     *)

Does == doings < MaxUser /\ doings' = doings + 1
BarChanges ==
    /\ Does /\ \E b \in {"closed", "other", "yummi"} : b # bar /\ bar' = b
    /\ UNCHANGED <<requests, tasks, locks, pinned, through, applied, touched>>
UserPins ==
    /\ bar = "yummi" /\ Does /\ pinned' = ~ pinned /\ touched' = TRUE
    /\ UNCHANGED <<requests, tasks, locks, bar, through, applied>>
(* The widget sees click-through go off and reports it.                       *)
UserTurnsOff ==
    /\ bar = "yummi" /\ through /\ Does /\ through' = FALSE
    /\ UNCHANGED <<requests, tasks, locks, bar, pinned, applied, touched>>

-----------------------------------------------------------------------------
(* set_overlay_control: the preference is saved, then the request counted and  *)
(* its job spawned; the command lock keeps two commands apart.                 *)

Save(want) ==
    /\ saving = None /\ saves < MaxToggles /\ saves' = saves + 1
    /\ saving' = want
    /\ preference' = IF want = "through" THEN preference ELSE want = "on"
    /\ IF want = "through" THEN UNCHANGED <<applied, touched>>
                           ELSE applied' = FALSE /\ touched' = FALSE
    /\ UNCHANGED <<generation, recent, probes, tasks, locks, bar, pinned, through, doings>>

Request ==
    /\ saving # None /\ saving' = None
    /\ generation' = generation + 1
    /\ tasks' = [tasks EXCEPT ![generation + 1] = [pc |-> "lock", want |-> saving, left |-> 0]]
    /\ UNCHANGED <<preference, recent, probes, saves, locks, game>>

(* The job after its debounce: only the newest one goes on.                   *)
JobLocks(j) ==
    /\ tasks[j].pc = "lock" /\ applier = None
    /\ IF j = generation THEN applier' = j /\ To(j, "probe")
                         ELSE UNCHANGED applier /\ Ends(j)
    /\ UNCHANGED <<requests, prober, probe, game>>

(* ... and looks again before each further traversal.                         *)
JobLooks(j) ==
    /\ tasks[j].pc \in {"lookAgain", "lookRetry"}
    /\ IF j = generation
         THEN UNCHANGED applier /\ To(j, IF tasks[j].pc = "lookAgain" THEN "again" ELSE "retry")
         ELSE applier' = None /\ Ends(j)
    /\ UNCHANGED <<requests, prober, probe, game>>

(* enforce_clickthrough_on of the pipe, coalesced over 15 s; one at a time is  *)
(* modelled, more would wait for the lock.                                    *)
ReportOff ==
    /\ ~ through /\ ~ recent /\ tasks[Enforce].pc = "idle"
    /\ recent' = TRUE
    /\ tasks' = [tasks EXCEPT ![Enforce] = [pc |-> "lock", want |-> "through", left |-> 0]]
    /\ UNCHANGED <<preference, saving, generation, probes, saves, locks, game>>
TimePasses ==
    /\ recent /\ recent' = FALSE
    /\ UNCHANGED <<preference, saving, generation, probes, saves, tasks, locks, game>>
EnforceLocks ==
    /\ tasks[Enforce].pc = "lock" /\ applier = None
    /\ applier' = Enforce /\ To(Enforce, "probe")
    /\ UNCHANGED <<requests, prober, probe, game>>

(* probe_gamebar_uia of the pipe: without control_apply_lock.                 *)
WidgetAsks ==
    /\ bar # "closed" /\ tasks[Widget].pc = "idle"
    /\ probes < MaxProbes /\ probes' = probes + 1
    /\ To(Widget, "probe")
    /\ UNCHANGED <<preference, saving, generation, recent, saves, locks, game>>

-----------------------------------------------------------------------------
(* probe_gamebar_uia: the preferences are read under UIA_LOCK, unless the      *)
(* caller names what it wants.                                                 *)

TargetsOfRequest(a) ==
    IF a \in Jobs THEN [pin |-> tasks[a].want = "on", through |-> TRUE]
    ELSE [pin |-> preference, through |-> TRUE]
Targets(a) ==
    [pin |-> IF a = Enforce THEN None ELSE preference, through |-> TRUE]

BeginProbe(a) ==
    /\ tasks[a].pc \in {"probe", "again", "retry"} /\ prober = None
    /\ prober' = a
    /\ probe' = [stage |-> "scan", pin |-> Targets(a).pin, through |-> Targets(a).through,
                 at |-> saves]
    /\ UNCHANGED <<requests, tasks, applier, game>>

(* The traversal finds the title of the selected widget; when it is another's, *)
(* the button that selects the overlay is invoked and no toggle is touched.    *)
Found == CASE bar = "yummi" -> "seen" [] bar = "other" -> "invoked" [] OTHER -> "nothing"
Selection == IF bar = "other" THEN {"other", "yummi"} ELSE {bar}
Scans(a) ==
    /\ prober = a /\ probe.stage = "scan"
    /\ probe' = [probe EXCEPT !.stage = Found]
    /\ bar' \in Selection
    /\ UNCHANGED <<requests, tasks, applier, prober, pinned, through, doings, applied, touched>>

(* Whether the caller has what it wants, or gives up: the widget's probe is   *)
(* one traversal, only pinning and the enforcement insist.                    *)
Done(a, pinOn, throughOn) ==
    \/ a = Widget
    \/ a \in Jobs /\ (tasks[a].want # "on" \/ pinOn)
    \/ a = Enforce /\ throughOn
    \/ tasks[a].pc = "retry" /\ tasks[a].left = 1

(* A job that invoked the selection looks again, one that is to pin opens     *)
(* Game Bar and tries some more times, as the enforcement does.               *)
Continues(a, pinOn, throughOn) ==
    LET retried == tasks[a].pc = "retry" IN
    IF a \in Jobs /\ tasks[a].pc = "probe" /\ probe.stage = "invoked"
      THEN To(a, "lookAgain") /\ UNCHANGED applier
    ELSE IF Done(a, pinOn, throughOn)
      THEN Ends(a) /\ applier' = IF applier = a THEN None ELSE applier
    ELSE /\ tasks' = [tasks EXCEPT
              ![a].pc = IF ~ retried THEN "open"
                        ELSE IF a = Enforce THEN "retry" ELSE "lookRetry",
              ![a].left = IF retried THEN @ - 1 ELSE Retries]
         /\ UNCHANGED applier

(* A toggle that differs from what is wanted is toggled, unless it is gone     *)
(* since or does not answer.                                                  *)
Toggled(now, want) == IF want = None THEN now ELSE want
Acts(a) ==
    /\ prober = a /\ probe.stage # "scan"
    /\ \/ /\ probe.stage = "seen" /\ bar = "yummi"
          /\ pinned' = Toggled(pinned, probe.pin)
          /\ through' = Toggled(through, probe.through)
          /\ applied' = (applied \/ (probe.pin # None /\ probe.at = saves))
          /\ Continues(a, pinned', through')
       \/ UNCHANGED <<pinned, through, applied>> /\ Continues(a, FALSE, FALSE)
    /\ prober' = None /\ probe' = NoProbe
    /\ UNCHANGED <<requests, bar, doings, touched>>

(* launch_windows_game_bar                                                    *)
Opens(a) ==
    /\ tasks[a].pc = "open"
    /\ bar' \in IF bar = "closed" THEN {"closed", "other", "yummi"} ELSE {bar}
    /\ To(a, IF a = Enforce THEN "retry" ELSE "lookRetry")
    /\ UNCHANGED <<requests, locks, pinned, through, doings, applied, touched>>

Next ==
    \/ BarChanges \/ UserPins \/ UserTurnsOff
    \/ \E want \in {"on", "off", "through"} : Save(want)
    \/ Request
    \/ \E j \in Jobs : JobLocks(j) \/ JobLooks(j)
    \/ ReportOff \/ TimePasses \/ EnforceLocks \/ WidgetAsks
    \/ \E a \in Probers : BeginProbe(a) \/ Scans(a) \/ Acts(a) \/ Opens(a)

Spec == Init /\ [][Next]_vars

-----------------------------------------------------------------------------
TypeOK ==
    /\ preference \in BOOLEAN /\ generation \in 0..MaxToggles
    /\ tasks \in [Probers -> [pc : {"idle", "lock", "probe", "lookAgain", "again", "open",
                                  "lookRetry", "retry"},
                             want : {None, "on", "off", "through"}, left : 0..Retries]]
    /\ applier \in {None, Enforce} \cup Jobs /\ prober \in {None} \cup Probers
    /\ bar \in {"closed", "other", "yummi"}
    /\ \A a \in Probers \ {Widget} :
          tasks[a].pc \notin {"idle", "lock"} => applier = a

(* Once a traversal that began after the last setting was saved has set the    *)
(* toggle, the overlay is pinned as the setting says, whatever older jobs and  *)
(* probes of the widget still do, until the user pins by hand: "an older       *)
(* running probe cannot replay a stale state" (set_overlay_control).          *)
LastSettingWins == applied /\ ~ touched => pinned = preference
===============================================================================
