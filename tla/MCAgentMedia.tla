----------------------------- MODULE MCAgentMedia -----------------------------
(* TLC instance of five parts of the agent that share no state with one       *)
(* another: the recorder, the clip buffer, the live broadcast, the updater and *)
(* the main window.  A behaviour runs one of them, so the run explores each    *)
(* part completely without their product.                                     *)
EXTENDS Naturals, FiniteSets

CONSTANTS Games, Clicks, MaxSessions, MaxKept, MaxClip, MaxSegments, MaxCaptures,
          Streams, MaxRenewals, MaxPings, MaxChanges, MaxFaults, None, MaxAsks, MaxDrags,
          MaxCommands, MaxFails,
          Targets, Shipped, \* the releases of the server, and of the installer
          MaxRequests \* bound: requests, commands and running drags of the main window together

VARIABLES
    part,
    game, enabled, made, ofGame, alive, manager, stop, watcher, toggling, switched, clash,
    capture, held, rolling, written, open, ring, protected, disk, directory, exporting,
    export, doubled,
    lease, requested, generation, config, task, session, live, capturing, begun, control,
    ending, calls, pings, overlooked,
    published, channel, proc, running, binary, file, job, mutex, script, changes, faults, torn,
    win, opening, hideId, hiding, watchdogs, due, motion, tilted, expanded, size, base,
    threads, sync, resizes, orphans, asks, commands, fails, wanted, late, zeroed, stale,
    overlap

recorderVars ==
    <<game, enabled, made, ofGame, alive, manager, stop, watcher, toggling, switched, clash>>
clipsVars ==
    <<capture, held, rolling, written, open, ring, protected, disk, directory, exporting,
      export, doubled>>
broadcastVars ==
    <<lease, requested, generation, config, task, session, live, capturing, begun, control,
      ending, calls, pings, overlooked>>
updatesVars ==
    <<published, channel, proc, running, binary, file, job, mutex, script, changes, faults, torn>>
windowVars ==
    <<win, opening, hideId, hiding, watchdogs, due, motion, tilted, expanded, size, base,
      threads, sync, resizes, orphans, asks, commands, fails, wanted, late, zeroed, stale,
      overlap>>

(* The bounds are numbers, a click is not one of the recorder's own threads,  *)
(* a release has a build, a commit and a numbered label, and the installer's   *)
(* binary was built as the release it is.                                      *)
ASSUME SessionsAreCounted == MaxSessions \in Nat
ASSUME ClicksAreUsers == "watcher" \notin Clicks /\ "switch" \notin Clicks
ASSUME ClipBoundsAreNats == MaxKept \in Nat /\ MaxSegments \in Nat \ {0} /\ MaxCaptures \in Nat
ASSUME BroadcastBoundsAreNats == MaxRenewals \in Nat /\ MaxPings \in Nat
ASSUME DragsAreCounted == MaxDrags \in Nat
ASSUME ReleasesAreKnown ==
    /\ MaxChanges \in Nat /\ MaxFaults \in Nat
    /\ \A t \in Targets \cup {Shipped} :
          t.build \in Nat \ {0} /\ t.commit # 0 /\ t.label.seq \in Nat
ASSUME InstallerIsPromoted == Shipped.exe.build = Shipped.build /\ Shipped.exe.commit = Shipped.commit

(* Releases: one whose binary is a promoted candidate, as they all are; two   *)
(* of the same version on the beta channel, the builds numbered the other way *)
(* round than the labels; a newer one that blocks the first before rollout.   *)
Label(v, c, n) == [version |-> v, channel |-> c, seq |-> n]
Exe(l, b) == [label |-> l, build |-> b, commit |-> b]
Release(v, l, b, c, exe) ==
    [version |-> v, label |-> l, build |-> b, commit |-> b, channel |-> c, min |-> 0,
     blocked |-> {}, rolledOut |-> TRUE, hasUrl |-> TRUE, signed |-> TRUE, exe |-> exe]
MCShipped == Release(1, Label(1, "stable", 0), 5, "stable", Exe(Label(1, "candidate", 2), 5))
MCTargets ==
    {Release(1, Label(1, "beta", 1), 7, "beta", Exe(Label(1, "candidate", 3), 6)),
     Release(1, Label(1, "beta", 2), 6, "beta", Exe(Label(1, "candidate", 4), 6)),
     [Release(2, Label(2, "stable", 0), 8, "stable", Exe(Label(2, "candidate", 1), 8))
        EXCEPT !.blocked = {1}, !.rolledOut = FALSE]}

Recorder == INSTANCE Recording
Clips == INSTANCE ClipBuffer WITH running <- rolling
Broadcast == INSTANCE LiveSfu
Updates == INSTANCE Updater
Window == INSTANCE MainWindow WITH generation <- motion

(* The variables of a part that does not run have one value.                  *)
RecorderIdle ==
    /\ game = None /\ enabled = FALSE /\ made = 0 /\ ofGame = None /\ alive = {} /\ manager = None
    /\ stop = None /\ watcher = None /\ toggling = FALSE /\ switched = FALSE /\ clash = FALSE
ClipsIdle ==
    /\ capture = 0 /\ held = FALSE /\ rolling = FALSE /\ written = 0 /\ open = FALSE /\ ring = None
    /\ protected = {} /\ disk = {} /\ directory = 0 /\ exporting = FALSE /\ export = None
    /\ doubled = FALSE
BroadcastIdle ==
    /\ lease = FALSE /\ requested = FALSE /\ generation = 0 /\ config = None /\ task = None
    /\ session = None /\ live = None /\ capturing = {} /\ begun = None /\ control = None
    /\ ending = None /\ calls = 0 /\ pings = None /\ overlooked = FALSE
UpdatesIdle ==
    /\ published = None /\ channel = None /\ proc = None /\ running = None /\ binary = None
    /\ file = None /\ job = None /\ mutex = FALSE /\ script = None /\ changes = 0 /\ faults = 0
    /\ torn = FALSE
WindowIdle ==
    /\ win = None /\ opening = None /\ hideId = 0 /\ hiding = {} /\ watchdogs = {} /\ due = FALSE
    /\ motion = 0 /\ tilted = FALSE /\ expanded = FALSE /\ size = None /\ base = None
    /\ threads = None /\ sync = None /\ resizes = None /\ orphans = {} /\ asks = 0 /\ commands = 0
    /\ fails = 0 /\ wanted = None /\ late = FALSE /\ zeroed = FALSE /\ stale = FALSE
    /\ overlap = FALSE

Init ==
    /\ part \in {"recorder", "clips", "broadcast", "updates", "window"}
    /\ IF part = "recorder" THEN Recorder!Init ELSE RecorderIdle
    /\ IF part = "clips" THEN Clips!Init ELSE ClipsIdle
    /\ IF part = "broadcast" THEN Broadcast!Init ELSE BroadcastIdle
    /\ IF part = "updates" THEN Updates!Init ELSE UpdatesIdle
    /\ IF part = "window" THEN Window!Init ELSE WindowIdle

RecorderNext ==
    /\ part = "recorder" /\ Recorder!Next
    /\ UNCHANGED <<part, clipsVars, broadcastVars, updatesVars, windowVars>>
ClipsNext ==
    /\ part = "clips" /\ Clips!Next
    /\ UNCHANGED <<part, recorderVars, broadcastVars, updatesVars, windowVars>>
BroadcastNext ==
    /\ part = "broadcast" /\ Broadcast!Next
    /\ UNCHANGED <<part, recorderVars, clipsVars, updatesVars, windowVars>>
UpdatesNext ==
    /\ part = "updates" /\ Updates!Next
    /\ UNCHANGED <<part, recorderVars, clipsVars, broadcastVars, windowVars>>
WindowNext ==
    /\ part = "window" /\ Window!Next
    /\ UNCHANGED <<part, recorderVars, clipsVars, broadcastVars, updatesVars>>

Next == RecorderNext \/ ClipsNext \/ BroadcastNext \/ UpdatesNext \/ WindowNext
Spec == Init /\ [][Next]_<<part, recorderVars, clipsVars, broadcastVars, updatesVars, windowVars>>

(* Nothing is explored after a clash of scripts or an overlap of two calls,   *)
(* where the properties claim nothing.  What follows a clash of stops is       *)
(* explored, for TakesAutomatic speaks of it as well.  Each property below     *)
(* includes the type invariant of its part.                                    *)
DragsUnderWay ==
    IF part = "window" THEN Cardinality({d \in 1..MaxDrags : threads[d].pc # "idle"}) ELSE 0
Explored ==
    /\ ~ torn
    /\ ~ late /\ ~ overlap /\ asks + commands + DragsUnderWay <= MaxRequests

(* Until a stop is overtaken, an automatic recording is known as one and by    *)
(* its game, and turning the switch off leaves none behind (AutoKnown and      *)
(* OffMeansOff of Recording).                                                 *)
RecorderSafe ==
    part = "recorder" => Recorder!TypeOK /\ Recorder!AutoKnown /\ Recorder!OffMeansOff

(* An export's files stay until it is over, and the buffer exceeds its bound  *)
(* only behind a reserved segment (ExportedStay and BufferBounded of          *)
(* ClipBuffer).                                                               *)
ClipsSafe ==
    part = "clips" => Clips!TypeOK /\ Clips!ExportedStay /\ Clips!BufferBounded

(* No capture of the screen escapes its owners or outlives the lease          *)
(* (NoLostCapture and CaptureHasPublisher of LiveSfu).                        *)
BroadcastSafe ==
    part = "broadcast" =>
        Broadcast!TypeOK /\ Broadcast!NoLostCapture /\ Broadcast!CaptureHasPublisher

(* The identity file fits the installed build, and no check reinstalls what   *)
(* runs (IdentityFits and NoReinstall of Updater).                            *)
UpdatesSafe ==
    part = "updates" => Updates!TypeOK /\ Updates!IdentityFits /\ Updates!NoReinstall

(* A reopened window stays, the motion it was stopped in does not come back,   *)
(* and its kept size is the user's (ReopenedStays, StaysUpright and            *)
(* BaseIsUsers of MainWindow).                                                *)
WindowSafe ==
    part = "window" =>
        Window!TypeOK /\ Window!ReopenedStays /\ Window!StaysUpright /\ Window!BaseIsUsers

(* The watcher and the switch end no recording that the user had begun when   *)
(* they asked for the flag (TakesAutomatic of Recording), and no script puts   *)
(* an older release in place of a newer one (CopiesNewer of Updater).         *)
StepsSafe ==
    [][/\ part = "recorder" => Recorder!TakesAutomatic
       /\ part = "updates" => Updates!CopiesNewer]_<<recorderVars, updatesVars>>
===============================================================================
