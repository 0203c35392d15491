------------------------------ MODULE Recording ------------------------------
(* The game recorder of the agent: the RecordingManager of recording.rs behind *)
(* its mutex, the buttons of commands/recording.rs, the switch of              *)
(* commands/config.rs and the watcher of app.rs that records every League game *)
(* while the switch is on.  Stopping a recording lets go of the mutex while    *)
(* the capture ends, so two stops, or a stop and a start, may overlap.         *)
EXTENDS Naturals, FiniteSets

CONSTANTS
    Games,        \* ids of games, positive numbers
    Clicks,       \* threads that serve the user's start and stop buttons
    MaxSessions   \* bound: how many recordings are begun

Nil == 0
Sessions == 1..MaxSessions
Stoppers == Clicks \cup {"watcher", "switch"}

VARIABLES
    game,      \* the game in progress, or Nil
    enabled,   \* config.auto_record_league_games
    made,      \* how many recordings were begun
    ofGame,    \* per recording: the game it records by itself, Nil for the user's
    alive,     \* the recordings whose capture still runs
    manager,   \* general, auto_game_recording and auto_game_id of the manager
    stop,      \* per thread: where its stop_recording is, what it took, and as history
               \* the latest recording when it read that an automatic one is held
    watcher,   \* the watcher: where it is, the game it saw, its inactive ticks
    toggling,  \* set_auto_record_league_games holds the command lock
    switched,  \* history: the switch was the last to turn recording off
    clash      \* history: a stop or a start came between the steps of a stop

vars == <<game, enabled, made, ofGame, alive, manager, stop, watcher,
          toggling, switched, clash>>

NoStop == [pc |-> "idle", took |-> Nil, saw |-> Nil]

Init ==
    /\ game = Nil
    /\ enabled \in BOOLEAN
    /\ made = 0
    /\ ofGame = [s \in Sessions |-> Nil]
    /\ alive = {}
    /\ manager = [general |-> Nil, auto |-> FALSE, gameId |-> Nil]
    /\ stop = [c \in Stoppers |-> NoStop]
    /\ watcher = [pc |-> "poll", seen |-> Nil, ticks |-> 0]
    /\ toggling = FALSE
    /\ switched = FALSE
    /\ clash = FALSE

Overlapping == \E c \in Stoppers : stop[c].pc \in {"take", "stopping", "clear"}

(* cleanup_finished: a capture that has ended by itself is no longer held.    *)
Cleaned(m) == IF m.general \in alive THEN m ELSE [m EXCEPT !.general = Nil]

-----------------------------------------------------------------------------
(* The game and the captures.                                                 *)

GameChanges(g) ==
    /\ g # game
    /\ game' = g
    /\ UNCHANGED <<enabled, made, ofGame, alive, manager, stop, watcher, toggling, switched, clash>>

(* The captured window is gone, or the encoder failed.                        *)
CaptureEnds(s) ==
    /\ s \in alive
    /\ alive' = alive \ {s}
    /\ UNCHANGED <<game, enabled, made, ofGame, manager, stop, watcher, toggling, switched, clash>>

-----------------------------------------------------------------------------
(* start_recording_inner, all of it under the mutex.  A recording that runs   *)
(* makes the start return the status as it is.                                *)

Begun(g) == [general |-> made + 1, auto |-> g # Nil, gameId |-> g]

Begin(g) ==
    /\ made < MaxSessions
    /\ made' = made + 1
    /\ ofGame' = [ofGame EXCEPT ![made + 1] = g]
    /\ alive' = alive \cup {made + 1}
    /\ manager' = Begun(g)
    /\ clash' = (clash \/ Overlapping)

(* The flags set before it is known whether a recording runs.                 *)
StartFlagged(g) ==
    IF Cleaned(manager).general # Nil
    THEN /\ manager' = [Cleaned(manager) EXCEPT !.auto = g # Nil, !.gameId = g]
         /\ UNCHANGED <<made, ofGame, alive, clash>>
    ELSE Begin(g)

Start(g) ==
    IF Cleaned(manager).general # Nil
    THEN manager' = Cleaned(manager) /\ UNCHANGED <<made, ofGame, alive, clash>>
    ELSE Begin(g)

(* No support, no window, no encoder.                                         *)
StartFails ==
    /\ manager' = Cleaned(manager)
    /\ UNCHANGED <<made, ofGame, alive, clash>>

(* The metadata file cannot be written: the capture has started, its handle   *)
(* is dropped, and it runs on in nobody's hands.                              *)
StartedUnheld(g) ==
    /\ Cleaned(manager).general = Nil /\ made < MaxSessions
    /\ made' = made + 1
    /\ ofGame' = [ofGame EXCEPT ![made + 1] = g]
    /\ alive' = alive \cup {made + 1}
    /\ manager' = Cleaned(manager)
    /\ UNCHANGED clash

(* The user's start button.                                                   *)
ClickStart(c) ==
    /\ stop[c].pc = "idle"
    /\ Start(Nil) \/ StartFails \/ StartedUnheld(Nil)
    /\ UNCHANGED <<game, enabled, stop, watcher, toggling, switched>>

-----------------------------------------------------------------------------
(* stop_recording.                                                            *)

Stopping(c, pc) ==
    /\ stop[c].pc = "idle"
    /\ stop' = [stop EXCEPT ![c] = [pc |-> pc, took |-> Nil, saw |-> Nil]]
    /\ clash' = (clash \/ (pc = "take" /\ Overlapping))

(* The user's stop button.                                                    *)
ClickStop(c) ==
    /\ Stopping(c, "take")
    /\ UNCHANGED <<game, enabled, made, ofGame, alive, manager, watcher, toggling, switched>>

StopWhatever(c) ==
    /\ stop[c].pc = "automatic?"
    /\ stop' = [stop EXCEPT ![c] = [pc |-> "take", took |-> Nil, saw |-> made]]
    /\ clash' = (clash \/ (stop'[c].pc = "take" /\ Overlapping))
    /\ UNCHANGED <<game, enabled, made, ofGame, alive, manager, watcher, toggling, switched>>

(* stop_auto_game_recording reads the flag, and only then takes the mutex     *)
(* again to stop.                                                             *)
WhetherAutomatic(c) ==
    /\ stop[c].pc = "automatic?"
    /\ stop' = [stop EXCEPT ![c] =
                   IF manager.auto THEN [pc |-> "take", took |-> Nil, saw |-> made] ELSE NoStop]
    /\ clash' = (clash \/ (stop'[c].pc = "take" /\ Overlapping))
    /\ UNCHANGED <<game, enabled, made, ofGame, alive, manager, watcher, toggling, switched>>

Take(c) ==
    /\ stop[c].pc = "take"
    /\ stop' = [stop EXCEPT ![c] =
                   [pc |-> "stopping", took |-> Cleaned(manager).general, saw |-> Nil]]
    /\ manager' = [manager EXCEPT !.general = Nil]
    /\ UNCHANGED <<game, enabled, made, ofGame, alive, watcher, toggling, switched, clash>>

(* CaptureControl::stop.  Its error ends the call with the flags as they are. *)
Stopped(c) ==
    /\ stop[c].pc = "stopping"
    /\ alive' = alive \ {stop[c].took}
    /\ stop' = [stop EXCEPT ![c].pc = "clear"]
    /\ UNCHANGED <<game, enabled, made, ofGame, manager, watcher, toggling, switched, clash>>

StopFails(c) ==
    /\ stop[c].pc = "stopping"
    /\ stop[c].took # Nil
    /\ alive' = alive \ {stop[c].took}
    /\ stop' = [stop EXCEPT ![c] = NoStop]
    /\ UNCHANGED <<game, enabled, made, ofGame, manager, watcher, toggling, switched, clash>>

(* The file is examined, the metadata that are active now are closed and the  *)
(* flags that are set now are cleared.                                        *)
Clear(c) ==
    /\ stop[c].pc = "clear"
    /\ manager' = [Cleaned(manager) EXCEPT !.auto = FALSE, !.gameId = Nil]
    /\ stop' = [stop EXCEPT ![c] = NoStop]
    /\ UNCHANGED <<game, enabled, made, ofGame, alive, watcher, toggling, switched, clash>>

StopStep(c) == WhetherAutomatic(c) \/ Take(c) \/ Stopped(c) \/ StopFails(c) \/ Clear(c)

-----------------------------------------------------------------------------
(* The switch.                                                                *)

(* set_auto_record_league_games under the command lock.                       *)
Toggle(on) ==
    /\ ~ toggling /\ watcher.pc # "locked"
    /\ on # enabled
    /\ enabled' = on
    /\ switched' = ~ on
    /\ IF ~ on /\ manager.gameId # Nil
       THEN toggling' = TRUE /\ Stopping("switch", "automatic?")
       ELSE UNCHANGED <<toggling, stop, clash>>
    /\ UNCHANGED <<game, made, ofGame, alive, manager, watcher>>

(* save_config replaces the whole configuration, without the lock.            *)
SaveConfig(on) ==
    /\ on # enabled
    /\ enabled' = on
    /\ switched' = FALSE
    /\ UNCHANGED <<game, made, ofGame, alive, manager, stop, watcher, toggling, clash>>

ToggleReturns ==
    /\ toggling
    /\ stop["switch"].pc = "idle"
    /\ toggling' = FALSE
    /\ UNCHANGED <<game, enabled, made, ofGame, alive, manager, stop, watcher, switched, clash>>

-----------------------------------------------------------------------------
(* watch_game_recording, every two seconds.                                   *)

Watch(pc) == watcher' = [watcher EXCEPT !.pc = pc]

(* What the client says; a client that does not answer shows no game.         *)
Poll ==
    /\ watcher.pc = "poll"
    /\ \E g \in {Nil} \cup (IF enabled THEN {game} ELSE {}) :
         watcher' = [watcher EXCEPT !.pc = "decide", !.seen = g]
    /\ UNCHANGED <<game, enabled, made, ofGame, alive, manager, stop, toggling, switched, clash>>

(* Another game than the one recorded: that recording is stopped first.       *)
Switch ==
    /\ watcher.pc = "decide" /\ watcher.seen # Nil
    /\ manager.gameId \notin {Nil, watcher.seen}
    /\ Stopping("watcher", "automatic?")
    /\ watcher' = [watcher EXCEPT !.pc = "start", !.ticks = 0]
    /\ UNCHANGED <<game, enabled, made, ofGame, alive, manager, toggling, switched>>

NoSwitch ==
    /\ watcher.pc = "decide" /\ watcher.seen # Nil
    /\ manager.gameId \in {Nil, watcher.seen}
    /\ watcher' = [watcher EXCEPT !.pc = "start", !.ticks = 0]
    /\ UNCHANGED <<game, enabled, made, ofGame, alive, manager, stop, toggling, switched, clash>>

(* Already recorded, or a start failed less than a minute ago.                *)
NoStart ==
    /\ watcher.pc = "start" /\ stop["watcher"].pc = "idle"
    /\ Watch("poll")
    /\ UNCHANGED <<game, enabled, made, ofGame, alive, manager, stop, toggling, switched, clash>>

MayStartUnchecked == TRUE
MayStart == enabled

(* The command lock is taken, and the switch read again.                      *)
WatcherLocks ==
    /\ watcher.pc = "start" /\ stop["watcher"].pc = "idle"
    /\ manager.gameId # watcher.seen
    /\ ~ toggling
    /\ Watch(IF MayStart THEN "locked" ELSE "poll")
    /\ UNCHANGED <<game, enabled, made, ofGame, alive, manager, stop, toggling, switched, clash>>

WatcherStarts ==
    /\ watcher.pc = "locked"
    /\ Start(watcher.seen) \/ StartFails \/ StartedUnheld(watcher.seen)
    /\ Watch("poll")
    /\ UNCHANGED <<game, enabled, stop, toggling, switched>>

Due == manager.gameId # Nil /\ watcher.ticks + 1 >= 3

(* Three polls in a row without a game end the recording.                     *)
Inactive ==
    /\ watcher.pc = "decide" /\ watcher.seen = Nil
    /\ IF Due
       THEN /\ Stopping("watcher", "automatic?")
            /\ watcher' = [watcher EXCEPT !.pc = "stopped", !.ticks = 0]
       ELSE /\ watcher' = [watcher EXCEPT !.pc = "poll",
                  !.ticks = IF manager.gameId # Nil THEN watcher.ticks + 1 ELSE 0]
            /\ UNCHANGED <<stop, clash>>
    /\ UNCHANGED <<game, enabled, made, ofGame, alive, manager, toggling, switched>>

WatcherStopped ==
    /\ watcher.pc = "stopped" /\ stop["watcher"].pc = "idle"
    /\ Watch("poll")
    /\ UNCHANGED <<game, enabled, made, ofGame, alive, manager, stop, toggling, switched, clash>>

WatcherStep == Poll \/ Switch \/ NoSwitch \/ NoStart \/ WatcherLocks \/ WatcherStarts \/ Inactive \/ WatcherStopped

Next ==
    \/ \E g \in Games \cup {Nil} : GameChanges(g)
    \/ \E s \in Sessions : CaptureEnds(s)
    \/ \E c \in Clicks : ClickStart(c) \/ ClickStop(c)
    \/ \E c \in Stoppers : StopStep(c)
    \/ \E on \in BOOLEAN : Toggle(on) \/ SaveConfig(on)
    \/ ToggleReturns \/ WatcherStep

Spec == Init /\ [][Next]_vars

-----------------------------------------------------------------------------
(* Every variable has its type.                                               *)
TypeOK ==
    /\ game \in Games \cup {Nil}
    /\ enabled \in BOOLEAN /\ toggling \in BOOLEAN /\ switched \in BOOLEAN /\ clash \in BOOLEAN
    /\ made \in 0..MaxSessions
    /\ ofGame \in [Sessions -> Games \cup {Nil}]
    /\ alive \subseteq Sessions
    /\ manager \in [general : Sessions \cup {Nil}, auto : BOOLEAN, gameId : Games \cup {Nil}]
    /\ stop \in [Stoppers -> [pc : {"idle", "automatic?", "take", "stopping", "clear"},
                              took : Sessions \cup {Nil}, saw : 0..MaxSessions]]
    /\ watcher \in [pc : {"poll", "decide", "start", "locked", "stopped"},
                    seen : Games \cup {Nil}, ticks : 0..2]

Automatic(s) == s # Nil /\ ofGame[s] # Nil

(* An automatic recording is known as one, by its game, for as long as it is  *)
(* held: otherwise the watcher never finds it again and it goes on after its  *)
(* game, unless a stop was overtaken (stop_recording clears what is there).   *)
AutoKnown ==
    Automatic(manager.general) /\ ~ clash =>
       manager.auto /\ manager.gameId = ofGame[manager.general]

(* Once the switch has turned automatic recording off and returned, no        *)
(* automatic recording is held, and a poll of the watcher that was under way  *)
(* starts none (the comment before auto_start_guard in watch_game_recording). *)
OffMeansOff ==
    switched /\ ~ toggling /\ ~ clash => ~ Automatic(manager.general)

(* Neither the watcher nor the switch ends a recording that the user had      *)
(* begun when stop_auto_game_recording read the flag, whatever the other      *)
(* threads do in between: another stop may have ended the automatic recording *)
(* and another start begun one.  One that the user begins after the flag was  *)
(* read is not safe in the code: the stop takes what is there.                *)
TakesAutomatic ==
    \A c \in {"watcher", "switch"} :
        LET took == stop'[c].took
        IN  Take(c) /\ took # Nil => Automatic(took) \/ took > stop[c].saw
=============================================================================
