-------------------------- MODULE AgentMediaProofs --------------------------
(* What TLAPS proves of five parts of the agent, for every value of the       *)
(* constants of MCAgentMedia: the recorder (Recording), the clip buffer       *)
(* (ClipBuffer), the live broadcast (LiveSfu), the updater (Updater) and the   *)
(* main window (MainWindow).  Each part has an inductive invariant of named    *)
(* parts, a lemma per group of steps that shows it kept, and a theorem that    *)
(* states the invariant the run of MCAgentMedia checks.                        *)
EXTENDS MCAgentMedia, SequenceTheorems, FiniteSetTheorems, WellFoundedInduction, TLAPS

vars == <<part, recorderVars, clipsVars, broadcastVars, updatesVars, windowVars>>

-------------------------------------------------------------------------------
(* The recorder                                                               *)

Recordings == 1..MaxSessions
GameIds == Games \cup {0}
StopThreads == Clicks \cup {"watcher", "switch"}
Automatically == Recorder!Automatic(manager.general)

RecorderTypes ==
    /\ game \in GameIds /\ made \in 0..MaxSessions
    /\ ofGame \in [Recordings -> GameIds]
    /\ alive \subseteq Recordings
    /\ manager \in [general : Recordings \cup {0}, auto : BOOLEAN, gameId : GameIds]
    /\ manager.general <= made
    /\ stop \in [StopThreads -> [pc : {"idle", "automatic?", "take", "stopping", "clear"},
                                 took : Recordings \cup {0}, saw : 0..MaxSessions]]
    /\ watcher \in [pc : {"poll", "decide", "start", "locked", "stopped"}, seen : GameIds, ticks : 0..2]
RecorderFlags == enabled \in BOOLEAN /\ toggling \in BOOLEAN /\ switched \in BOOLEAN /\ clash \in BOOLEAN

\* The flags say what is held, and while a stop is between its steps nothing is,
\* or what is held is what the stop came for.
Known == ~clash =>
    /\ Automatically => manager.auto /\ manager.gameId = ofGame[manager.general]
    /\ manager.auto => manager.general = 0 \/ Automatically
    /\ \A c \in StopThreads : stop[c].pc \in {"stopping", "clear"} => manager.general = 0
    /\ \A c \in {"watcher", "switch"} : stop[c].pc = "take" => manager.general = 0 \/ Automatically

\* The switch and the watcher exclude each other, and once the stop of the switch
\* has taken what was held nothing automatic is held.
Off ==
    /\ switched => ~enabled /\ watcher.pc # "locked"
    /\ toggling => watcher.pc # "locked"
    /\ switched /\ ~clash /\ (~toggling \/ stop["switch"].pc \in {"idle", "stopping", "clear"})
          => ~Automatically

RecorderInv == RecorderTypes /\ RecorderFlags /\ Known /\ Off

\* However the steps of stops and starts mix, the flag of an automatic recording does
\* not stand over one of the user's; so what is held when the watcher or the switch is
\* about to take it is automatic, or was begun after the flag was read.
Flagged ==
    /\ manager.auto => manager.general = 0 \/ Automatically
    /\ \A c \in {"watcher", "switch"} : stop[c].pc = "take" =>
          manager.general = 0 \/ Automatically \/ manager.general > stop[c].saw
    /\ \A c \in {"watcher", "switch"} : stop[c].pc = "take" => stop[c].saw \in 0..made

LEMMA CleanedManagerIs ==
    ASSUME RecorderTypes
    PROVE  /\ Recorder!Cleaned(manager) \in [general : Recordings \cup {0}, auto : BOOLEAN, gameId : GameIds]
           /\ Recorder!Cleaned(manager).general \in {0, manager.general}
           /\ Recorder!Cleaned(manager).auto = manager.auto
           /\ Recorder!Cleaned(manager).gameId = manager.gameId
PROOF
  BY DEF RecorderTypes, Recorder!Cleaned, Recorder!Nil, GameIds

LEMMA RecorderInit == Recorder!Init => RecorderInv
PROOF
<1> SUFFICES ASSUME Recorder!Init
             PROVE  RecorderInv
  OBVIOUS
<1> USE SessionsAreCounted
<1> USE DEF Recorder!Init, Recorder!Nil, Recorder!NoStop, Recorder!Sessions, Recorder!Stoppers
<1>1. RecorderTypes
  BY DEF RecorderTypes, GameIds, Recordings, StopThreads
<1>2. RecorderFlags
  BY DEF RecorderFlags
<1>3. ~Automatically /\ manager.general = 0
  BY DEF Automatically, Recorder!Automatic
<1>4. Known
  BY <1>3 DEF Known, StopThreads
<1>5. Off
  BY <1>3 DEF Off
<1> QED
  BY <1>1, <1>2, <1>4, <1>5 DEF RecorderInv

LEMMA RecorderFlagsStay ==
    ASSUME RecorderFlags,
           enabled' \in {enabled, TRUE, FALSE}, toggling' \in {toggling, TRUE, FALSE},
           switched' \in {switched, TRUE, FALSE}, clash' = clash \/ clash' = (clash \/ Recorder!Overlapping)
              \/ \E p \in BOOLEAN : clash' = (clash \/ (p /\ Recorder!Overlapping))
    PROVE  RecorderFlags' /\ (~clash' => ~clash)
PROOF
<1>1. enabled' \in BOOLEAN /\ toggling' \in BOOLEAN /\ switched' \in BOOLEAN
  BY Zenon DEF RecorderFlags
<1>2. clash' \in BOOLEAN /\ (~clash' => ~clash)
  BY Zenon DEF RecorderFlags
<1> QED
  BY <1>1, <1>2, Zenon DEF RecorderFlags

\* What is held stays or is gone, the flags stay, and who may come to take it.
LEMMA ManagerKept ==
    ASSUME Known, ~clash' => ~clash, ofGame' = ofGame,
           manager'.general \in {0, manager.general}, manager'.auto = manager.auto,
           manager'.gameId = manager.gameId,
           \A c \in StopThreads : stop'[c].pc \in {"stopping", "clear"} =>
                stop[c].pc \in {"stopping", "clear"} \/ manager'.general = 0,
           \A c \in {"watcher", "switch"} : stop'[c].pc = "take" => stop[c].pc = "take" \/ manager.auto
    PROVE  Known' /\ (Automatically' => Automatically)
PROOF
<1>1. Automatically' => Automatically /\ manager'.general = manager.general
  BY DEF Automatically, Recorder!Automatic, Recorder!Nil
<1>2. Automatically => Automatically' \/ manager'.general = 0
  BY DEF Automatically, Recorder!Automatic, Recorder!Nil
<1> SUFFICES ASSUME ~clash'
             PROVE  Known'
  BY <1>1 DEF Known
<1>3. ~clash
  OBVIOUS
<1> QED
  BY <1>1, <1>2, <1>3 DEF Known

\* A stop that begins has taken nothing and read nothing.
LEMMA StopBegins ==
    ASSUME RecorderTypes, NEW c \in StopThreads, NEW pc \in {"automatic?", "take"},
           stop' = [stop EXCEPT ![c] = [pc |-> pc, took |-> 0, saw |-> 0]]
    PROVE  stop' \in [StopThreads -> [pc : {"idle", "automatic?", "take", "stopping", "clear"},
                                      took : Recordings \cup {0}, saw : 0..MaxSessions]]
PROOF
<1>1. 0 \in 0..MaxSessions
  BY SessionsAreCounted
<1>2. [pc |-> pc, took |-> 0, saw |-> 0] \in [pc : {"idle", "automatic?", "take", "stopping", "clear"},
                                              took : Recordings \cup {0}, saw : 0..MaxSessions]
  BY <1>1
<1> QED
  BY <1>2 DEF RecorderTypes

\* A start keeps what is held, or begins a recording under its flags.
LEMMA Starts ==
    ASSUME RecorderInv, NEW g \in GameIds, UNCHANGED stop,
           Recorder!Start(g) \/ Recorder!StartFails \/ Recorder!StartedUnheld(g)
    PROVE  /\ made' \in 0..MaxSessions /\ ofGame' \in [Recordings -> GameIds] /\ alive' \subseteq Recordings
           /\ manager' \in [general : Recordings \cup {0}, auto : BOOLEAN, gameId : GameIds]
           /\ manager'.general <= made'
           /\ clash' = clash \/ clash' = (clash \/ Recorder!Overlapping)
           /\ Known' /\ (Automatically' => Automatically \/ g # 0)
PROOF
<1> USE SessionsAreCounted
<1>1. RecorderTypes /\ RecorderFlags /\ Known
  BY DEF RecorderInv
<1>2. CASE manager' = Recorder!Cleaned(manager) /\ UNCHANGED <<made, ofGame, alive, clash>>
  <2>1. Known' /\ (Automatically' => Automatically)
    BY <1>1, <1>2, CleanedManagerIs, ManagerKept
  <2> QED
    BY <1>1, <1>2, <2>1, CleanedManagerIs DEF RecorderTypes
<1>3. CASE Recorder!Begin(g)
  <2>1. /\ made < MaxSessions /\ made' = made + 1
        /\ ofGame' = [ofGame EXCEPT ![made + 1] = g] /\ alive' = alive \cup {made + 1}
        /\ manager' = [general |-> made + 1, auto |-> g # 0, gameId |-> g]
        /\ clash' = (clash \/ Recorder!Overlapping)
    BY <1>3 DEF Recorder!Begin, Recorder!Begun, Recorder!Nil
  <2>2. made + 1 \in Recordings
    BY <1>1, <2>1 DEF RecorderTypes, Recordings
  <2>3. ofGame' \in [Recordings -> GameIds] /\ ofGame'[made + 1] = g
    BY <1>1, <2>1, <2>2 DEF RecorderTypes
  <2>4. /\ manager'.general = made + 1 /\ manager'.gameId = g /\ (manager'.auto <=> g # 0)
        /\ manager' \in [general : Recordings \cup {0}, auto : BOOLEAN, gameId : GameIds]
    BY <2>1, <2>2
  <2>5. Automatically' <=> g # 0
    BY <2>2, <2>3, <2>4 DEF Automatically, Recorder!Automatic, Recorder!Nil, Recordings
  <2>6. ~clash' => ~Recorder!Overlapping
    BY <2>1, Zenon
  <2>7. ~Recorder!Overlapping => \A c \in StopThreads : stop'[c].pc \notin {"take", "stopping", "clear"}
    BY DEF Recorder!Overlapping, Recorder!Stoppers, StopThreads
  <2>8. Known'
    BY <2>3, <2>4, <2>5, <2>6, <2>7 DEF Known, StopThreads
  <2> QED
    BY <1>1, <2>1, <2>2, <2>3, <2>4, <2>5, <2>8 DEF RecorderTypes
<1>4. CASE Recorder!StartedUnheld(g)
  <2>1. /\ made < MaxSessions /\ made' = made + 1 /\ clash' = clash
        /\ ofGame' = [ofGame EXCEPT ![made + 1] = g] /\ alive' = alive \cup {made + 1}
        /\ manager' = Recorder!Cleaned(manager) /\ manager'.general = 0
    BY <1>4 DEF Recorder!StartedUnheld, Recorder!Nil
  <2>2. made + 1 \in Recordings /\ made' \in 0..MaxSessions /\ 0 <= made'
    BY <1>1, <2>1 DEF RecorderTypes, Recordings
  <2>3. ofGame' \in [Recordings -> GameIds] /\ alive' \subseteq Recordings
    BY <1>1, <2>1, <2>2 DEF RecorderTypes
  <2>4. manager' \in [general : Recordings \cup {0}, auto : BOOLEAN, gameId : GameIds]
    BY <1>1, <2>1, CleanedManagerIs
  <2>5. ~Automatically'
    BY <2>1 DEF Automatically, Recorder!Automatic, Recorder!Nil
  <2>6. Known'
    BY <2>1, <2>5 DEF Known
  <2> QED
    BY <2>1, <2>2, <2>3, <2>4, <2>5, <2>6
<1> QED
  BY <1>2, <1>3, <1>4 DEF Recorder!Start, Recorder!StartFails

\* The game, a capture that ends by itself, the user's buttons.
LEMMA UserStep ==
    ASSUME RecorderInv,
           \/ \E g \in Games \cup {0} : Recorder!GameChanges(g)
           \/ \E s \in Recorder!Sessions : Recorder!CaptureEnds(s)
           \/ \E c \in Clicks : Recorder!ClickStart(c) \/ Recorder!ClickStop(c)
    PROVE  RecorderInv'
PROOF
<1> USE SessionsAreCounted
<1>1. RecorderTypes /\ RecorderFlags /\ Known /\ Off
  BY DEF RecorderInv
<1>2. CASE (\E g \in Games \cup {0} : Recorder!GameChanges(g)) \/ \E s \in Recorder!Sessions : Recorder!CaptureEnds(s)
  <2>1. /\ UNCHANGED <<enabled, made, ofGame, manager, stop, watcher, toggling, switched, clash>>
        /\ game' \in GameIds \cup {game} /\ alive' \subseteq alive
    BY <1>2 DEF Recorder!GameChanges, Recorder!CaptureEnds, GameIds
  <2>2. RecorderTypes' /\ Known' /\ Off'
    BY <1>1, <2>1 DEF RecorderTypes, Known, Off, Automatically, Recorder!Automatic
  <2>3. RecorderFlags'
    BY <1>1, <2>1, RecorderFlagsStay
  <2> QED
    BY <2>2, <2>3 DEF RecorderInv
<1>3. ASSUME NEW c \in Clicks, Recorder!ClickStart(c)
      PROVE  RecorderInv'
  <2>1. /\ Recorder!Start(0) \/ Recorder!StartFails \/ Recorder!StartedUnheld(0)
        /\ UNCHANGED <<game, enabled, stop, watcher, toggling, switched>>
    BY <1>3 DEF Recorder!ClickStart, Recorder!Nil
  <2>2. 0 \in GameIds
    BY DEF GameIds
  <2>3. /\ made' \in 0..MaxSessions /\ ofGame' \in [Recordings -> GameIds] /\ alive' \subseteq Recordings
        /\ manager' \in [general : Recordings \cup {0}, auto : BOOLEAN, gameId : GameIds]
        /\ manager'.general <= made'
        /\ clash' = clash \/ clash' = (clash \/ Recorder!Overlapping)
        /\ Known' /\ (Automatically' => Automatically)
    BY <2>1, <2>2, Starts
  <2>4. RecorderFlags' /\ (~clash' => ~clash)
    BY <1>1, <2>1, <2>3, RecorderFlagsStay
  <2>5. RecorderTypes'
    BY <1>1, <2>1, <2>3 DEF RecorderTypes
  <2>6. Off'
    BY <1>1, <2>1, <2>3, <2>4 DEF Off
  <2> QED
    BY <2>3, <2>4, <2>5, <2>6 DEF RecorderInv
<1>4. ASSUME NEW c \in Clicks, Recorder!ClickStop(c)
      PROVE  RecorderInv'
  <2>1. /\ stop' = [stop EXCEPT ![c] = [pc |-> "take", took |-> 0, saw |-> 0]]
        /\ clash' = (clash \/ ("take" = "take" /\ Recorder!Overlapping))
        /\ UNCHANGED <<game, enabled, made, ofGame, alive, manager, watcher, toggling, switched>>
    BY <1>4 DEF Recorder!ClickStop, Recorder!Stopping, Recorder!Nil
  <2>2. RecorderFlags' /\ (~clash' => ~clash)
    BY <1>1, <2>1, RecorderFlagsStay
  <2>3. RecorderTypes'
    BY <1>1, <2>1 DEF RecorderTypes, StopThreads
  <2>4. c # "watcher" /\ c # "switch" /\ stop'["watcher"] = stop["watcher"] /\ stop'["switch"] = stop["switch"]
    BY <1>1, <2>1, ClicksAreUsers DEF RecorderTypes, StopThreads
  <2>5. \A d \in StopThreads : stop'[d].pc \in {"stopping", "clear"} => stop[d].pc \in {"stopping", "clear"}
    BY <1>1, <2>1 DEF RecorderTypes
  <2>6. Known' /\ (Automatically' => Automatically)
    BY <1>1, <2>1, <2>2, <2>4, <2>5, ManagerKept
  <2>7. Off'
    BY <1>1, <2>1, <2>2, <2>4, <2>6 DEF Off
  <2> QED
    BY <2>2, <2>3, <2>6, <2>7 DEF RecorderInv
<1> QED
  BY <1>2, <1>3, <1>4

\* The steps of a stop, whoever makes it.
LEMMA StopStep ==
    ASSUME RecorderInv, NEW c \in StopThreads, Recorder!StopStep(c)
    PROVE  RecorderInv'
PROOF
<1> USE SessionsAreCounted
<1>1. RecorderTypes /\ RecorderFlags /\ Known /\ Off
  BY DEF RecorderInv
<1>2. CASE Recorder!WhetherAutomatic(c)
  <2>1. /\ stop[c].pc = "automatic?"
        /\ IF manager.auto THEN stop' = [stop EXCEPT ![c] = [pc |-> "take", took |-> 0, saw |-> made]]
                           ELSE stop' = [stop EXCEPT ![c] = [pc |-> "idle", took |-> 0, saw |-> 0]]
        /\ clash' = (clash \/ (stop'[c].pc = "take" /\ Recorder!Overlapping))
        /\ UNCHANGED <<game, enabled, made, ofGame, alive, manager, watcher, toggling, switched>>
    BY <1>2 DEF Recorder!WhetherAutomatic, Recorder!NoStop, Recorder!Nil
  <2>2. RecorderFlags' /\ (~clash' => ~clash)
    <3>1. (stop'[c].pc = "take") \in BOOLEAN
      OBVIOUS
    <3>2. \E p \in BOOLEAN : clash' = (clash \/ (p /\ Recorder!Overlapping))
      BY <2>1, <3>1
    <3> QED
      BY <1>1, <2>1, <3>2, RecorderFlagsStay
  <2>3. RecorderTypes'
    BY <1>1, <2>1 DEF RecorderTypes
  <2>4. /\ \A d \in StopThreads \ {c} : stop'[d] = stop[d]
        /\ stop'[c].pc = IF manager.auto THEN "take" ELSE "idle"
    BY <1>1, <2>1 DEF RecorderTypes
  <2>5. Known' /\ (Automatically' => Automatically)
    <3>1. \A d \in StopThreads : stop'[d].pc \in {"stopping", "clear"} => stop[d].pc \in {"stopping", "clear"}
      BY <2>4
    <3>2. \A d \in {"watcher", "switch"} : stop'[d].pc = "take" => stop[d].pc = "take" \/ manager.auto
      BY <2>4 DEF StopThreads
    <3> QED
      BY <1>1, <2>1, <2>2, <3>1, <3>2, ManagerKept
  <2>6. "switch" \in StopThreads
    BY DEF StopThreads
  <2>7. Off'
    <3>1. switched' => ~enabled' /\ watcher'.pc # "locked"
      BY <1>1, <2>1 DEF Off
    <3>2. toggling' => watcher'.pc # "locked"
      BY <1>1, <2>1 DEF Off
    <3>3. ASSUME switched', ~clash', ~toggling' \/ stop'["switch"].pc \in {"idle", "stopping", "clear"}, Automatically'
          PROVE  FALSE
      <4>1. switched /\ ~clash /\ Automatically
        BY <2>1, <2>2, <2>5, <3>3
      <4>2. manager.auto
        BY <1>1, <4>1 DEF Known
      <4>3. ~toggling \/ stop["switch"].pc \in {"idle", "stopping", "clear"}
        BY <2>1, <2>4, <2>6, <3>3, <4>2
      <4> QED
        BY <1>1, <4>1, <4>3 DEF Off
    <3> QED
      BY <3>1, <3>2, <3>3 DEF Off
  <2> QED
    BY <2>2, <2>3, <2>5, <2>7 DEF RecorderInv
<1>3. CASE Recorder!Take(c)
  <2>1. /\ stop[c].pc = "take"
        /\ stop' = [stop EXCEPT ![c] =
                       [pc |-> "stopping", took |-> Recorder!Cleaned(manager).general, saw |-> 0]]
        /\ manager' = [manager EXCEPT !.general = 0]
        /\ UNCHANGED <<game, enabled, made, ofGame, alive, watcher, toggling, switched, clash>>
    BY <1>3 DEF Recorder!Take, Recorder!Nil
  <2>2. RecorderFlags' /\ (~clash' => ~clash)
    BY <1>1, <2>1, RecorderFlagsStay
  <2>3. Recorder!Cleaned(manager).general \in Recordings \cup {0}
    BY <1>1, CleanedManagerIs
  <2>4. RecorderTypes'
    BY <1>1, <2>1, <2>3 DEF RecorderTypes
  <2>5. manager'.general = 0 /\ manager'.auto = manager.auto /\ manager'.gameId = manager.gameId
    BY <1>1, <2>1 DEF RecorderTypes
  <2>6. \A d \in StopThreads : stop'[d].pc = "take" => stop[d].pc = "take"
    BY <1>1, <2>1 DEF RecorderTypes
  <2>7. ~Automatically'
    BY <2>5 DEF Automatically, Recorder!Automatic, Recorder!Nil
  <2>8. Known'
    BY <2>5, <2>7 DEF Known
  <2>9. Off'
    BY <1>1, <2>1, <2>7 DEF Off
  <2> QED
    BY <2>2, <2>4, <2>8, <2>9 DEF RecorderInv
<1>4. CASE Recorder!Stopped(c) \/ Recorder!StopFails(c)
  <2>1. /\ stop[c].pc = "stopping" /\ alive' \subseteq alive
        /\ \/ stop' = [stop EXCEPT ![c].pc = "clear"]
           \/ stop' = [stop EXCEPT ![c] = [pc |-> "idle", took |-> 0, saw |-> 0]]
        /\ UNCHANGED <<game, enabled, made, ofGame, manager, watcher, toggling, switched, clash>>
    BY <1>4 DEF Recorder!Stopped, Recorder!StopFails, Recorder!NoStop, Recorder!Nil
  <2>2. RecorderFlags' /\ (~clash' => ~clash)
    BY <1>1, <2>1, RecorderFlagsStay
  <2>3. RecorderTypes'
    BY <1>1, <2>1 DEF RecorderTypes
  <2>4. (\A d \in StopThreads \ {c} : stop'[d] = stop[d]) /\ stop'[c].pc \in {"clear", "idle"}
    BY <1>1, <2>1 DEF RecorderTypes
  <2>5. Known' /\ (Automatically' => Automatically)
    <3>1. \A d \in StopThreads : stop'[d].pc \in {"stopping", "clear"} => stop[d].pc \in {"stopping", "clear"}
      BY <2>1, <2>4
    <3>2. \A d \in {"watcher", "switch"} : stop'[d].pc = "take" => stop[d].pc = "take"
      BY <2>4 DEF StopThreads
    <3> QED
      BY <1>1, <2>1, <2>2, <3>1, <3>2, ManagerKept
  <2>6. Off'
    BY <1>1, <2>1, <2>2, <2>4, <2>5 DEF Off, StopThreads
  <2> QED
    BY <2>2, <2>3, <2>5, <2>6 DEF RecorderInv
<1>5. CASE Recorder!Clear(c)
  <2>1. /\ stop[c].pc = "clear"
        /\ manager' = [Recorder!Cleaned(manager) EXCEPT !.auto = FALSE, !.gameId = 0]
        /\ stop' = [stop EXCEPT ![c] = [pc |-> "idle", took |-> 0, saw |-> 0]]
        /\ UNCHANGED <<game, enabled, made, ofGame, alive, watcher, toggling, switched, clash>>
    BY <1>5 DEF Recorder!Clear, Recorder!NoStop, Recorder!Nil
  <2>2. RecorderFlags' /\ (~clash' => ~clash)
    BY <1>1, <2>1, RecorderFlagsStay
  <2>3. /\ manager' \in [general : Recordings \cup {0}, auto : BOOLEAN, gameId : GameIds]
        /\ manager'.general \in {0, manager.general} /\ ~manager'.auto
    BY <1>1, <2>1, CleanedManagerIs DEF GameIds
  <2>4. RecorderTypes'
    BY <1>1, <2>1, <2>3 DEF RecorderTypes
  <2>5. (\A d \in StopThreads \ {c} : stop'[d] = stop[d]) /\ stop'[c].pc = "idle"
    BY <1>1, <2>1 DEF RecorderTypes
  <2>6. ~clash' => manager'.general = 0 /\ ~Automatically'
    BY <1>1, <2>1, <2>2, <2>3 DEF Known, Automatically, Recorder!Automatic, Recorder!Nil
  <2>7. Known'
    BY <2>3, <2>6 DEF Known
  <2>8. Off'
    BY <1>1, <2>1, <2>6 DEF Off
  <2> QED
    BY <2>2, <2>4, <2>7, <2>8 DEF RecorderInv
<1> QED
  BY <1>2, <1>3, <1>4, <1>5 DEF Recorder!StopStep

\* The switch.
LEMMA SwitchStep ==
    ASSUME RecorderInv,
           (\E on \in BOOLEAN : Recorder!Toggle(on) \/ Recorder!SaveConfig(on)) \/ Recorder!ToggleReturns
    PROVE  RecorderInv'
PROOF
<1> USE SessionsAreCounted
<1>1. RecorderTypes /\ RecorderFlags /\ Known /\ Off
  BY DEF RecorderInv
<1>2. ASSUME NEW on \in BOOLEAN, Recorder!Toggle(on)
      PROVE  RecorderInv'
  <2>1. /\ ~toggling /\ watcher.pc # "locked" /\ enabled' = on /\ switched' = ~on
        /\ UNCHANGED <<game, made, ofGame, alive, manager, watcher>>
    BY <1>2 DEF Recorder!Toggle
  <2>2. CASE ~on /\ manager.gameId # 0
    <3>1. /\ toggling' = TRUE /\ stop["switch"].pc = "idle"
          /\ stop' = [stop EXCEPT !["switch"] = [pc |-> "automatic?", took |-> 0, saw |-> 0]]
          /\ clash' = (clash \/ ("automatic?" = "take" /\ Recorder!Overlapping))
      BY <1>2, <2>2 DEF Recorder!Toggle, Recorder!Stopping, Recorder!Nil
    <3>2. RecorderFlags' /\ (~clash' => ~clash)
      BY <1>1, <2>1, <3>1, RecorderFlagsStay
    <3>3. RecorderTypes'
      BY <1>1, <2>1, <3>1, StopBegins DEF RecorderTypes, StopThreads
    <3>4. /\ \A d \in StopThreads \ {"switch"} : stop'[d] = stop[d]
          /\ stop'["switch"].pc = "automatic?"
      BY <1>1, <3>1 DEF RecorderTypes, StopThreads
    <3>5. Known' /\ (Automatically' => Automatically)
      <4>1. \A d \in StopThreads : stop'[d].pc \in {"stopping", "clear"} => stop[d].pc \in {"stopping", "clear"}
        BY <3>4
      <4>2. \A d \in {"watcher", "switch"} : stop'[d].pc = "take" => stop[d].pc = "take"
        BY <3>4 DEF StopThreads
      <4> QED
        BY <1>1, <2>1, <3>2, <4>1, <4>2, ManagerKept
    <3>6. Off'
      BY <2>1, <2>2, <3>1, <3>4 DEF Off
    <3> QED
      BY <3>2, <3>3, <3>5, <3>6 DEF RecorderInv
  <2>3. CASE on \/ manager.gameId = 0
    <3>1. UNCHANGED <<toggling, stop, clash>>
      BY <1>2, <2>3 DEF Recorder!Toggle, Recorder!Nil
    <3>2. RecorderFlags' /\ (~clash' => ~clash)
      BY <1>1, <2>1, <3>1, RecorderFlagsStay
    <3>3. RecorderTypes'
      BY <1>1, <2>1, <3>1 DEF RecorderTypes
    <3>4. Known' /\ (Automatically' => Automatically)
      BY <1>1, <2>1, <3>1, ManagerKept
    <3>5. switched' /\ ~clash' => ~Automatically'
      <4>1. switched' => manager.gameId = 0
        BY <2>1, <2>3
      <4>2. ~clash /\ manager.gameId = 0 => ~Automatically
        BY <1>1 DEF Known, Automatically, Recorder!Automatic, Recorder!Nil
      <4> QED
        BY <3>2, <3>4, <4>1, <4>2
    <3>6. Off'
      BY <2>1, <3>1, <3>5 DEF Off
    <3> QED
      BY <3>2, <3>3, <3>4, <3>6 DEF RecorderInv
  <2> QED
    BY <2>2, <2>3
<1>3. ASSUME NEW on \in BOOLEAN, Recorder!SaveConfig(on)
      PROVE  RecorderInv'
  <2>1. /\ enabled' = on /\ switched' = FALSE
        /\ UNCHANGED <<game, made, ofGame, alive, manager, stop, watcher, toggling, clash>>
    BY <1>3 DEF Recorder!SaveConfig
  <2>2. RecorderFlags' /\ (~clash' => ~clash)
    BY <1>1, <2>1, RecorderFlagsStay
  <2>3. RecorderTypes' /\ Off'
    BY <1>1, <2>1 DEF RecorderTypes, Off
  <2>4. Known'
    BY <1>1, <2>1, ManagerKept
  <2> QED
    BY <2>2, <2>3, <2>4 DEF RecorderInv
<1>4. CASE Recorder!ToggleReturns
  <2>1. /\ toggling /\ stop["switch"].pc = "idle" /\ toggling' = FALSE
        /\ UNCHANGED <<game, enabled, made, ofGame, alive, manager, stop, watcher, switched, clash>>
    BY <1>4 DEF Recorder!ToggleReturns
  <2>2. RecorderFlags' /\ (~clash' => ~clash)
    BY <1>1, <2>1, RecorderFlagsStay
  <2>3. RecorderTypes'
    BY <1>1, <2>1 DEF RecorderTypes
  <2>4. Known' /\ (Automatically' => Automatically)
    BY <1>1, <2>1, ManagerKept
  <2>5. Off'
    BY <1>1, <2>1, <2>4 DEF Off
  <2> QED
    BY <2>2, <2>3, <2>4, <2>5 DEF RecorderInv
<1> QED
  BY <1>2, <1>3, <1>4

\* The watcher.
LEMMA WatcherStep ==
    ASSUME RecorderInv, Recorder!WatcherStep
    PROVE  RecorderInv'
PROOF
<1> USE SessionsAreCounted
<1>1. RecorderTypes /\ RecorderFlags /\ Known /\ Off
  BY DEF RecorderInv
<1>2. CASE Recorder!Poll \/ Recorder!NoSwitch \/ Recorder!NoStart \/ Recorder!WatcherLocks \/ Recorder!WatcherStopped
             \/ (Recorder!Inactive /\ UNCHANGED <<stop, clash>>)
  <2>1. /\ UNCHANGED <<game, enabled, made, ofGame, alive, manager, stop, toggling, switched, clash>>
        /\ watcher'.pc = "locked" => enabled /\ ~toggling
    BY <1>1, <1>2 DEF Recorder!Poll, Recorder!NoSwitch, Recorder!NoStart, Recorder!WatcherLocks, Recorder!WatcherStopped,
                Recorder!Inactive, Recorder!Watch, Recorder!MayStart, RecorderTypes
  <2>2. watcher' \in [pc : {"poll", "decide", "start", "locked", "stopped"}, seen : GameIds, ticks : 0..2]
    <3>1. CASE Recorder!Poll
      <4>1. PICK g \in GameIds : watcher' = [watcher EXCEPT !.pc = "decide", !.seen = g]
        BY <1>1, <3>1 DEF Recorder!Poll, Recorder!Nil, RecorderTypes, GameIds
      <4>2. watcher \in [pc : {"poll", "decide", "start", "locked", "stopped"}, seen : GameIds, ticks : 0..2]
        BY <1>1 DEF RecorderTypes
      <4>3. watcher' = [pc |-> "decide", seen |-> g, ticks |-> watcher.ticks]
        BY <4>1, <4>2
      <4>4. g \in GameIds /\ watcher.ticks \in 0..2
        BY <4>1, <4>2
      <4> QED
        BY <4>3, <4>4
    <3>2. CASE Recorder!NoSwitch
      <4>1. watcher' = [pc |-> "start", seen |-> watcher.seen, ticks |-> 0] /\ watcher.seen \in GameIds
        BY <1>1, <3>2 DEF Recorder!NoSwitch, RecorderTypes
      <4> QED
        BY <4>1
    <3>4. CASE Recorder!NoStart \/ Recorder!WatcherLocks \/ Recorder!WatcherStopped
      BY <1>1, <3>4 DEF Recorder!NoStart, Recorder!WatcherLocks, Recorder!WatcherStopped,
                        Recorder!Watch, RecorderTypes
    <3>3. CASE Recorder!Inactive
      <4>1. Recorder!Due => watcher' = [watcher EXCEPT !.pc = "stopped", !.ticks = 0]
        BY <3>3 DEF Recorder!Inactive
      <4>2. ~Recorder!Due => watcher' = [watcher EXCEPT !.pc = "poll",
                  !.ticks = IF manager.gameId # 0 THEN watcher.ticks + 1 ELSE 0]
        BY <3>3 DEF Recorder!Inactive, Recorder!Nil
      <4>3. watcher \in [pc : {"poll", "decide", "start", "locked", "stopped"}, seen : GameIds, ticks : 0..2]
        BY <1>1 DEF RecorderTypes
      <4>4. ~Recorder!Due => manager.gameId = 0 \/ watcher.ticks + 1 \in 0..2
        BY <4>3 DEF Recorder!Due, Recorder!Nil
      <4>5. Recorder!Due => watcher' = [pc |-> "stopped", seen |-> watcher.seen, ticks |-> 0]
        BY <4>1, <4>3
      <4>6. ~Recorder!Due => watcher' = [pc |-> "poll", seen |-> watcher.seen,
                  ticks |-> IF manager.gameId # 0 THEN watcher.ticks + 1 ELSE 0]
        BY <4>2, <4>3
      <4>7. CASE Recorder!Due
        BY <4>3, <4>5, <4>7
      <4>8. CASE ~Recorder!Due
        <5>1. (IF manager.gameId # 0 THEN watcher.ticks + 1 ELSE 0) \in 0..2
          BY <4>4, <4>8
        <5> QED
          BY <4>3, <4>6, <4>8, <5>1
      <4> QED
        BY <4>7, <4>8
    <3> QED
      BY <1>2, <3>1, <3>2, <3>3, <3>4
  <2>3. RecorderFlags' /\ (~clash' => ~clash)
    BY <1>1, <2>1, RecorderFlagsStay
  <2>4. RecorderTypes'
    BY <1>1, <2>1, <2>2 DEF RecorderTypes
  <2>5. Known' /\ (Automatically' => Automatically)
    BY <1>1, <2>1, ManagerKept
  <2>6. Off'
    BY <1>1, <2>1, <2>5 DEF Off
  <2> QED
    BY <2>3, <2>4, <2>5, <2>6 DEF RecorderInv
<1>3. CASE Recorder!Switch \/ (Recorder!Inactive /\ Recorder!Due)
  <2>1. /\ stop["watcher"].pc = "idle"
        /\ stop' = [stop EXCEPT !["watcher"] = [pc |-> "automatic?", took |-> 0, saw |-> 0]]
        /\ clash' = (clash \/ ("automatic?" = "take" /\ Recorder!Overlapping))
        /\ watcher' = [watcher EXCEPT !.pc = "start", !.ticks = 0] \/ watcher' = [watcher EXCEPT !.pc = "stopped", !.ticks = 0]
        /\ UNCHANGED <<game, enabled, made, ofGame, alive, manager, toggling, switched>>
    BY <1>3 DEF Recorder!Switch, Recorder!Inactive, Recorder!Stopping, Recorder!Nil
  <2>2. RecorderFlags' /\ (~clash' => ~clash)
    BY <1>1, <2>1, RecorderFlagsStay
  <2>3. RecorderTypes' /\ watcher'.pc # "locked"
    <3>1. watcher \in [pc : {"poll", "decide", "start", "locked", "stopped"}, seen : GameIds, ticks : 0..2]
      BY <1>1 DEF RecorderTypes
    <3>2. \E k \in {"start", "stopped"} : watcher' = [pc |-> k, seen |-> watcher.seen, ticks |-> 0]
      BY <2>1, <3>1
    <3>3. /\ watcher' \in [pc : {"poll", "decide", "start", "locked", "stopped"}, seen : GameIds, ticks : 0..2]
          /\ watcher'.pc # "locked"
      BY <3>1, <3>2
    <3> QED
      BY <1>1, <2>1, <3>3, StopBegins DEF RecorderTypes, StopThreads
  <2>4. /\ \A d \in StopThreads \ {"watcher"} : stop'[d] = stop[d]
        /\ stop'["watcher"].pc = "automatic?"
    BY <1>1, <2>1 DEF RecorderTypes, StopThreads
  <2>5. Known' /\ (Automatically' => Automatically)
    <3>1. \A d \in StopThreads : stop'[d].pc \in {"stopping", "clear"} => stop[d].pc \in {"stopping", "clear"}
      BY <2>4
    <3>2. \A d \in {"watcher", "switch"} : stop'[d].pc = "take" => stop[d].pc = "take"
      BY <2>4 DEF StopThreads
    <3> QED
      BY <1>1, <2>1, <2>2, <3>1, <3>2, ManagerKept
  <2>6. Off'
    BY <1>1, <2>1, <2>2, <2>3, <2>4, <2>5 DEF Off, StopThreads
  <2> QED
    BY <2>2, <2>3, <2>5, <2>6 DEF RecorderInv
<1>4. CASE Recorder!WatcherStarts
  <2>1. /\ watcher.pc = "locked" /\ watcher' = [watcher EXCEPT !.pc = "poll"]
        /\ Recorder!Start(watcher.seen) \/ Recorder!StartFails \/ Recorder!StartedUnheld(watcher.seen)
        /\ UNCHANGED <<game, enabled, stop, toggling, switched>>
    BY <1>4 DEF Recorder!WatcherStarts, Recorder!Watch
  <2>2. watcher.seen \in GameIds
    BY <1>1 DEF RecorderTypes
  <2>3. /\ made' \in 0..MaxSessions /\ ofGame' \in [Recordings -> GameIds] /\ alive' \subseteq Recordings
        /\ manager' \in [general : Recordings \cup {0}, auto : BOOLEAN, gameId : GameIds]
        /\ manager'.general <= made'
        /\ clash' = clash \/ clash' = (clash \/ Recorder!Overlapping)
        /\ Known'
    BY <2>1, <2>2, Starts
  <2>4. RecorderFlags' /\ (~clash' => ~clash)
    BY <1>1, <2>1, <2>3, RecorderFlagsStay
  <2>5. RecorderTypes' /\ watcher'.pc # "locked"
    BY <1>1, <2>1, <2>3 DEF RecorderTypes
  <2>6. ~switched
    BY <1>1, <2>1 DEF Off
  <2>7. Off'
    BY <1>1, <2>1, <2>5, <2>6 DEF Off
  <2> QED
    BY <2>3, <2>4, <2>5, <2>7 DEF RecorderInv
<1> QED
  BY <1>2, <1>3, <1>4 DEF Recorder!WatcherStep, Recorder!Inactive

LEMMA RecorderNextStep == ASSUME RecorderInv, Recorder!Next PROVE RecorderInv'
PROOF
  BY UserStep, StopStep, SwitchStep, WatcherStep DEF Recorder!Next, Recorder!Stoppers, StopThreads, Recorder!Nil

\* What is held stays or is gone, the flag stays or is cleared, and whoever is now
\* about to take what is held has just read the flag.
LEMMA FlaggedKept ==
    ASSUME Flagged, manager'.general \in {0, manager.general}, manager'.auto => manager.auto,
           manager'.general # 0 => ofGame' = ofGame,
           made \in Nat, made' \in Nat, made <= made',
           \A c \in {"watcher", "switch"} : stop'[c].pc = "take" =>
                stop'[c] = stop[c] \/ (manager.auto /\ stop'[c].saw = made)
    PROVE  Flagged'
PROOF
<1>1. \A c \in {"watcher", "switch"} : stop'[c].pc = "take" => stop'[c].saw \in 0..made'
  BY DEF Flagged
<1>2. CASE manager'.general = 0
  BY <1>1, <1>2 DEF Flagged
<1>3. CASE manager'.general # 0
  <2>1. Automatically' <=> Automatically
    BY <1>3 DEF Automatically, Recorder!Automatic
  <2>2. \A c \in {"watcher", "switch"} : stop'[c].pc = "take" =>
           manager'.general = 0 \/ Automatically' \/ manager'.general > stop'[c].saw
    BY <1>3, <2>1 DEF Flagged
  <2>3. manager'.auto => manager'.general = 0 \/ Automatically'
    BY <1>3, <2>1 DEF Flagged
  <2> QED
    BY <1>1, <2>2, <2>3 DEF Flagged
<1> QED
  BY <1>2, <1>3

\* A start leaves what is held, or begins a recording that comes after any flag read.
LEMMA FlaggedStarts ==
    ASSUME RecorderTypes, Flagged, NEW g \in GameIds, UNCHANGED stop,
           Recorder!Start(g) \/ Recorder!StartFails \/ Recorder!StartedUnheld(g)
    PROVE  Flagged'
PROOF
<1> USE SessionsAreCounted
<1>0. made \in Nat /\ (made' = made \/ made' = made + 1)
  BY DEF RecorderTypes, Recorder!Start, Recorder!StartFails, Recorder!StartedUnheld, Recorder!Begin, Recorder!Nil
<1>1. CASE manager' = Recorder!Cleaned(manager) /\ (ofGame' = ofGame \/ manager'.general = 0)
  BY <1>0, <1>1, CleanedManagerIs, FlaggedKept
<1>2. CASE Recorder!Begin(g)
  <2>1. /\ made < MaxSessions /\ ofGame' = [ofGame EXCEPT ![made + 1] = g] /\ made' = made + 1
        /\ manager' = [general |-> made + 1, auto |-> g # 0, gameId |-> g]
    BY <1>2 DEF Recorder!Begin, Recorder!Begun, Recorder!Nil
  <2>2. made + 1 \in Recordings /\ made \in Nat
    BY <2>1 DEF RecorderTypes, Recordings
  <2>3. ofGame'[made + 1] = g
    BY <2>1, <2>2 DEF RecorderTypes
  <2>4. manager'.general = made + 1 /\ (manager'.auto <=> g # 0)
    BY <2>1
  <2>5. manager'.auto => Automatically'
    BY <2>2, <2>3, <2>4 DEF Automatically, Recorder!Automatic, Recorder!Nil
  <2>6. \A c \in {"watcher", "switch"} : stop'[c].pc = "take" => stop'[c].saw \in 0..made
    BY DEF Flagged
  <2>7. \A c \in {"watcher", "switch"} : stop'[c].pc = "take" =>
           stop'[c].saw \in 0..made' /\ manager'.general > stop'[c].saw
    BY <2>1, <2>2, <2>4, <2>6
  <2> QED
    BY <2>5, <2>7 DEF Flagged
<1> QED
  BY <1>1, <1>2 DEF Recorder!Start, Recorder!StartFails, Recorder!StartedUnheld, Recorder!Nil

LEMMA FlaggedStep ==
    ASSUME RecorderInv, Flagged, Recorder!Next
    PROVE  Flagged'
PROOF
<1> USE SessionsAreCounted
<1>1. RecorderTypes /\ made \in Nat
  BY DEF RecorderInv, RecorderTypes
<1>2. ASSUME UNCHANGED <<made, ofGame, manager, stop>>
      PROVE  Flagged'
  BY <1>1, <1>2, FlaggedKept
<1>3. ASSUME NEW d \in StopThreads, UNCHANGED <<made, ofGame, manager>>,
             stop' = [stop EXCEPT ![d] = stop'[d]], stop'[d].pc # "take" \/ d \in Clicks
      PROVE  Flagged'
  <2>1. \A c \in {"watcher", "switch"} : stop'[c].pc = "take" => stop'[c] = stop[c]
    BY <1>1, <1>3, ClicksAreUsers DEF RecorderTypes, StopThreads
  <2> QED
    BY <1>1, <1>3, <2>1, FlaggedKept
<1>4. CASE \E c \in Clicks : Recorder!ClickStart(c)
  <2>1. 0 \in GameIds
    BY DEF GameIds
  <2> QED
    BY <1>1, <1>4, <2>1, FlaggedStarts DEF Recorder!ClickStart, Recorder!Nil
<1>5. CASE Recorder!WatcherStarts
  <2>1. watcher.seen \in GameIds
    BY <1>1 DEF RecorderTypes
  <2> QED
    BY <1>1, <1>5, <2>1, FlaggedStarts DEF Recorder!WatcherStarts
<1>6. ASSUME NEW d \in StopThreads, NEW pc, Recorder!Stopping(d, pc), UNCHANGED <<made, ofGame, manager>>,
             pc # "take" \/ d \in Clicks
      PROVE  Flagged'
  <2>1. stop' = [stop EXCEPT ![d] = [pc |-> pc, took |-> 0, saw |-> 0]]
    BY <1>6 DEF Recorder!Stopping, Recorder!Nil
  <2>2. stop'[d].pc = pc /\ stop' = [stop EXCEPT ![d] = stop'[d]]
    BY <1>1, <2>1 DEF RecorderTypes
  <2> QED
    BY <1>3, <1>6, <2>2
<1>7. CASE \E c \in Clicks : Recorder!ClickStop(c)
  BY <1>6, <1>7 DEF Recorder!ClickStop, StopThreads
<1>8. ASSUME NEW c \in StopThreads, Recorder!StopStep(c)
      PROVE  Flagged'
  <2>1. CASE Recorder!WhetherAutomatic(c)
    <3>1. /\ UNCHANGED <<made, ofGame, manager>>
          /\ \A d \in StopThreads : stop'[d].pc = "take" => stop'[d] = stop[d] \/ (manager.auto /\ stop'[d].saw = made)
      BY <1>1, <2>1 DEF Recorder!WhetherAutomatic, Recorder!NoStop, Recorder!Nil, RecorderTypes
    <3> QED
      BY <1>1, <3>1, FlaggedKept DEF StopThreads
  <2>2. CASE Recorder!Take(c)
    <3>1. manager' = [manager EXCEPT !.general = 0]
      BY <2>2 DEF Recorder!Take, Recorder!Nil
    <3>2. /\ manager'.general = 0 /\ manager'.auto = manager.auto
      BY <1>1, <3>1 DEF RecorderTypes
    <3>3. /\ UNCHANGED <<made, ofGame>>
          /\ \A d \in StopThreads : stop'[d].pc = "take" => stop'[d] = stop[d]
      BY <1>1, <2>2 DEF Recorder!Take, Recorder!Nil, RecorderTypes
    <3> QED
      BY <1>1, <3>2, <3>3, FlaggedKept DEF StopThreads
  <2>3. CASE Recorder!Stopped(c) \/ Recorder!StopFails(c)
    <3>1. /\ UNCHANGED <<made, ofGame, manager>>
          /\ \A d \in StopThreads : stop'[d].pc = "take" => stop'[d] = stop[d]
      BY <1>1, <2>3 DEF Recorder!Stopped, Recorder!StopFails, Recorder!NoStop, Recorder!Nil, RecorderTypes
    <3> QED
      BY <1>1, <3>1, FlaggedKept DEF StopThreads
  <2>4. CASE Recorder!Clear(c)
    <3>1. /\ manager' = [Recorder!Cleaned(manager) EXCEPT !.auto = FALSE, !.gameId = 0]
          /\ UNCHANGED <<made, ofGame>>
          /\ \A d \in StopThreads : stop'[d].pc = "take" => stop'[d] = stop[d]
      BY <1>1, <2>4 DEF Recorder!Clear, Recorder!NoStop, Recorder!Nil, RecorderTypes
    <3>2. manager'.general \in {0, manager.general} /\ ~manager'.auto
      BY <1>1, <3>1, CleanedManagerIs
    <3> QED
      BY <1>1, <3>1, <3>2, FlaggedKept DEF StopThreads
  <2> QED
    BY <1>8, <2>1, <2>2, <2>3, <2>4 DEF Recorder!StopStep
<1>9. CASE \E on \in BOOLEAN : Recorder!Toggle(on)
  <2>1. "switch" \in StopThreads
    BY DEF StopThreads
  <2>2. /\ UNCHANGED <<made, ofGame, manager>>
        /\ Recorder!Stopping("switch", "automatic?") \/ UNCHANGED stop
    BY <1>9 DEF Recorder!Toggle
  <2> QED
    BY <1>2, <1>6, <2>1, <2>2
<1>10. CASE Recorder!Switch \/ Recorder!Inactive
  <2>1. "watcher" \in StopThreads
    BY DEF StopThreads
  <2>2. /\ UNCHANGED <<made, ofGame, manager>>
        /\ Recorder!Stopping("watcher", "automatic?") \/ UNCHANGED stop
    BY <1>10 DEF Recorder!Switch, Recorder!Inactive
  <2> QED
    BY <1>2, <1>6, <2>1, <2>2
<1>11. CASE \/ \E g \in Games \cup {0} : Recorder!GameChanges(g)
            \/ \E s \in Recorder!Sessions : Recorder!CaptureEnds(s)
            \/ \E on \in BOOLEAN : Recorder!SaveConfig(on)
            \/ Recorder!ToggleReturns \/ Recorder!Poll \/ Recorder!NoSwitch \/ Recorder!NoStart
            \/ Recorder!WatcherLocks \/ Recorder!WatcherStopped
  BY <1>2, <1>11 DEF Recorder!GameChanges, Recorder!CaptureEnds, Recorder!SaveConfig,
       Recorder!ToggleReturns, Recorder!Poll, Recorder!NoSwitch, Recorder!NoStart,
       Recorder!WatcherLocks, Recorder!WatcherStopped
<1> QED
  BY <1>4, <1>5, <1>7, <1>8, <1>9, <1>10, <1>11
     DEF Recorder!Next, Recorder!WatcherStep, Recorder!Stoppers, StopThreads, Recorder!Nil

LEMMA RecorderSafety == ASSUME RecorderInv PROVE RecorderSafe
PROOF
<1>1. RecorderTypes /\ RecorderFlags /\ Known /\ Off
  BY DEF RecorderInv
<1>2. Recorder!TypeOK
  <2>1. enabled \in BOOLEAN /\ toggling \in BOOLEAN /\ switched \in BOOLEAN /\ clash \in BOOLEAN
    BY <1>1, Zenon DEF RecorderFlags
  <2> QED
    BY <1>1, <2>1 DEF RecorderTypes, Recorder!TypeOK, Recordings, GameIds, StopThreads, Recorder!Nil, Recorder!Sessions,
                      Recorder!Stoppers
<1>3. Recorder!AutoKnown
  BY <1>1 DEF Recorder!AutoKnown, Known, Automatically
<1>4. Recorder!OffMeansOff
  BY <1>1 DEF Recorder!OffMeansOff, Off, Automatically
<1> QED
  BY <1>2, <1>3, <1>4 DEF RecorderSafe

LEMMA UsersRecordingSafe == ASSUME RecorderInv, Flagged PROVE Recorder!TakesAutomatic
PROOF
<1>1. RecorderTypes
  BY DEF RecorderInv
<1> SUFFICES ASSUME NEW c \in {"watcher", "switch"}, Recorder!Take(c), stop'[c].took # 0
             PROVE  Recorder!Automatic(stop'[c].took) \/ stop'[c].took > stop[c].saw
  BY DEF Recorder!TakesAutomatic, Recorder!Nil
<1>2. stop[c].pc = "take" /\ stop'[c].took = Recorder!Cleaned(manager).general
  BY <1>1 DEF Recorder!Take, RecorderTypes, StopThreads
<1>3. stop'[c].took = manager.general
  BY <1>1, <1>2, CleanedManagerIs
<1>4. manager.general # 0
  BY <1>3
<1> QED
  BY <1>2, <1>3, <1>4 DEF Flagged, Automatically

LEMMA RecorderAlways == Spec => [](part = "recorder" => RecorderInv /\ Flagged)
PROOF
<1> DEFINE Inv == part = "recorder" => RecorderInv /\ Flagged
<1>1. Init => Inv
  <2>1. Recorder!Init => Flagged
    BY DEF Recorder!Init, Recorder!Nil, Recorder!NoStop, Recorder!Stoppers, Flagged
  <2> QED
    BY <2>1, RecorderInit DEF Init
<1>2. Inv /\ [Next]_vars => Inv'
  <2> SUFFICES ASSUME Inv, [Next]_vars, part' = "recorder"
               PROVE  RecorderInv' /\ Flagged'
    OBVIOUS
  <2>1. CASE RecorderNext
    BY <2>1, RecorderNextStep, FlaggedStep DEF RecorderNext
  <2>2. CASE ClipsNext \/ BroadcastNext \/ UpdatesNext \/ WindowNext
    BY <2>2 DEF ClipsNext, BroadcastNext, UpdatesNext, WindowNext
  <2>3. CASE UNCHANGED vars
    <3>1. part = "recorder" /\ UNCHANGED recorderVars
      BY <2>3 DEF vars
    <3>2. RecorderInv /\ Flagged
      BY <3>1
    <3>5. Flagged'
      BY <3>1, <3>2, FlaggedKept, SessionsAreCounted DEF recorderVars, RecorderInv, RecorderTypes
    <3>3. RecorderTypes'
      BY <3>1, <3>2 DEF recorderVars, RecorderInv, RecorderTypes
    <3>4. RecorderFlags' /\ Known' /\ Off'
      BY <3>1, <3>2, Zenon DEF recorderVars, RecorderInv, RecorderFlags, Known, Off, Automatically, Recorder!Automatic
    <3> QED
      BY <3>3, <3>4, <3>5 DEF RecorderInv
  <2> QED
    BY <2>1, <2>2, <2>3 DEF Next
<1> QED
  BY <1>1, <1>2, PTL DEF Spec, vars

(* Until a stop is overtaken by another stop or a start, an automatic          *)
(* recording is known as one and by its game, and turning the switch off       *)
(* leaves none behind, however the watcher, the switch and the user's clicks   *)
(* interleave (recording.rs, stop_recording and its callers).                  *)
THEOREM AutomaticStaysKnown == Spec => []RecorderSafe
PROOF
<1>1. (part = "recorder" => RecorderInv /\ Flagged) => RecorderSafe
  BY RecorderSafety DEF RecorderSafe
<1> QED
  BY <1>1, RecorderAlways, PTL

(* However stops and starts overlap, the watcher, which follows the game, and  *)
(* the switch take no recording that the user had begun when they read the     *)
(* flag: each asks first and takes later, and what is held may have been       *)
(* stopped and replaced in between (recording.rs, stop_auto_game_recording).   *)
(* What was begun after the flag was read they may take, as the code does.     *)
THEOREM UsersRecordingIsKept ==
    Spec => [][part = "recorder" => Recorder!TakesAutomatic]_<<recorderVars, updatesVars>>
PROOF
<1>1. (part = "recorder" => RecorderInv /\ Flagged) => (part = "recorder" => Recorder!TakesAutomatic)
  BY UsersRecordingSafe
<1> QED
  BY <1>1, RecorderAlways, PTL

-------------------------------------------------------------------------------
(* The clip buffer                                                            *)

Segments == (1..MaxCaptures) \X (1..MaxSegments)

ClipTypes ==
    /\ capture \in 0..MaxCaptures /\ directory \in 0..MaxCaptures
    /\ written \in 0..MaxSegments
    /\ ring \in Seq(Segments)
    /\ protected \subseteq Segments /\ disk \subseteq Segments
    /\ export \in [pc : {"idle", "reserved", "rendering"}, paths : SUBSET Segments]
    /\ rolling => held /\ capture >= 1
ClipFlags ==
    /\ held \in BOOLEAN /\ rolling \in BOOLEAN /\ exporting \in BOOLEAN
    /\ open \in BOOLEAN /\ doubled \in BOOLEAN

\* The entries of the ring are files of this capture, none twice and in order.
Filed(r, d, w) ==
    /\ \A i \in 1..Len(r) : r[i] \in d /\ r[i][1] = capture /\ r[i][2] < w
    /\ \A i, j \in 1..Len(r) : i < j => r[i][2] < r[j][2]
Once == ~doubled => Filed(ring, disk, IF open THEN written ELSE written + 1)

\* What an export reads is of this capture and protected, or of an earlier one.
Reserved ==
    /\ export.pc = "idle" => export.paths = {}
    /\ export.pc # "idle" => exporting /\ protected \subseteq export.paths
    /\ ~doubled => \A f \in export.paths : f[1] <= capture /\ (f[1] = capture => f \in protected)
    /\ held /\ ~exporting => protected = {}

ClipsInv ==
    ClipTypes /\ ClipFlags /\ Once /\ Reserved /\ Clips!ExportedStay /\ Clips!BufferBounded

LEMMA FirstExists ==
    ASSUME NEW T, T \subseteq Nat, T # {}
    PROVE  \E x \in T : \A y \in T : x <= y
PROOF
<1>1. OpToRel(<, Nat) = {ss \in Nat \X Nat : ss[1] < ss[2]}
  BY Zenon DEF OpToRel
<1>2. PICK x \in T : \A y \in T : <<y, x>> \notin OpToRel(<, Nat)
  BY NatLessThanWellFounded, WFMin, Zenon
<1>3. ASSUME NEW y \in T
      PROVE  x <= y
  <2>1. ~(y < x)
    BY <1>1, <1>2
  <2> QED
    BY <2>1
<1> QED
  BY <1>2, <1>3

\* prune drops what is too much, up to the first protected segment.
LEMMA PrunableIs ==
    ASSUME NEW r \in Seq(Segments), NEW p
    PROVE  /\ Clips!Surplus(r) \in Nat /\ Clips!Surplus(r) <= Len(r)
           /\ Len(r) - Clips!Surplus(r) <= MaxKept
           /\ Clips!Prunable(r, p) \in 0..Clips!Surplus(r)
           /\ \A i \in 1..Clips!Prunable(r, p) : r[i] \notin p
           /\ Clips!Prunable(r, p) < Clips!Surplus(r) => r[Clips!Prunable(r, p) + 1] \in p
PROOF
<1> DEFINE S == Clips!Surplus(r)
           T == {k \in 0..S : k < S => r[k + 1] \in p}
<1>1. S \in Nat /\ S <= Len(r) /\ Len(r) - S <= MaxKept
  BY ClipBoundsAreNats, LenProperties DEF Clips!Surplus
<1> HIDE DEF S
<1>2. PICK n \in T : \A k \in T : n <= k
  <2>1. T \subseteq Nat /\ S \in T
    BY <1>1
  <2> HIDE DEF T
  <2> QED
    BY <2>1, FirstExists
<1>3. n \in 0..S /\ (n < S => r[n + 1] \in p)
  BY <1>2
<1>4. ASSUME NEW i \in 1..n
      PROVE  r[i] \notin p
  <2>1. i - 1 \in 0..S /\ i - 1 < S /\ ~(n <= i - 1)
    BY <1>1, <1>3
  <2>2. i - 1 \notin T
    BY <1>2, <2>1
  <2>3. r[(i - 1) + 1] \notin p
    BY <2>1, <2>2
  <2> QED
    BY <2>3
<1>5. \E k \in 0..S : (\A i \in 1..k : r[i] \notin p) /\ (k < S => r[k + 1] \in p)
  BY <1>3, <1>4
<1>6. Clips!Prunable(r, p) = CHOOSE k \in 0..S : (\A i \in 1..k : r[i] \notin p) /\ (k < S => r[k + 1] \in p)
  BY DEF Clips!Prunable, S
<1> QED
  BY <1>1, <1>5, <1>6, Zenon DEF S

\* The rest of the ring.
LEMMA PrunedRing ==
    ASSUME NEW r \in Seq(Segments), NEW n \in 0..Len(r)
    PROVE  /\ SubSeq(r, n + 1, Len(r)) \in Seq(Segments)
           /\ Len(SubSeq(r, n + 1, Len(r))) = Len(r) - n
           /\ \A i \in 1..(Len(r) - n) : SubSeq(r, n + 1, Len(r))[i] = r[i + n]
PROOF
  BY LenProperties

\* Pruning takes with an entry its file and nobody else's.
LEMMA PruningKeepsFiled ==
    ASSUME NEW r \in Seq(Segments), NEW n \in 0..Len(r), NEW d, NEW w \in Nat, Filed(r, d, w)
    PROVE  Filed(SubSeq(r, n + 1, Len(r)), d \ {r[i] : i \in 1..n}, w)
PROOF
<1> DEFINE s == SubSeq(r, n + 1, Len(r))
<1>1. /\ s \in Seq(Segments) /\ Len(s) = Len(r) - n
      /\ \A i \in 1..Len(s) : s[i] = r[i + n] /\ i + n \in 1..Len(r)
  BY PrunedRing, LenProperties
<1> HIDE DEF s
<1>2. ASSUME NEW i \in 1..Len(s)
      PROVE  s[i] \in d \ {r[j] : j \in 1..n} /\ s[i][1] = capture /\ s[i][2] < w
  <2>1. s[i] = r[i + n] /\ i + n \in 1..Len(r)
    BY <1>1
  <2>2. s[i] \in d /\ s[i][1] = capture /\ s[i][2] < w
    BY <2>1 DEF Filed
  <2>3. ASSUME NEW j \in 1..n, r[i + n] = r[j]
        PROVE  FALSE
    <3>1. j \in 1..Len(r) /\ j < i + n
      BY <1>1, LenProperties
    <3>2. r[j][2] < r[i + n][2] /\ r[j] \in Segments
      BY <2>1, <3>1 DEF Filed
    <3> QED
      BY <2>3, <3>2 DEF Segments
  <2> QED
    BY <2>1, <2>2, <2>3
<1>3. ASSUME NEW i \in 1..Len(s), NEW j \in 1..Len(s), i < j
      PROVE  s[i][2] < s[j][2]
  <2>1. s[i] = r[i + n] /\ s[j] = r[j + n] /\ i + n \in 1..Len(r) /\ j + n \in 1..Len(r) /\ i + n < j + n
    BY <1>1, <1>3
  <2> QED
    BY <2>1 DEF Filed
<1>4. Filed(s, d \ {r[i] : i \in 1..n}, w)
  BY <1>2, <1>3 DEF Filed
<1> QED
  BY <1>4 DEF s

LEMMA FiledGrows ==
    ASSUME NEW r \in Seq(Segments), NEW d, NEW e, d \subseteq e, NEW v \in Nat, NEW w \in Nat, v <= w, Filed(r, d, v)
    PROVE  Filed(r, e, w)
PROOF
<1>1. \A i \in 1..Len(r) : r[i][2] \in Nat
  BY DEF Segments
<1> QED
  BY <1>1 DEF Filed

LEMMA CommittedIs ==
    ASSUME ClipTypes, ClipFlags, Once, doubled' = (doubled \/ (~open /\ Clips!File(written) \in disk))
    PROVE  /\ Clips!Committed \in Seq(Segments)
           /\ ~doubled' => Filed(Clips!Committed, disk, written + 1)
PROOF
<1>0. ring \in Seq(Segments) /\ written \in Nat /\ Len(ring) \in Nat
  BY LenProperties DEF ClipTypes
<1>1. CASE Clips!File(written) \notin disk
  <2>1. Clips!Committed = ring
    BY <1>1 DEF Clips!Committed
  <2>2. ASSUME ~doubled' PROVE Filed(ring, disk, written + 1)
    <3>1. ~doubled
      BY <2>2, Zenon
    <3>2. Filed(ring, disk, written) \/ Filed(ring, disk, written + 1)
      BY <3>1, Zenon DEF Once
    <3>3. written + 1 \in Nat /\ written <= written + 1 /\ disk \subseteq disk
      BY <1>0
    <3> QED
      BY <1>0, <3>2, <3>3, FiledGrows
  <2> QED
    BY <1>0, <2>1, <2>2
<1>2. CASE Clips!File(written) \in disk
  <2> DEFINE f == <<capture, written>>
             c == Append(ring, f)
  <2>1. Clips!Committed = c /\ f \in Segments /\ f \in disk
    BY <1>2 DEF Clips!Committed, Clips!File, ClipTypes
  <2>2. /\ c \in Seq(Segments) /\ Len(c) = Len(ring) + 1 /\ c[Len(ring) + 1] = f
        /\ \A i \in 1..Len(ring) : c[i] = ring[i]
    BY <1>0, <2>1
  <2> HIDE DEF c
  <2>3. ASSUME ~doubled'
        PROVE  Filed(c, disk, written + 1)
    <3>1. open /\ Filed(ring, disk, written)
      BY <1>2, <2>3 DEF Once
    <3>2. f[1] = capture /\ f[2] = written
      OBVIOUS
    <3> HIDE DEF f
    <3>3. ASSUME NEW i \in 1..Len(c)
          PROVE  c[i] \in disk /\ c[i][1] = capture /\ c[i][2] < written + 1
      <4>1. CASE i \in 1..Len(ring)
        <5>1. ring[i] \in Segments /\ ring[i] \in disk /\ ring[i][1] = capture /\ ring[i][2] < written
          BY <1>0, <3>1, <4>1 DEF Filed
        <5>2. ring[i][2] \in Nat
          BY <5>1 DEF Segments
        <5> QED
          BY <1>0, <2>2, <4>1, <5>1, <5>2
      <4>2. CASE i = Len(ring) + 1
        BY <1>0, <2>1, <2>2, <3>2, <4>2
      <4> QED
        BY <1>0, <2>2, <4>1, <4>2
    <3>4. ASSUME NEW i \in 1..Len(c), NEW j \in 1..Len(c), i < j
          PROVE  c[i][2] < c[j][2]
      <4>1. i \in 1..Len(ring) /\ c[i] = ring[i] /\ ring[i][2] < written
        BY <1>0, <2>2, <3>1, <3>4 DEF Filed
      <4>2. CASE j \in 1..Len(ring)
        BY <2>2, <3>1, <3>4, <4>1, <4>2 DEF Filed
      <4>3. CASE j = Len(ring) + 1
        BY <2>2, <3>2, <4>1, <4>3
      <4> QED
        BY <1>0, <2>2, <4>2, <4>3
    <3> QED
      BY <3>3, <3>4 DEF Filed
  <2> QED
    BY <2>1, <2>2, <2>3
<1> QED
  BY <1>1, <1>2

\* What rotating in a segment leaves.
IsRotated ==
    /\ written' = written + 1 /\ written' \in 0..MaxSegments /\ open' = TRUE
    /\ doubled' \in BOOLEAN /\ (~doubled' => ~doubled)
    /\ ring' \in Seq(Segments) /\ disk' \subseteq Segments
    /\ ~doubled' => Filed(ring', disk', written')
    /\ ~doubled' => export.paths \subseteq disk'
    /\ Len(ring') > MaxKept => ring'[1] \in protected

LEMMA Rotates == ASSUME ClipsInv, rolling, Clips!Rotated PROVE IsRotated
PROOF
<1> DEFINE c == Clips!Committed
           n == Clips!Prunable(c, protected)
           e == disk \cup {Clips!File(written')}
<1>0. ClipTypes /\ ClipFlags /\ Once /\ Reserved /\ Clips!ExportedStay
  BY DEF ClipsInv
<1>1. /\ written' = written + 1 /\ open' = TRUE /\ written < MaxSegments
      /\ doubled' = (doubled \/ (~open /\ Clips!File(written) \in disk))
      /\ ring' = SubSeq(c, n + 1, Len(c)) /\ disk' = e \ {c[i] : i \in 1..n}
  BY DEF Clips!Rotated, Clips!Prune
<1>2. written' \in 0..MaxSegments /\ written \in Nat /\ written' \in Nat /\ e \subseteq Segments
  BY <1>0, <1>1, ClipBoundsAreNats DEF ClipTypes, Clips!File, Segments
<1>3. c \in Seq(Segments) /\ (~doubled' => Filed(c, disk, written'))
  BY <1>0, <1>1, CommittedIs
<1>4. doubled' \in BOOLEAN /\ (~doubled' => ~doubled)
  BY <1>1, Zenon
<1> HIDE DEF c
<1>5. /\ n \in 0..Len(c)
      /\ \A i \in 1..n : c[i] \notin protected
      /\ Len(c) - n > MaxKept => n < Len(c) /\ c[n + 1] \in protected
  <2>1. /\ Clips!Surplus(c) \in Nat /\ Clips!Surplus(c) <= Len(c) /\ Len(c) - Clips!Surplus(c) <= MaxKept
        /\ n \in 0..Clips!Surplus(c) /\ (\A i \in 1..n : c[i] \notin protected)
        /\ n < Clips!Surplus(c) => c[n + 1] \in protected
    BY <1>3, PrunableIs
  <2> HIDE DEF n
  <2>2. Len(c) \in Nat
    BY <1>3, LenProperties
  <2> QED
    BY <2>1, <2>2, ClipBoundsAreNats
<1> HIDE DEF n
<1>6. ring' \in Seq(Segments) /\ Len(ring') = Len(c) - n /\ (n < Len(c) => ring'[1] = c[n + 1])
  <2>1. /\ ring' \in Seq(Segments) /\ Len(ring') = Len(c) - n
        /\ \A i \in 1..(Len(c) - n) : ring'[i] = c[i + n]
    BY <1>1, <1>3, <1>5, PrunedRing
  <2>2. Len(c) \in Nat
    BY <1>3, LenProperties
  <2>3. n < Len(c) => 1 \in 1..(Len(c) - n) /\ 1 + n = n + 1
    BY <1>5, <2>2
  <2> QED
    BY <2>1, <2>3
<1>7. ASSUME ~doubled'
      PROVE  Filed(ring', disk', written') /\ export.paths \subseteq disk'
  <2>1. Filed(c, disk, written') /\ disk \subseteq e
    BY <1>3, <1>7
  <2>2. Filed(c, e, written')
    BY <1>2, <1>3, <2>1, FiledGrows
  <2>3. Filed(ring', disk', written')
    BY <1>1, <1>2, <1>3, <1>5, <2>2, PruningKeepsFiled
  <2>4. ASSUME NEW f \in export.paths
        PROVE  f \in disk'
    <3>1. f \in e /\ (f[1] = capture => f \in protected)
      BY <1>0, <1>4, <1>7 DEF Clips!ExportedStay, Reserved
    <3>2. ASSUME NEW i \in 1..n, f = c[i]
          PROVE  FALSE
      <4>1. i \in 1..Len(c) /\ c[i] \notin protected
        BY <1>3, <1>5, LenProperties
      <4>2. c[i][1] = capture
        BY <2>1, <4>1 DEF Filed
      <4> QED
        BY <3>1, <3>2, <4>1, <4>2
    <3> QED
      BY <1>1, <3>1, <3>2
  <2> QED
    BY <2>3, <2>4
<1> QED
  BY <1>1, <1>2, <1>4, <1>5, <1>6, <1>7 DEF IsRotated

LEMMA ClipsInit == Clips!Init => ClipsInv
PROOF
<1> SUFFICES ASSUME Clips!Init
             PROVE  ClipsInv
  OBVIOUS
<1> USE ClipBoundsAreNats DEF Clips!Init, Clips!NoExport
<1>1. ClipTypes /\ Once /\ Reserved /\ Clips!ExportedStay /\ Clips!BufferBounded
  <2>1. <<>> \in Seq(Segments) /\ Len(<<>>) = 0
    BY EmptySeq
  <2> QED
    BY <2>1 DEF ClipTypes, Once, Filed, Reserved, Clips!ExportedStay, Clips!BufferBounded
<1>2. ClipFlags
  BY Zenon DEF ClipFlags
<1> QED
  BY <1>1, <1>2 DEF ClipsInv

LEMMA FrameStep == ASSUME ClipsInv, Clips!Frame PROVE ClipsInv'
PROOF
<1>0. ClipTypes /\ ClipFlags /\ Once /\ Reserved /\ Clips!ExportedStay
  BY DEF ClipsInv
<1>1. UNCHANGED <<capture, held, rolling, protected, directory, exporting, export>>
  BY DEF Clips!Frame
<1>2. IsRotated
  BY Rotates DEF Clips!Frame
<1>3. ClipTypes' /\ Reserved'
  BY <1>0, <1>1, <1>2 DEF ClipTypes, Reserved, IsRotated
<1>4. ClipFlags'
  BY <1>0, <1>1, <1>2, Zenon DEF ClipFlags, IsRotated
<1>5. Once'
  BY <1>1, <1>2 DEF Once, IsRotated, Filed
<1>6. Clips!ExportedStay'
  BY <1>1, <1>2 DEF Clips!ExportedStay, IsRotated
<1>7. Clips!BufferBounded'
  BY <1>0, <1>1, <1>2 DEF Clips!BufferBounded, IsRotated, Reserved
<1> QED
  BY <1>3, <1>4, <1>5, <1>6, <1>7 DEF ClipsInv

LEMMA CommandStep ==
    ASSUME ClipsInv,
           Clips!CaptureEnds \/ Clips!GetStatus \/ Clips!StartClipBuffer \/ Clips!StopClipBuffer
    PROVE  ClipsInv'
PROOF
<1>0. ClipTypes /\ ClipFlags /\ Once /\ Reserved /\ Clips!ExportedStay /\ Clips!BufferBounded
  BY DEF ClipsInv
<1>1. CASE Clips!CaptureEnds \/ Clips!GetStatus
  <2>1. /\ UNCHANGED <<capture, written, open, ring, protected, disk, directory, exporting, export, doubled>>
        /\ held' \in BOOLEAN /\ (held' => held)
        /\ rolling' \in BOOLEAN /\ ~rolling'
    <3>1. CASE Clips!CaptureEnds
      <4>1. /\ UNCHANGED <<capture, written, open, ring, protected, disk, directory, exporting, export, doubled>>
            /\ held' = held /\ rolling' = FALSE
        BY <3>1 DEF Clips!CaptureEnds
      <4> QED
        BY <1>0, <4>1, Zenon DEF ClipFlags
    <3>2. CASE Clips!GetStatus
      <4>1. /\ UNCHANGED <<capture, written, open, ring, protected, disk, directory, exporting, export, doubled>>
            /\ rolling' = rolling /\ ~rolling /\ held' = FALSE
        BY <3>2 DEF Clips!GetStatus
      <4> QED
        BY <1>0, <4>1, Zenon DEF ClipFlags
    <3> QED
      BY <1>1, <3>1, <3>2
  <2>2. ClipTypes' /\ Once' /\ Reserved' /\ Clips!ExportedStay' /\ Clips!BufferBounded'
    BY <1>0, <2>1 DEF ClipTypes, Once, Filed, Reserved, Clips!ExportedStay, Clips!BufferBounded
  <2>3. ClipFlags'
    BY <1>0, <2>1, Zenon DEF ClipFlags
  <2> QED
    BY <2>2, <2>3 DEF ClipsInv
<1>2. CASE Clips!StartClipBuffer
  <2>1. /\ capture < MaxCaptures /\ capture' = capture + 1 /\ held' = TRUE /\ rolling' = TRUE
        /\ written' = 1 /\ open' = TRUE /\ ring' = <<>> /\ protected' = {}
        /\ disk' = disk \cup {<<capture + 1, 1>>} /\ directory' = capture + 1
        /\ UNCHANGED <<exporting, export, doubled>>
    BY <1>2 DEF Clips!StartClipBuffer
  <2>2. ring' \in Seq(Segments) /\ Len(ring') = 0
    BY <2>1, EmptySeq
  <2>3. ClipTypes'
    BY <1>0, <2>1, <2>2, ClipBoundsAreNats DEF ClipTypes, Segments
  <2>4. ClipFlags'
    BY <1>0, <2>1, Zenon DEF ClipFlags
  <2>5. Once' /\ Clips!BufferBounded'
    BY <2>2, ClipBoundsAreNats DEF Once, Filed, Clips!BufferBounded
  <2>6. Reserved'
    <3>1. ~doubled => \A f \in export.paths : f \in Segments /\ f[1] \in Nat /\ f[1] <= capture
      BY <1>0 DEF Reserved, ClipTypes, Segments
    <3>2. ~doubled => \A f \in export.paths : f[1] <= capture' /\ f[1] # capture'
      BY <1>0, <2>1, <3>1 DEF ClipTypes
    <3> QED
      BY <1>0, <2>1, <3>2 DEF Reserved
  <2>7. Clips!ExportedStay'
    BY <1>0, <2>1 DEF Clips!ExportedStay
  <2> QED
    BY <2>3, <2>4, <2>5, <2>6, <2>7 DEF ClipsInv
<1>3. CASE Clips!StopClipBuffer
  <2>1. /\ ~exporting /\ held' = FALSE /\ rolling' = FALSE
        /\ written' = 0 /\ open' = FALSE /\ ring' = <<>> /\ protected' = {}
        /\ disk' = {f \in disk : f[1] # directory} /\ directory' = 0
        /\ UNCHANGED <<capture, exporting, export, doubled>>
    BY <1>3 DEF Clips!StopClipBuffer, Clips!MayStop
  <2>2. ring' \in Seq(Segments) /\ Len(ring') = 0
    BY <2>1, EmptySeq
  <2>3. export.paths = {}
    BY <1>0, <2>1 DEF Reserved
  <2>4. ClipTypes'
    BY <1>0, <2>1, <2>2, ClipBoundsAreNats DEF ClipTypes, Segments
  <2>5. ClipFlags'
    BY <1>0, <2>1, Zenon DEF ClipFlags
  <2>6. Once' /\ Clips!BufferBounded' /\ Clips!ExportedStay'
    BY <2>1, <2>2, <2>3, ClipBoundsAreNats DEF Once, Filed, Clips!BufferBounded, Clips!ExportedStay
  <2>7. Reserved'
    BY <1>0, <2>1, <2>3 DEF Reserved
  <2> QED
    BY <2>4, <2>5, <2>6, <2>7 DEF ClipsInv
<1> QED
  BY <1>1, <1>2, <1>3

LEMMA ReserveStep == ASSUME ClipsInv, NEW n \in 1..MaxClip, Clips!Reserve(n) PROVE ClipsInv'
PROOF
<1>0. ClipTypes /\ ClipFlags /\ Once /\ Reserved /\ Clips!ExportedStay
  BY DEF ClipsInv
<1>1. /\ ~exporting /\ held /\ rolling /\ export.pc = "idle"
      /\ protected' = protected \cup Clips!Latest(ring', n) /\ exporting' = TRUE
      /\ export' = [pc |-> "reserved", paths |-> Clips!Latest(ring', n)]
      /\ UNCHANGED <<capture, held, rolling, directory>>
  BY DEF Clips!Reserve, Clips!Holds
<1>2. /\ written' \in 0..MaxSegments /\ ring' \in Seq(Segments) /\ disk' \subseteq Segments
      /\ Once' /\ open' \in BOOLEAN /\ doubled' \in BOOLEAN
  <2>1. CASE Clips!Rotated
    <3>1. IsRotated
      BY <1>1, <2>1, Rotates
    <3>2. open' \in BOOLEAN /\ doubled' \in BOOLEAN
      BY <3>1, Zenon DEF IsRotated
    <3> QED
      BY <1>1, <3>1, <3>2 DEF IsRotated, Once, Filed
  <2>2. CASE UNCHANGED <<written, open, ring, disk, doubled>>
    <3>1. open' \in BOOLEAN /\ doubled' \in BOOLEAN
      BY <1>0, <2>2, Zenon DEF ClipFlags
    <3> QED
      BY <1>0, <1>1, <2>2, <3>1 DEF ClipTypes, Once, Filed
  <2> QED
    BY <2>1, <2>2 DEF Clips!Reserve
<1>3. \A f \in Clips!Latest(ring', n) : \E i \in 1..Len(ring') : f = ring'[i]
  BY DEF Clips!Latest
<1>4. \A i \in 1..Len(ring') : ring'[i] \in Segments
  BY <1>2
<1>5. Clips!Latest(ring', n) \subseteq Segments
  BY <1>3, <1>4
<1>6. ClipTypes'
  BY <1>0, <1>1, <1>2, <1>5 DEF ClipTypes
<1>7. ClipFlags'
  BY <1>0, <1>1, <1>2, Zenon DEF ClipFlags
<1>8. protected = {}
  BY <1>0, <1>1 DEF Reserved
<1>9. ~doubled' => \A f \in export'.paths : f \in disk' /\ f[1] = capture
  BY <1>1, <1>2, <1>3 DEF Once, Filed
<1>10. Clips!ExportedStay'
  BY <1>9 DEF Clips!ExportedStay
<1>11. Reserved'
  <2>1. export'.paths = Clips!Latest(ring', n) /\ export'.pc = "reserved" /\ export'.paths = protected'
    BY <1>1, <1>8
  <2>2. capture \in Nat
    BY <1>0 DEF ClipTypes
  <2> QED
    BY <1>1, <1>9, <2>1, <2>2 DEF Reserved
<1>12. Clips!BufferBounded'
  <2>1. CASE Clips!Rotated
    BY <1>1, <1>8, <2>1, Rotates DEF Clips!BufferBounded, IsRotated
  <2>2. CASE UNCHANGED <<written, open, ring, disk, doubled>>
    BY <1>1, <1>8, <2>2 DEF Clips!BufferBounded, ClipsInv
  <2> QED
    BY <2>1, <2>2 DEF Clips!Reserve
<1> QED
  BY <1>2, <1>6, <1>7, <1>10, <1>11, <1>12 DEF ClipsInv

LEMMA ExportStep ==
    ASSUME ClipsInv, Clips!ReserveFails \/ Clips!NoClipFolder \/ Clips!Render \/ Clips!Rendered
    PROVE  ClipsInv'
PROOF
<1>0. ClipTypes /\ ClipFlags /\ Once /\ Reserved /\ Clips!ExportedStay /\ Clips!BufferBounded
  BY DEF ClipsInv
<1>1. CASE Clips!ReserveFails
  <2>1. /\ open /\ ring' = Clips!Committed /\ open' = FALSE
        /\ UNCHANGED <<capture, held, rolling, written, protected, disk, directory, exporting, export, doubled>>
    BY <1>1 DEF Clips!ReserveFails
  <2>2. doubled' = (doubled \/ (~open /\ Clips!File(written) \in disk))
    BY <1>0, <2>1, Zenon DEF ClipFlags
  <2>3. Clips!Committed \in Seq(Segments) /\ (~doubled' => Filed(Clips!Committed, disk, written + 1))
    BY <1>0, <2>2, CommittedIs
  <2>4. ClipTypes' /\ Once' /\ Reserved' /\ Clips!ExportedStay' /\ Clips!BufferBounded'
    BY <1>0, <2>1, <2>3 DEF ClipTypes, Once, Filed, Reserved, Clips!ExportedStay, Clips!BufferBounded
  <2>5. ClipFlags'
    BY <1>0, <2>1, Zenon DEF ClipFlags
  <2> QED
    BY <2>4, <2>5 DEF ClipsInv
<1>2. CASE Clips!NoClipFolder \/ Clips!Render
  <2>1. /\ export.pc = "reserved"
        /\ export' = [pc |-> "idle", paths |-> {}] \/ export' = [pc |-> "rendering", paths |-> export.paths]
        /\ UNCHANGED <<capture, held, rolling, written, open, ring, protected, disk, directory, exporting, doubled>>
    BY <1>0, <1>2 DEF Clips!NoClipFolder, Clips!Render, Clips!NoExport, ClipTypes
  <2>2. ClipTypes' /\ Once' /\ Clips!BufferBounded'
    BY <1>0, <2>1 DEF ClipTypes, Once, Filed, Clips!BufferBounded
  <2>3. Reserved' /\ Clips!ExportedStay'
    BY <1>0, <2>1 DEF Reserved, Clips!ExportedStay
  <2>4. ClipFlags'
    BY <1>0, <2>1, Zenon DEF ClipFlags
  <2> QED
    BY <2>2, <2>3, <2>4 DEF ClipsInv
<1>3. CASE Clips!Rendered
  <2> DEFINE p == protected \ export.paths
             n == Clips!Prunable(ring, p)
  <2>1. /\ export.pc = "rendering" /\ export' = [pc |-> "idle", paths |-> {}] /\ exporting' = FALSE
        /\ UNCHANGED <<capture, held, rolling, written, open, directory, doubled>>
    BY <1>3 DEF Clips!Rendered, Clips!NoExport
  <2>2. p = {} /\ ring \in Seq(Segments) /\ written \in Nat /\ written + 1 \in Nat
    BY <1>0, <2>1 DEF Reserved, ClipTypes
  <2>3. ClipFlags'
    BY <1>0, <2>1, Zenon DEF ClipFlags
  <2>4. CASE held
    <3>1. /\ protected' = p /\ ring' = SubSeq(ring, n + 1, Len(ring))
          /\ disk' = disk \ {ring[i] : i \in 1..n}
      BY <1>3, <2>4 DEF Clips!Rendered, Clips!Release
    <3>2. n \in 0..Len(ring) /\ Len(ring) - n <= MaxKept
      <4>1. /\ Clips!Surplus(ring) \in Nat /\ Clips!Surplus(ring) <= Len(ring)
            /\ Len(ring) - Clips!Surplus(ring) <= MaxKept
            /\ n \in 0..Clips!Surplus(ring)
            /\ n < Clips!Surplus(ring) => ring[n + 1] \in p
        BY <2>2, PrunableIs
      <4>2. Len(ring) \in Nat
        BY <2>2, LenProperties
      <4> HIDE DEF n
      <4> QED
        BY <2>2, <4>1, <4>2
    <3>3. p = {}
      BY <2>2
    <3> HIDE DEF n, p
    <3>4. ring' \in Seq(Segments) /\ Len(ring') = Len(ring) - n
      BY <2>2, <3>1, <3>2, PrunedRing
    <3>5. ClipTypes'
      BY <1>0, <2>1, <3>1, <3>3, <3>4 DEF ClipTypes
    <3>6. Once'
      <4>1. ASSUME NEW w \in Nat, Filed(ring, disk, w)
            PROVE  Filed(ring', disk', w)
        BY <2>2, <3>1, <3>2, <4>1, PruningKeepsFiled
      <4>2. ASSUME ~doubled'
            PROVE  Filed(ring', disk', IF open THEN written ELSE written + 1)
        <5>1. Filed(ring, disk, IF open THEN written ELSE written + 1)
          BY <1>0, <2>1, <4>2 DEF Once
        <5> QED
          BY <2>2, <4>1, <5>1
      <4> QED
        BY <2>1, <4>2 DEF Once, Filed
    <3>7. Reserved' /\ Clips!ExportedStay'
      BY <2>1, <3>1, <3>3 DEF Reserved, Clips!ExportedStay
    <3>8. Clips!BufferBounded'
      <4>1. Len(ring) \in Nat /\ MaxKept \in Nat
        BY <2>2, LenProperties, ClipBoundsAreNats
      <4>2. ~(Len(ring') > MaxKept)
        BY <3>2, <3>4, <4>1
      <4> QED
        BY <4>2 DEF Clips!BufferBounded
    <3> QED
      BY <2>3, <3>5, <3>6, <3>7, <3>8 DEF ClipsInv
  <2>5. CASE ~held
    <3>1. UNCHANGED <<protected, ring, disk>>
      BY <1>3, <2>5 DEF Clips!Rendered
    <3>2. ClipTypes' /\ Once' /\ Reserved' /\ Clips!ExportedStay' /\ Clips!BufferBounded'
      BY <1>0, <2>1, <2>5, <3>1 DEF ClipTypes, Once, Filed, Reserved, Clips!ExportedStay, Clips!BufferBounded
    <3> QED
      BY <2>3, <3>2 DEF ClipsInv
  <2> QED
    BY <2>4, <2>5
<1> QED
  BY <1>1, <1>2, <1>3

LEMMA ClipsNextStep == ASSUME ClipsInv, Clips!Next PROVE ClipsInv'
PROOF
  BY FrameStep, CommandStep, ReserveStep, ExportStep DEF Clips!Next

LEMMA ClipsSafety == ASSUME ClipsInv PROVE ClipsSafe
PROOF
<1>1. /\ held \in BOOLEAN /\ rolling \in BOOLEAN /\ exporting \in BOOLEAN
      /\ open \in BOOLEAN /\ doubled \in BOOLEAN
  BY Zenon DEF ClipsInv, ClipFlags
<1>2. Clips!TypeOK
  BY <1>1 DEF ClipsInv, ClipTypes, Clips!TypeOK, Segments, Clips!Files
<1> QED
  BY <1>2 DEF ClipsInv, ClipsSafe

(* The files an export of the clip buffer reads stay on disk until it is over *)
(* and the buffer outgrows its length only behind a reserved segment, although *)
(* the capture goes on writing and pruning, may end or be restarted           *)
(* (recording.rs, RollingCapture and save_last_clip).                         *)
THEOREM ExportsKeepTheirFiles == Spec => []ClipsSafe
PROOF
<1> DEFINE Inv == part = "clips" => ClipsInv
<1>1. Init => Inv
  BY ClipsInit DEF Init
<1>2. Inv /\ [Next]_vars => Inv'
  <2> SUFFICES ASSUME Inv, [Next]_vars, part' = "clips"
               PROVE  ClipsInv'
    OBVIOUS
  <2>1. CASE ClipsNext
    BY <2>1, ClipsNextStep DEF ClipsNext
  <2>2. CASE RecorderNext \/ BroadcastNext \/ UpdatesNext \/ WindowNext
    BY <2>2 DEF RecorderNext, BroadcastNext, UpdatesNext, WindowNext
  <2>3. CASE UNCHANGED vars
    <3>1. part = "clips" /\ UNCHANGED clipsVars
      BY <2>3 DEF vars
    <3>2. ClipsInv
      BY <3>1
    <3>3. ClipTypes' /\ Once' /\ Reserved' /\ Clips!ExportedStay' /\ Clips!BufferBounded'
      BY <3>1, <3>2 DEF clipsVars, ClipsInv, ClipTypes, Once, Filed, Reserved, Clips!ExportedStay,
                        Clips!BufferBounded
    <3>4. ClipFlags'
      BY <3>1, <3>2, Zenon DEF clipsVars, ClipsInv, ClipFlags
    <3> QED
      BY <3>3, <3>4 DEF ClipsInv
  <2> QED
    BY <2>1, <2>2, <2>3 DEF Next
<1>3. Inv => ClipsSafe
  BY ClipsSafety DEF ClipsSafe
<1> QED
  BY <1>1, <1>2, <1>3, PTL DEF Spec, vars

-------------------------------------------------------------------------------
(* The live broadcast                                                         *)

Asked == Streams \cup {0}
Captured == 1..MaxRenewals

BroadcastTypes ==
    /\ generation \in Nat /\ config \in Asked
    /\ task \in {"none", "loop", "configured", "session", "off", "stopping", "returning"}
    /\ session \in [stream : Asked, generation : 0..(2 * MaxRenewals + 1)]
    /\ live \in [capture : Captured \cup {0}, stream : Asked]
    /\ capturing \subseteq Captured
    /\ begun \in [Captured -> Asked]
    /\ control \in [pc : {"idle", "take", "stop", "capture", "replace", "install", "config",
                          "bump", "task"}, stream : Asked, capture : Captured \cup {0}]
    /\ ending \in Captured \cup {0}
    /\ calls \in 0..MaxRenewals
    /\ pings \in [made : 0..MaxPings, shown : 0..MaxPings]
BroadcastFlags == lease \in BOOLEAN /\ requested \in BOOLEAN /\ overlooked \in BOOLEAN

\* Who holds nothing: a call that has not taken a capture yet or has handed it
\* over, the manager while a call has its capture, a publisher that does not stop.
Holding ==
    /\ control.pc \notin {"stop", "replace", "install"} => control.capture = 0
    /\ control.pc \in {"stop", "replace", "install"} => live.capture = 0
    /\ task # "stopping" => ending = 0

\* A call changes the generation at most once.
Numbered ==
    /\ 1 <= generation /\ generation <= calls + 1
    /\ control.pc \in {"capture", "replace", "install", "config", "bump"} => generation <= calls

BroadcastInv ==
    /\ BroadcastTypes /\ BroadcastFlags /\ Holding /\ Numbered
    /\ Broadcast!NoLostCapture /\ Broadcast!CaptureHasPublisher

LEMMA CleanedIs ==
    ASSUME BroadcastTypes
    PROVE  /\ Broadcast!Cleaned(live) \in [capture : Captured \cup {0}, stream : Asked]
           /\ Broadcast!Cleaned(live).capture \in {0, live.capture}
           /\ live.capture \in capturing => Broadcast!Cleaned(live).capture = live.capture
PROOF
  BY DEF Broadcast!Cleaned, Broadcast!NoLive, BroadcastTypes, Broadcast!Nil, Asked

LEMMA BroadcastInit == Broadcast!Init => BroadcastInv
PROOF
<1> SUFFICES ASSUME Broadcast!Init
             PROVE  BroadcastInv
  OBVIOUS
<1> USE BroadcastBoundsAreNats
<1> USE DEF Broadcast!Init, Broadcast!Nil, Broadcast!NoSession, Broadcast!NoLive, Broadcast!Idle, Broadcast!Captures
<1>1. BroadcastTypes
  BY DEF BroadcastTypes, Asked, Captured
<1>2. BroadcastFlags
  BY DEF BroadcastFlags
<1>3. Holding /\ Numbered
  BY DEF Holding, Numbered
<1>4. Broadcast!NoLostCapture /\ Broadcast!CaptureHasPublisher
  BY DEF Broadcast!NoLostCapture, Broadcast!CaptureHasPublisher
<1> QED
  BY <1>1, <1>2, <1>3, <1>4 DEF BroadcastInv

\* Time, a capture that ends by itself, a ping.
LEMMA TimeStep ==
    ASSUME BroadcastInv,
           \/ Broadcast!LeaseEnds \/ Broadcast!FramesEnd \/ (\E c \in Broadcast!Captures : Broadcast!CaptureEnds(c))
           \/ (\E b \in BOOLEAN : Broadcast!Ping(b))
    PROVE  BroadcastInv'
PROOF
<1> USE BroadcastBoundsAreNats
<1> USE DEF BroadcastInv
<1>1. /\ UNCHANGED <<generation, config, task, session, live, begun, control, ending, calls, overlooked>>
      /\ capturing' \subseteq capturing
      /\ lease' \in {lease, FALSE} /\ requested' \in {requested, FALSE}
  BY DEF Broadcast!LeaseEnds, Broadcast!FramesEnd, Broadcast!CaptureEnds, Broadcast!Ping
<1>2. pings' \in [made : 0..MaxPings, shown : 0..MaxPings]
  <2>1. CASE pings' = pings
    BY <2>1 DEF BroadcastTypes
  <2>2. CASE \E b \in BOOLEAN : Broadcast!Ping(b)
    <3>1. pings.made < MaxPings /\ \E n \in {pings.made + 1, pings.shown} : pings' = [made |-> pings.made + 1, shown |-> n]
      BY <2>2 DEF Broadcast!Ping
    <3> QED
      BY <3>1 DEF BroadcastTypes
  <2> QED
    BY <2>1, <2>2 DEF Broadcast!LeaseEnds, Broadcast!FramesEnd, Broadcast!CaptureEnds
<1>3. BroadcastTypes'
  BY <1>1, <1>2 DEF BroadcastTypes
<1>4. BroadcastFlags'
  <2>1. lease' \in BOOLEAN /\ requested' \in BOOLEAN /\ overlooked' \in BOOLEAN
    BY <1>1, Zenon DEF BroadcastFlags
  <2> QED
    BY <2>1, Zenon DEF BroadcastFlags
<1>5. Holding' /\ Numbered' /\ Broadcast!NoLostCapture' /\ Broadcast!CaptureHasPublisher'
  BY <1>1 DEF Holding, Numbered, Broadcast!NoLostCapture, Broadcast!CaptureHasPublisher
<1> QED
  BY <1>3, <1>4, <1>5

\* What a step leaves to prove when it touches no flag of its own.
BroadcastRest == UNCHANGED <<lease, requested, overlooked>>

LEMMA FlagsStay ==
    ASSUME BroadcastFlags,
           lease' \in {lease, TRUE, FALSE}, requested' \in {requested, TRUE, FALSE},
           overlooked' = overlooked \/ overlooked' = (overlooked \/ task \in {"stopping", "returning"})
    PROVE  BroadcastFlags'
PROOF
<1>1. lease' \in BOOLEAN /\ requested' \in BOOLEAN
  BY Zenon DEF BroadcastFlags
<1>2. overlooked' \in BOOLEAN
  BY Zenon DEF BroadcastFlags
<1> QED
  BY <1>1, <1>2, Zenon DEF BroadcastFlags

\* The control call: begun, up to the capture it replaces.
LEMMA CallStep ==
    ASSUME BroadcastInv,
           Broadcast!Disable \/ (\E s \in Streams : Broadcast!Enable(s)) \/ Broadcast!TakeToStop
              \/ Broadcast!ControlStops \/ Broadcast!KeepCapture \/ Broadcast!TakeOld
    PROVE  BroadcastInv'
PROOF
<1> USE BroadcastBoundsAreNats
<1> USE DEF BroadcastInv, Broadcast!Nil
<1>1. CASE Broadcast!Disable
  <2>1. /\ UNCHANGED <<config, task, session, live, capturing, begun, ending, pings, overlooked>>
        /\ control.pc = "idle" /\ calls < MaxRenewals /\ calls' = calls + 1 /\ generation' = generation + 1
        /\ control' = [pc |-> "take", stream |-> 0, capture |-> 0]
        /\ lease' = FALSE /\ requested' = FALSE
    BY <1>1 DEF Broadcast!Disable, Broadcast!Idle
  <2>2. BroadcastTypes'
    BY <2>1 DEF BroadcastTypes, Asked
  <2>3. BroadcastFlags'
    BY <2>1, FlagsStay
  <2>4. Holding' /\ Numbered'
    BY <2>1 DEF Holding, Numbered, BroadcastTypes
  <2>5. Broadcast!NoLostCapture' /\ Broadcast!CaptureHasPublisher'
    BY <2>1 DEF Holding, BroadcastTypes, Broadcast!NoLostCapture, Broadcast!CaptureHasPublisher
  <2> QED
    BY <2>2, <2>3, <2>4, <2>5
<1>2. ASSUME NEW s \in Streams, Broadcast!Enable(s)
      PROVE  BroadcastInv'
  <2>1. /\ UNCHANGED <<generation, config, task, session, live, capturing, begun, ending, pings, overlooked>>
        /\ control.pc = "idle" /\ calls < MaxRenewals /\ calls' = calls + 1
        /\ control' = [pc |-> "capture", stream |-> s, capture |-> 0]
        /\ lease' = TRUE /\ requested' = TRUE
    BY <1>2 DEF Broadcast!Enable
  <2>2. BroadcastTypes'
    BY <2>1 DEF BroadcastTypes, Asked
  <2>3. BroadcastFlags'
    BY <2>1, FlagsStay
  <2>4. Holding' /\ Numbered'
    BY <2>1 DEF Holding, Numbered, BroadcastTypes
  <2>5. Broadcast!NoLostCapture' /\ Broadcast!CaptureHasPublisher'
    BY <2>1 DEF Holding, BroadcastTypes, Broadcast!NoLostCapture, Broadcast!CaptureHasPublisher
  <2> QED
    BY <2>2, <2>3, <2>4, <2>5
<1>3. CASE Broadcast!TakeToStop
  <2>1. /\ UNCHANGED <<lease, requested, generation, config, task, session, capturing, begun, ending, calls, pings, overlooked>>
        /\ control.pc = "take" /\ live' = [capture |-> 0, stream |-> 0]
        /\ control' = [control EXCEPT !.pc = "stop", !.capture = Broadcast!Cleaned(live).capture]
    BY <1>3 DEF Broadcast!TakeToStop, Broadcast!NoLive
  <2>2. BroadcastTypes'
    BY <2>1, CleanedIs DEF BroadcastTypes, Asked
  <2>3. BroadcastFlags'
    BY <2>1, FlagsStay
  <2>4. Holding' /\ Numbered'
    BY <2>1 DEF Holding, Numbered, BroadcastTypes
  <2>5. control'.capture = Broadcast!Cleaned(live).capture /\ control'.pc = "stop" /\ live'.capture = 0
    BY <2>1 DEF BroadcastTypes
  <2>6. Broadcast!NoLostCapture' /\ Broadcast!CaptureHasPublisher'
    BY <2>1, <2>5, CleanedIs DEF Holding, BroadcastTypes, Captured, Broadcast!NoLostCapture, Broadcast!CaptureHasPublisher
  <2> QED
    BY <2>2, <2>3, <2>4, <2>6
<1>4. CASE Broadcast!ControlStops
  <2>1. /\ UNCHANGED <<lease, requested, generation, config, task, session, live, begun, ending, calls, pings, overlooked>>
        /\ control.pc = "stop" /\ capturing' = capturing \ {control.capture}
        /\ control' = [pc |-> "idle", stream |-> 0, capture |-> 0]
    BY <1>4 DEF Broadcast!ControlStops, Broadcast!Idle
  <2>2. BroadcastTypes'
    BY <2>1 DEF BroadcastTypes, Asked
  <2>3. BroadcastFlags'
    BY <2>1, FlagsStay
  <2>4. Holding' /\ Numbered'
    BY <2>1 DEF Holding, Numbered, BroadcastTypes
  <2>5. capturing' \subseteq {ending}
    <3>1. 0 \notin capturing /\ live.capture = 0
      BY <2>1 DEF Holding, BroadcastTypes, Captured
    <3>2. capturing \subseteq {0, control.capture, ending}
      BY <3>1 DEF Broadcast!NoLostCapture
    <3> QED
      BY <2>1, <3>1, <3>2
  <2>6. Broadcast!NoLostCapture' /\ Broadcast!CaptureHasPublisher'
    BY <2>1, <2>5 DEF Broadcast!NoLostCapture, Broadcast!CaptureHasPublisher
  <2> QED
    BY <2>2, <2>3, <2>4, <2>6
<1>5. CASE Broadcast!KeepCapture
  <2>1. /\ UNCHANGED <<lease, requested, generation, config, task, session, live, capturing, begun, ending, calls, pings, overlooked>>
        /\ control.pc = "capture" /\ control' = [control EXCEPT !.pc = "config"]
    BY <1>5 DEF Broadcast!KeepCapture, Broadcast!Control
  <2>2. BroadcastTypes' /\ Holding' /\ Numbered'
    BY <2>1 DEF BroadcastTypes, Holding, Numbered
  <2>3. BroadcastFlags'
    BY <2>1, FlagsStay
  <2>4. control'.pc = "config" /\ control'.capture = control.capture
    BY <2>1 DEF BroadcastTypes
  <2>5. Broadcast!NoLostCapture' /\ Broadcast!CaptureHasPublisher'
    BY <2>1, <2>4 DEF Broadcast!NoLostCapture, Broadcast!CaptureHasPublisher
  <2> QED
    BY <2>2, <2>3, <2>5
<1>6. CASE Broadcast!TakeOld
  <2>1. /\ UNCHANGED <<lease, requested, generation, config, task, session, capturing, begun, ending, calls, pings, overlooked>>
        /\ control.pc = "capture" /\ live' = [Broadcast!Cleaned(live) EXCEPT !.capture = 0]
        /\ control' = [control EXCEPT !.pc = "replace", !.capture = Broadcast!Cleaned(live).capture]
    BY <1>6 DEF Broadcast!TakeOld
  <2>2. BroadcastTypes'
    BY <2>1, CleanedIs DEF BroadcastTypes
  <2>3. BroadcastFlags'
    BY <2>1, FlagsStay
  <2>4. live'.capture = 0
    BY <2>1, CleanedIs
  <2>5. control'.capture = Broadcast!Cleaned(live).capture /\ control'.pc = "replace"
    BY <2>1 DEF BroadcastTypes
  <2>6. Holding' /\ Numbered'
    BY <2>1, <2>4, <2>5 DEF Holding, Numbered
  <2>7. Broadcast!NoLostCapture' /\ Broadcast!CaptureHasPublisher'
    BY <2>1, <2>5, CleanedIs DEF Holding, BroadcastTypes, Captured, Broadcast!NoLostCapture, Broadcast!CaptureHasPublisher
  <2> QED
    BY <2>2, <2>3, <2>6, <2>7
<1> QED
  BY <1>1, <1>2, <1>3, <1>4, <1>5, <1>6

\* ... and from there to the publisher.
LEMMA ReplaceStep ==
    ASSUME BroadcastInv,
           Broadcast!Replace \/ Broadcast!ReplaceFails \/ Broadcast!Install \/ Broadcast!SetConfig
              \/ Broadcast!Bump \/ Broadcast!EnsureTask
    PROVE  BroadcastInv'
PROOF
<1> USE BroadcastBoundsAreNats
<1> USE DEF BroadcastInv, Broadcast!Nil
<1>1. CASE Broadcast!Replace
  <2>1. /\ UNCHANGED <<lease, requested, generation, config, task, session, live, ending, calls, pings, overlooked>>
        /\ control.pc = "replace" /\ begun' = [begun EXCEPT ![calls] = control.stream]
        /\ capturing' = (capturing \ {control.capture}) \cup {calls}
        /\ control' = [control EXCEPT !.pc = "install", !.capture = calls]
    BY <1>1 DEF Broadcast!Replace
  <2>2. calls \in Captured
    BY <2>1 DEF Numbered, BroadcastTypes, Captured
  <2>3. BroadcastTypes'
    BY <2>1, <2>2 DEF BroadcastTypes
  <2>4. BroadcastFlags'
    BY <2>1, FlagsStay
  <2>5. control'.pc = "install" /\ control'.capture = calls
    BY <2>1 DEF BroadcastTypes
  <2>6. Holding' /\ Numbered'
    BY <2>1, <2>5 DEF Holding, Numbered
  <2>7. Broadcast!NoLostCapture' /\ Broadcast!CaptureHasPublisher'
    BY <2>1, <2>5 DEF Broadcast!NoLostCapture, Broadcast!CaptureHasPublisher
  <2> QED
    BY <2>3, <2>4, <2>6, <2>7
<1>2. CASE Broadcast!ReplaceFails
  <2>1. /\ UNCHANGED <<lease, requested, generation, config, task, session, live, begun, ending, calls, pings, overlooked>>
        /\ control.pc = "replace" /\ capturing' = capturing \ {control.capture}
        /\ control' = [pc |-> "idle", stream |-> 0, capture |-> 0]
    BY <1>2 DEF Broadcast!ReplaceFails, Broadcast!Idle
  <2>2. BroadcastTypes'
    BY <2>1 DEF BroadcastTypes, Asked
  <2>3. BroadcastFlags'
    BY <2>1, FlagsStay
  <2>4. Holding' /\ Numbered'
    BY <2>1 DEF Holding, Numbered, BroadcastTypes
  <2>5. capturing' \subseteq {ending}
    <3>1. 0 \notin capturing /\ live.capture = 0
      BY <2>1 DEF Holding, BroadcastTypes, Captured
    <3>2. capturing \subseteq {0, control.capture, ending}
      BY <3>1 DEF Broadcast!NoLostCapture
    <3> QED
      BY <2>1, <3>1, <3>2
  <2>6. Broadcast!NoLostCapture' /\ Broadcast!CaptureHasPublisher'
    BY <2>1, <2>5 DEF Broadcast!NoLostCapture, Broadcast!CaptureHasPublisher
  <2> QED
    BY <2>2, <2>3, <2>4, <2>6
<1>3. CASE Broadcast!Install
  <2>1. /\ UNCHANGED <<lease, requested, generation, config, task, session, capturing, begun, ending, calls, pings, overlooked>>
        /\ control.pc = "install" /\ live' = [capture |-> control.capture, stream |-> control.stream]
        /\ control' = [control EXCEPT !.pc = "config", !.capture = 0]
    BY <1>3 DEF Broadcast!Install
  <2>2. BroadcastTypes'
    BY <2>1 DEF BroadcastTypes
  <2>3. BroadcastFlags'
    BY <2>1, FlagsStay
  <2>4. control'.pc = "config" /\ control'.capture = 0
    BY <2>1 DEF BroadcastTypes
  <2>5. Holding' /\ Numbered'
    BY <2>1, <2>4 DEF Holding, Numbered
  <2>6. Broadcast!NoLostCapture' /\ Broadcast!CaptureHasPublisher'
    BY <2>1, <2>4 DEF Holding, BroadcastTypes, Captured, Broadcast!NoLostCapture, Broadcast!CaptureHasPublisher
  <2> QED
    BY <2>2, <2>3, <2>5, <2>6
<1>4. CASE Broadcast!SetConfig \/ Broadcast!Bump
  <2>1. /\ UNCHANGED <<lease, requested, task, session, live, capturing, begun, ending, calls, pings, overlooked>>
        /\ control.pc \in {"config", "bump"}
        /\ \E pc \in {"task", "bump"} : control' = [control EXCEPT !.pc = pc]
        /\ config' \in {config, control.stream}
        /\ generation' \in {generation, generation + 1}
        /\ generation' = generation + 1 => control' = [control EXCEPT !.pc = "task"]
    BY <1>4 DEF Broadcast!SetConfig, Broadcast!Bump, Broadcast!Control, BroadcastTypes
  <2>2. BroadcastTypes'
    BY <2>1 DEF BroadcastTypes
  <2>3. BroadcastFlags'
    BY <2>1, FlagsStay
  <2>4. control'.pc \in {"task", "bump"} /\ control'.capture = control.capture
        /\ (generation' = generation + 1 => control'.pc = "task")
    BY <2>1 DEF BroadcastTypes
  <2>5. Holding' /\ Numbered'
    BY <2>1, <2>4 DEF Holding, Numbered, BroadcastTypes
  <2>6. Broadcast!NoLostCapture' /\ Broadcast!CaptureHasPublisher'
    BY <2>1, <2>4 DEF Broadcast!NoLostCapture, Broadcast!CaptureHasPublisher
  <2> QED
    BY <2>2, <2>3, <2>5, <2>6
<1>5. CASE Broadcast!EnsureTask
  <2>1. /\ UNCHANGED <<lease, requested, generation, config, session, live, capturing, begun, ending, calls, pings>>
        /\ control.pc = "task" /\ task' = (IF task = "none" THEN "loop" ELSE task)
        /\ control' = [pc |-> "idle", stream |-> 0, capture |-> 0]
        /\ overlooked' = (overlooked \/ task \in {"stopping", "returning"})
    BY <1>5 DEF Broadcast!EnsureTask, Broadcast!Spawn, Broadcast!Idle
  <2>2. BroadcastTypes'
    BY <2>1 DEF BroadcastTypes, Asked
  <2>3. BroadcastFlags'
    BY <2>1, FlagsStay
  <2>4. Holding' /\ Numbered'
    BY <2>1 DEF Holding, Numbered
  <2>5. Broadcast!NoLostCapture'
    BY <2>1 DEF Holding, Broadcast!NoLostCapture
  <2>6. task \notin {"stopping", "returning"} => task' \in {"loop", "configured", "session", "off"}
    BY <2>1 DEF BroadcastTypes
  <2>7. ~overlooked' => task \notin {"stopping", "returning"}
    BY <2>1, Zenon
  <2>8. Broadcast!CaptureHasPublisher'
    BY <2>6, <2>7 DEF Broadcast!CaptureHasPublisher
  <2> QED
    BY <2>2, <2>3, <2>4, <2>5, <2>8
<1> QED
  BY <1>1, <1>2, <1>3, <1>4, <1>5

LEMMA PublisherStep ==
    ASSUME BroadcastInv, Broadcast!PublisherStep
    PROVE  BroadcastInv'
PROOF
<1> USE BroadcastBoundsAreNats
<1> USE DEF BroadcastInv, Broadcast!Nil
<1>1. CASE Broadcast!ReadConfig \/ Broadcast!ReadGeneration \/ Broadcast!SessionTick \/ Broadcast!SessionEnds
             \/ Broadcast!LoopEnds
  <2>1. /\ UNCHANGED <<lease, generation, config, live, capturing, begun, control, ending, calls, pings, overlooked>>
        /\ requested' \in {requested, TRUE, FALSE}
        /\ task \in {"loop", "configured", "session"} /\ task' \in {"loop", "configured", "session", "off"}
    BY <1>1 DEF Broadcast!ReadConfig, Broadcast!ReadGeneration, Broadcast!SessionTick, Broadcast!SessionEnds,
                Broadcast!LoopEnds
  <2>2. session' \in [stream : Asked, generation : 0..(2 * MaxRenewals + 1)]
    <3>1. session' \in {session, [session EXCEPT !.stream = config], [session EXCEPT !.generation = generation],
                        [stream |-> 0, generation |-> 0]}
      BY <1>1 DEF Broadcast!ReadConfig, Broadcast!ReadGeneration, Broadcast!SessionTick, Broadcast!SessionEnds,
                  Broadcast!LoopEnds, Broadcast!NoSession
    <3>2. generation \in 0..(2 * MaxRenewals + 1)
      BY DEF BroadcastTypes, Numbered
    <3> QED
      BY <3>1, <3>2 DEF BroadcastTypes, Asked
  <2>3. BroadcastTypes'
    BY <2>1, <2>2 DEF BroadcastTypes
  <2>4. BroadcastFlags'
    BY <2>1, FlagsStay
  <2>5. Holding' /\ Numbered' /\ Broadcast!NoLostCapture' /\ Broadcast!CaptureHasPublisher'
    BY <2>1 DEF Holding, Numbered, Broadcast!NoLostCapture, Broadcast!CaptureHasPublisher
  <2> QED
    BY <2>3, <2>4, <2>5
<1>2. CASE Broadcast!PublisherTakes
  <2>1. /\ UNCHANGED <<lease, requested, generation, config, session, capturing, begun, control, calls, pings, overlooked>>
        /\ task = "off" /\ task' = "stopping" /\ ending' = Broadcast!Cleaned(live).capture
        /\ live' = [capture |-> 0, stream |-> 0]
    BY <1>2 DEF Broadcast!PublisherTakes, Broadcast!NoLive
  <2>2. BroadcastTypes'
    BY <2>1, CleanedIs DEF BroadcastTypes, Asked
  <2>3. BroadcastFlags'
    BY <2>1, FlagsStay
  <2>4. Holding' /\ Numbered'
    BY <2>1 DEF Holding, Numbered
  <2>5. Broadcast!NoLostCapture' /\ Broadcast!CaptureHasPublisher'
    BY <2>1, CleanedIs DEF Holding, BroadcastTypes, Captured, Broadcast!NoLostCapture, Broadcast!CaptureHasPublisher
  <2> QED
    BY <2>2, <2>3, <2>4, <2>5
<1>3. CASE Broadcast!PublisherStops
  <2>1. /\ UNCHANGED <<lease, requested, generation, config, session, live, begun, control, calls, pings, overlooked>>
        /\ task = "stopping" /\ task' = "returning" /\ capturing' = capturing \ {ending} /\ ending' = 0
    BY <1>3 DEF Broadcast!PublisherStops
  <2>2. BroadcastTypes'
    BY <2>1 DEF BroadcastTypes
  <2>3. BroadcastFlags'
    BY <2>1, FlagsStay
  <2>4. Holding' /\ Numbered' /\ Broadcast!NoLostCapture' /\ Broadcast!CaptureHasPublisher'
    BY <2>1 DEF Holding, Numbered, Broadcast!NoLostCapture, Broadcast!CaptureHasPublisher
  <2> QED
    BY <2>2, <2>3, <2>4
<1>4. CASE Broadcast!PublisherReturns
  <2>1. /\ UNCHANGED <<lease, requested, generation, config, session, live, capturing, begun, control, ending, calls, pings, overlooked>>
        /\ task = "returning" /\ task' = "none"
    BY <1>4 DEF Broadcast!PublisherReturns
  <2>2. BroadcastTypes' /\ Holding' /\ Numbered' /\ Broadcast!NoLostCapture' /\ Broadcast!CaptureHasPublisher'
    BY <2>1 DEF BroadcastTypes, Holding, Numbered, Broadcast!NoLostCapture, Broadcast!CaptureHasPublisher
  <2>3. BroadcastFlags'
    BY <2>1, FlagsStay
  <2> QED
    BY <2>2, <2>3
<1> QED
  BY <1>1, <1>2, <1>3, <1>4 DEF Broadcast!PublisherStep

LEMMA BroadcastSafety == ASSUME BroadcastInv PROVE BroadcastSafe
PROOF
<1>1. Broadcast!TypeOK
  <2>1. lease \in BOOLEAN /\ requested \in BOOLEAN /\ overlooked \in BOOLEAN
    BY Zenon DEF BroadcastInv, BroadcastFlags
  <2>2. generation \in 1..(2 * MaxRenewals + 1)
    BY BroadcastBoundsAreNats DEF BroadcastInv, BroadcastTypes, Numbered
  <2> QED
    BY <2>1, <2>2 DEF BroadcastInv, BroadcastTypes, Broadcast!TypeOK, Asked, Captured, Broadcast!Nil, Broadcast!Captures
<1> QED
  BY <1>1 DEF BroadcastInv, BroadcastSafe

(* No capture of the screen escapes its owners or outlives the lease: however  *)
(* the calls of the broadcast, the publisher's steps and the end of the lease  *)
(* interleave, a capture that runs is held by the manager, by a call that      *)
(* replaces it or by the publisher that stops it, and a held one has a         *)
(* publisher that ends it (live_sfu.rs, control and publisher_loop).           *)
THEOREM NoCaptureEscapes == Spec => []BroadcastSafe
PROOF
<1> DEFINE Inv == part = "broadcast" => BroadcastInv
<1>1. Init => Inv
  BY BroadcastInit DEF Init
<1>2. Inv /\ [Next]_vars => Inv'
  <2> SUFFICES ASSUME Inv, [Next]_vars, part' = "broadcast"
               PROVE  BroadcastInv'
    OBVIOUS
  <2>1. CASE BroadcastNext
    BY <2>1, TimeStep, CallStep, ReplaceStep, PublisherStep
       DEF BroadcastNext, Broadcast!Next, Broadcast!ControlStep
  <2>2. CASE RecorderNext \/ ClipsNext \/ UpdatesNext \/ WindowNext
    BY <2>2 DEF RecorderNext, ClipsNext, UpdatesNext, WindowNext
  <2>3. CASE UNCHANGED vars
    <3>1. part = "broadcast" /\ UNCHANGED broadcastVars
      BY <2>3 DEF vars
    <3>2. BroadcastInv
      BY <3>1
    <3>3. BroadcastTypes' /\ Holding' /\ Numbered' /\ Broadcast!NoLostCapture' /\ Broadcast!CaptureHasPublisher'
      BY <3>1, <3>2 DEF broadcastVars, BroadcastInv, BroadcastTypes, Holding, Numbered, Broadcast!NoLostCapture,
                        Broadcast!CaptureHasPublisher
    <3>4. BroadcastFlags'
      BY <3>1, <3>2, FlagsStay DEF broadcastVars, BroadcastInv
    <3> QED
      BY <3>3, <3>4 DEF BroadcastInv
  <2> QED
    BY <2>1, <2>2, <2>3 DEF Next
<1>3. Inv => BroadcastSafe
  BY BroadcastSafety DEF BroadcastSafe
<1> QED
  BY <1>1, <1>2, <1>3, PTL DEF Spec, vars

-------------------------------------------------------------------------------
(* The updater                                                                *)

Releases == Targets \cup {Shipped}
Checkers == {"auto", "manual"}
Missing == [label |-> [version |-> 0, channel |-> "none", seq |-> 0], build |-> 0, commit |-> 0]
IdentityFiles == {Missing} \cup {Updates!IdentityOf(t) : t \in Releases}
JobsOf == [pc : {"idle", "fetch", "gate", "download", "leave"}, channel : {"stable", "beta"}, target : Releases]
ScriptStages == {"none", "wait", "backup", "identity", "executable", "start", "restore"}
ScriptsOf == [stage : ScriptStages, target : Releases, saved : [binary : Releases, file : IdentityFiles]]

UpdateTypes ==
    /\ published \in Targets /\ channel \in {"stable", "beta"}
    /\ proc \in {"up", "down"}
    /\ running \in Releases /\ binary \in Releases
    /\ file \in IdentityFiles
    /\ job \in [Checkers -> JobsOf]
    /\ script \in [Checkers -> ScriptsOf]
UpdateCounts == changes \in 0..MaxChanges /\ faults \in 0..MaxFaults
UpdateFlags == mutex \in BOOLEAN /\ torn \in BOOLEAN

\* The identity is of that release's build; without a file it is the installer's.
Matches(f, t) == f.build = t.build /\ f.commit = t.commit
Fit(f, t) == IF f = Missing THEN t = Shipped ELSE Matches(f, t)

\* A process runs the installed binary, and only a process checks.
Process ==
    /\ proc = "up" => running = binary
    /\ proc = "down" => \A k \in Checkers : job[k].pc = "idle"

\* Between the copy of the identity and that of the executable, or while both are
\* put back, the file is not of the binary.
Between == \E k \in Checkers : script[k].stage \in {"executable", "restore"}
Placed ==
    /\ \A j, k \in Checkers : script[j].stage # "none" /\ script[k].stage # "none" => j = k
    /\ ~Between => Fit(file, binary)
    /\ \A k \in Checkers :
          /\ script[k].stage = "executable" => Matches(file, script[k].target)
          /\ script[k].stage \in {"identity", "executable", "start", "restore"}
                => Fit(script[k].saved.file, script[k].saved.binary)
          /\ script[k].stage = "restore" => script[k].saved.file # Missing
\* What a check has weighed against the installed identity is another release.
Chosen == ~Between => \A k \in Checkers : Updates!Weighed(k) => job[k].target # running
Staged == Placed /\ Chosen

UpdatesInv == UpdateTypes /\ UpdateCounts /\ UpdateFlags /\ Process /\ (~torn => Staged)

LEMMA ReleaseIs ==
    ASSUME NEW t \in Releases
    PROVE  /\ t.build \in Nat /\ t.build # 0 /\ t.commit # 0 /\ t.label.seq \in Nat
           /\ Updates!IdentityOf(t) \in IdentityFiles /\ Updates!IdentityOf(t) # Missing
           /\ Matches(Updates!IdentityOf(t), t) /\ Updates!IdentityOf(t).label = t.label
PROOF
<1>1. t.build \in Nat /\ t.build # 0 /\ t.commit # 0 /\ t.label.seq \in Nat
  BY ReleasesAreKnown DEF Releases
<1>2. Updates!IdentityOf(t) = [label |-> t.label, build |-> t.build, commit |-> t.commit]
  BY DEF Updates!IdentityOf
<1>3. Updates!IdentityOf(t).build # Missing.build
  BY <1>1, <1>2 DEF Missing
<1> QED
  BY <1>1, <1>2, <1>3 DEF IdentityFiles, Matches

LEMMA UpdatesInit == Updates!Init => UpdatesInv
PROOF
<1> SUFFICES ASSUME Updates!Init
             PROVE  UpdatesInv
  OBVIOUS
<1> USE DEF Updates!Init
<1>0. /\ Updates!Tasks = Checkers /\ Updates!NoFile = Missing /\ Shipped \in Releases
      /\ Missing \in IdentityFiles
  BY DEF Updates!Tasks, Checkers, Updates!NoFile, Updates!NoLabel, Updates!Nil, Missing, Releases, IdentityFiles
<1>1. Updates!Idle \in JobsOf /\ Updates!Idle.pc = "idle" /\ Updates!NoScript \in ScriptsOf
      /\ Updates!NoScript.stage = "none"
  BY <1>0 DEF Updates!Idle, Updates!NoScript, Updates!NoBackup, JobsOf, ScriptsOf, ScriptStages
<1>2. job = [k \in Checkers |-> Updates!Idle] /\ script = [k \in Checkers |-> Updates!NoScript]
  BY <1>0
<1>3. file \in IdentityFiles /\ Fit(file, Shipped)
  BY <1>0, ReleaseIs DEF Fit
<1>4. published \in Targets /\ channel \in {"stable", "beta"} /\ proc = "up" /\ running = Shipped /\ binary = Shipped
  BY DEF Updates!Channels
<1>5. UpdateCounts
  BY ReleasesAreKnown DEF UpdateCounts
<1>6. UpdateFlags
  BY Zenon DEF UpdateFlags
<1> HIDE DEF Updates!Init
<1>7. UpdateTypes
  BY <1>0, <1>1, <1>2, <1>3, <1>4 DEF UpdateTypes
<1>8. Process
  BY <1>4 DEF Process
<1>9. Staged
  BY <1>1, <1>2, <1>3, <1>4 DEF Staged, Placed, Chosen, Between, Updates!Weighed
<1> QED
  BY <1>5, <1>6, <1>7, <1>8, <1>9 DEF UpdatesInv

-------------------------------------------------------------------------------
\* What a step leaves alone.
LEMMA StagedKept ==
    ASSUME Staged, UNCHANGED <<file, binary, running, script>>,
           \A k \in Checkers : Updates!Weighed(k)' => Updates!Weighed(k) /\ job'[k].target = job[k].target
    PROVE  Staged'
PROOF
  BY DEF Staged, Placed, Chosen, Between

LEMMA Updating == Updates!Tasks = Checkers /\ Updates!Releases = Releases /\ Updates!NoFile = Missing /\ Updates!Nil = 0
PROOF
  BY DEF Updates!Tasks, Checkers, Updates!Releases, Releases, Updates!NoFile, Updates!NoLabel, Updates!Nil, Missing

\* Jobs that only begin, end or go on with the target they have.
LEMMA JobMoves ==
    ASSUME UpdatesInv, NEW k \in Checkers, NEW r \in JobsOf, job' = [job EXCEPT ![k] = r],
           r.pc \in {"gate", "download", "leave"} => Updates!Weighed(k) /\ r.target = job[k].target,
           r.pc # "idle" => proc' = "up",
           UNCHANGED <<file, binary, running, script, torn, proc>>, published' \in Targets,
           channel' \in {"stable", "beta"}, mutex' \in BOOLEAN, changes' \in 0..MaxChanges, UNCHANGED faults
    PROVE  UpdatesInv'
PROOF
<1>1. UpdateTypes /\ Process
  BY DEF UpdatesInv
<1>2. UpdateTypes'
  BY <1>1 DEF UpdateTypes
<1>3. Process'
  BY <1>1 DEF Process, UpdateTypes
<1>4. UpdateCounts'
  BY DEF UpdatesInv, UpdateCounts
<1>5. UpdateFlags'
  BY Zenon DEF UpdatesInv, UpdateFlags
<1>6. ~torn' => Staged'
  <2>1. \A j \in Checkers : Updates!Weighed(j)' => Updates!Weighed(j) /\ job'[j].target = job[j].target
    BY <1>1 DEF Updates!Weighed, UpdateTypes
  <2> QED
    BY <2>1, StagedKept DEF UpdatesInv
<1> QED
  BY <1>2, <1>3, <1>4, <1>5, <1>6 DEF UpdatesInv

LEMMA JobIs ==
    ASSUME UpdateTypes, NEW k \in Checkers
    PROVE  job[k] \in JobsOf /\ script[k] \in ScriptsOf
PROOF
  BY DEF UpdateTypes

LEMMA ServerStep ==
    ASSUME UpdatesInv,
           \/ \E t \in Targets : Updates!Publish(t)
           \/ \E c \in Updates!Channels : Updates!SaveConfig(c)
           \/ Updates!AutoCheck \/ Updates!ManualCheck
    PROVE  UpdatesInv'
PROOF
<1>0. UpdateTypes /\ UpdateCounts /\ UpdateFlags /\ Process
  BY DEF UpdatesInv
<1>1. /\ UNCHANGED <<file, binary, running, script, torn, proc, mutex, faults>>
      /\ published' \in Targets /\ channel' \in {"stable", "beta"} /\ changes' \in 0..MaxChanges
  <2>1. UNCHANGED <<file, binary, running, script, torn, proc, mutex, faults>>
    BY DEF Updates!Publish, Updates!SaveConfig, Updates!AutoCheck, Updates!ManualCheck, Updates!Install
  <2>2. /\ published' = published \/ published' \in Targets
        /\ channel' = channel \/ channel' \in {"stable", "beta"}
        /\ changes' = changes \/ (changes < MaxChanges /\ changes' = changes + 1)
    <3>1. CASE \E t \in Targets : Updates!Publish(t)
      BY <3>1 DEF Updates!Publish
    <3>2. CASE \E c \in Updates!Channels : Updates!SaveConfig(c)
      BY <3>2 DEF Updates!SaveConfig, Updates!Channels
    <3>3. CASE Updates!AutoCheck \/ Updates!ManualCheck
      BY <3>3 DEF Updates!AutoCheck, Updates!ManualCheck, Updates!Config
    <3> QED
      BY <3>1, <3>2, <3>3
  <2>3. changes' \in 0..MaxChanges
    BY <1>0, <2>2, ReleasesAreKnown DEF UpdateCounts
  <2>4. published' \in Targets /\ channel' \in {"stable", "beta"}
    BY <1>0, <2>2 DEF UpdateTypes
  <2> QED
    BY <2>1, <2>3, <2>4
<1>2. mutex' \in BOOLEAN
  BY <1>0, <1>1, Zenon DEF UpdateFlags
<1>3. CASE UNCHANGED job
  <2>1. job' = [job EXCEPT !["auto"] = job["auto"]] /\ job["auto"] \in JobsOf
    BY <1>0, <1>3, JobIs DEF UpdateTypes, Checkers
  <2>2. job["auto"].pc # "idle" => proc' = "up"
    BY <1>0, <1>1 DEF Process, UpdateTypes, Checkers
  <2>3. job["auto"].pc \in {"gate", "download", "leave"} => Updates!Weighed("auto")
    BY DEF Updates!Weighed
  <2> QED
    BY <1>1, <1>2, <2>1, <2>2, <2>3, JobMoves DEF Checkers
<1>4. ASSUME NEW k \in Checkers, NEW c \in {"stable", "beta"}, proc = "up",
             job' = [job EXCEPT ![k] = [pc |-> "fetch", channel |-> c, target |-> Shipped]]
      PROVE  UpdatesInv'
  <2>1. [pc |-> "fetch", channel |-> c, target |-> Shipped] \in JobsOf
    BY DEF JobsOf, Releases
  <2> QED
    BY <1>1, <1>2, <1>4, <2>1, JobMoves
<1>5. CASE Updates!AutoCheck
  BY <1>0, <1>4, <1>5 DEF Updates!AutoCheck, UpdateTypes, Checkers
<1>6. CASE Updates!ManualCheck
  BY <1>4, <1>6 DEF Updates!ManualCheck, Checkers
<1> QED
  BY <1>3, <1>5, <1>6 DEF Updates!Publish, Updates!SaveConfig

LEMMA EndedIs ==
    ASSUME NEW k \in Checkers, Updates!Ended(k)
    PROVE  job' = [job EXCEPT ![k] = Updates!Idle] /\ Updates!Idle \in JobsOf /\ Updates!Idle.pc = "idle"
PROOF
  BY DEF Updates!Ended, Updates!Idle, JobsOf, Releases

LEMMA CheckStep ==
    ASSUME UpdatesInv, NEW k \in Checkers,
           Updates!FetchFails(k) \/ Updates!Gate(k) \/ Updates!DownloadFails(k)
    PROVE  UpdatesInv'
PROOF
<1>0. UpdateTypes /\ UpdateCounts /\ UpdateFlags /\ Process
  BY DEF UpdatesInv
<1>1. UNCHANGED <<published, channel, changes, file, binary, running, script, torn, proc, mutex, faults>>
  BY DEF Updates!FetchFails, Updates!Gate, Updates!DownloadFails, Updates!Install, Updates!Config
<1>2. published' \in Targets /\ channel' \in {"stable", "beta"} /\ changes' \in 0..MaxChanges
  BY <1>0, <1>1 DEF UpdateTypes, UpdateCounts
<1>3. mutex' \in BOOLEAN
  BY <1>0, <1>1, Zenon DEF UpdateFlags
<1>4. CASE Updates!Ended(k)
  BY <1>1, <1>2, <1>3, <1>4, EndedIs, JobMoves
<1>5. CASE job[k].pc = "gate" /\ job' = [job EXCEPT ![k].pc = "download"]
  <2> DEFINE r == [job[k] EXCEPT !.pc = "download"]
  <2>1. r \in JobsOf /\ r.pc = "download" /\ r.target = job[k].target /\ Updates!Weighed(k)
    BY <1>0, <1>5, JobIs DEF JobsOf, Updates!Weighed
  <2>2. job' = [job EXCEPT ![k] = r]
    BY <1>5
  <2>3. proc' = "up"
    BY <1>0, <1>1, <1>5 DEF Process, UpdateTypes
  <2> HIDE DEF r
  <2> QED
    BY <1>1, <1>2, <1>3, <2>1, <2>2, <2>3, JobMoves
<1> QED
  BY <1>4, <1>5 DEF Updates!FetchFails, Updates!Gate, Updates!DownloadFails

-------------------------------------------------------------------------------
(* The manifest against the installed identity.                               *)

\* An identity that fits is the build that runs.
LEMMA InstalledIs ==
    ASSUME UpdateTypes, NEW t \in Releases, running = t \/ Matches(file, t), Fit(file, t)
    PROVE  Updates!Installed(file).build = t.build /\ Updates!Installed(file).commit = t.commit
PROOF
<1>1. /\ Updates!Installed(file).build = IF file.build = 0 THEN running.exe.build ELSE file.build
      /\ Updates!Installed(file).commit = IF file.commit = 0 THEN running.exe.commit ELSE file.commit
  BY DEF Updates!Installed, Updates!Nil
<1>2. t.build # 0 /\ t.commit # 0
  BY ReleaseIs
<1>3. CASE file = Missing /\ running = t
  BY <1>1, <1>3, InstallerIsPromoted DEF Fit, Missing
<1>4. CASE Matches(file, t)
  BY <1>1, <1>2, <1>4 DEF Matches
<1> QED
  BY <1>3, <1>4 DEF Fit

\* A manifest of the build that runs renews the identity and describes it.
LEMMA RenewedFits ==
    ASSUME UpdateTypes, NEW t \in Releases, running = t \/ Matches(file, t), Fit(file, t)
    PROVE  /\ Updates!SameBuild(published) => Matches(Updates!IdentityOf(published), t)
           /\ published = t => Updates!SameBuild(published)
PROOF
<1>1. Updates!Installed(file).build = t.build /\ Updates!Installed(file).commit = t.commit
  BY InstalledIs
<1>2. published \in Releases
  BY DEF UpdateTypes, Releases
<1> QED
  BY <1>1, <1>2, ReleaseIs DEF Updates!SameBuild, Matches, Updates!Nil

\* No release is newer than itself.
LEMMA NotNewerThanItself ==
    ASSUME UpdateTypes, NEW c
    PROVE  ~Updates!Newer(running, running.version, Updates!Installed(Updates!IdentityOf(running)), c)
PROOF
<1>1. running \in Releases
  BY DEF UpdateTypes
<1> DEFINE l == Updates!Installed(Updates!IdentityOf(running)).label
<1>2. /\ running.build \in Nat /\ running.label.seq \in Nat /\ running.build # 0
      /\ Updates!IdentityOf(running) = [label |-> running.label, build |-> running.build, commit |-> running.commit]
  BY <1>1, ReleaseIs DEF Updates!IdentityOf
<1>3. Updates!Installed(Updates!IdentityOf(running)).build = running.build
  BY <1>2 DEF Updates!Installed, Updates!Nil
<1>4. running.label # Updates!NoLabel => l = running.label
  BY <1>2 DEF Updates!Installed
<1>5. CASE running.label = Updates!NoLabel
  <2>1. Updates!Sequence(running.label, running.version, c) = 0
    BY <1>5 DEF Updates!Sequence, Updates!NoLabel, Updates!Nil
  <2> QED
    BY <1>2, <1>3, <2>1 DEF Updates!Newer, Updates!Nil
<1>6. CASE running.label # Updates!NoLabel
  <2>1. l = running.label
    BY <1>4, <1>6
  <2>2. Updates!Sequence(running.label, running.version, c) \in Nat
    BY <1>2 DEF Updates!Sequence, Updates!Nil
  <2> HIDE DEF l
  <2>3. Updates!Newer(running, running.version, Updates!Installed(Updates!IdentityOf(running)), c)
          => \/ Updates!Sequence(running.label, running.version, c) > Updates!Sequence(l, running.version, c)
             \/ running.build > Updates!Installed(Updates!IdentityOf(running)).build
    BY DEF Updates!Newer, l
  <2> QED
    BY <1>2, <1>3, <2>1, <2>2, <2>3
<1> QED
  BY <1>5, <1>6

LEMMA FetchedStep ==
    ASSUME UpdatesInv, NEW k \in Checkers, Updates!Fetched(k)
    PROVE  UpdatesInv'
PROOF
<1>0. UpdateTypes /\ UpdateCounts /\ UpdateFlags /\ Process
  BY DEF UpdatesInv
<1>1. /\ job[k].pc = "fetch"
      /\ file' = IF Updates!SameBuild(published) THEN Updates!IdentityOf(published) ELSE file
      /\ UNCHANGED <<published, channel, changes, binary, running, script, torn, proc, mutex, faults>>
  BY DEF Updates!Fetched, Updates!Install, Updates!Config, Updates!Persisted
<1>2. \/ /\ Updates!ShouldApply(published, file', job[k].channel)
         /\ job' = [job EXCEPT ![k] = [pc |-> "gate", channel |-> job[k].channel, target |-> published]]
      \/ job' = [job EXCEPT ![k] = Updates!Idle]
  <2>1. CASE Updates!ShouldApply(published, file', job[k].channel)
    <3>1. job' = [job EXCEPT ![k].pc = "gate", ![k].target = published]
      BY <2>1 DEF Updates!Fetched
    <3> DEFINE t == [job EXCEPT ![k].pc = "gate"]
    <3>2. job[k] \in JobsOf /\ DOMAIN job = Checkers
      BY <1>0, JobIs DEF UpdateTypes
    <3>3. t[k] = [job[k] EXCEPT !.pc = "gate"] /\ DOMAIN t = Checkers /\ \A e \in Checkers : e # k => t[e] = job[e]
      BY <3>2
    <3>4. [job[k] EXCEPT !.pc = "gate"] = [pc |-> "gate", channel |-> job[k].channel, target |-> job[k].target]
      BY <3>2 DEF JobsOf
    <3>5. [[pc |-> "gate", channel |-> job[k].channel, target |-> job[k].target] EXCEPT !.target = published]
              = [pc |-> "gate", channel |-> job[k].channel, target |-> published]
      OBVIOUS
    <3>6. job' = [t EXCEPT ![k] = [t[k] EXCEPT !.target = published]]
      BY <3>1
    <3> HIDE DEF t
    <3>7. job' = [t EXCEPT ![k] = [pc |-> "gate", channel |-> job[k].channel, target |-> published]]
      BY <3>3, <3>4, <3>5, <3>6, Zenon
    <3> DEFINE r == [pc |-> "gate", channel |-> job[k].channel, target |-> published]
    <3>8. job' = [t EXCEPT ![k] = r]
      BY <3>7
    <3> HIDE DEF r
    <3>9. job' = [job EXCEPT ![k] = r]
      BY <3>2, <3>3, <3>8
    <3> QED
      BY <2>1, <3>9 DEF r
  <2>2. CASE ~Updates!ShouldApply(published, file', job[k].channel)
    BY <2>2, EndedIs DEF Updates!Fetched
  <2> QED
    BY <2>1, <2>2
<1>3. published \in Releases /\ job[k] \in JobsOf /\ binary \in Releases
  BY <1>0, JobIs DEF UpdateTypes, Releases
<1>4. file' \in IdentityFiles
  BY <1>0, <1>1, <1>3, ReleaseIs DEF UpdateTypes
<1>5. job' \in [Checkers -> JobsOf]
  <2>1. [pc |-> "gate", channel |-> job[k].channel, target |-> published] \in JobsOf
    BY <1>3 DEF JobsOf
  <2>2. Updates!Idle \in JobsOf
    BY DEF Updates!Idle, JobsOf, Releases
  <2> QED
    BY <1>0, <1>2, <2>1, <2>2 DEF UpdateTypes
<1>6. proc = "up" /\ running = binary
  BY <1>0, <1>1 DEF Process, UpdateTypes
<1>7. UpdateTypes' /\ UpdateCounts' /\ Process'
  BY <1>0, <1>1, <1>4, <1>5, <1>6 DEF UpdateTypes, UpdateCounts, Process
<1>8. UpdateFlags'
  BY <1>0, <1>1, Zenon DEF UpdateFlags
<1>9. ASSUME ~torn'
      PROVE  Staged'
  <2>1. Placed /\ Chosen
    BY <1>1, <1>9, Zenon DEF UpdatesInv, Staged
  <2>2. ~Between => Fit(file', binary)
    <3>1. ASSUME ~Between, Updates!SameBuild(published)
          PROVE  Fit(file', binary)
      <4>1. Matches(Updates!IdentityOf(published), binary)
        BY <1>0, <1>3, <1>6, <2>1, <3>1, RenewedFits DEF Placed
      <4> QED
        BY <1>1, <1>3, <3>1, <4>1, ReleaseIs DEF Fit
    <3> QED
      BY <1>1, <2>1, <3>1 DEF Placed
  <2>3. ASSUME NEW j \in Checkers, script[j].stage = "executable"
        PROVE  Matches(file', script[j].target)
    <3>1. script[j].target \in Releases /\ Matches(file, script[j].target)
      BY <1>0, <2>1, <2>3, JobIs DEF ScriptsOf, Placed
    <3>2. Fit(file, script[j].target)
      BY <3>1, ReleaseIs DEF Fit, Matches, Missing
    <3>3. Updates!SameBuild(published) => Matches(Updates!IdentityOf(published), script[j].target)
      BY <1>0, <3>1, <3>2, RenewedFits
    <3> QED
      BY <1>1, <3>1, <3>3
  <2>4. Between' = Between
    BY <1>1 DEF Between
  <2>5. Placed'
    BY <1>1, <2>1, <2>2, <2>3, <2>4 DEF Placed
  <2>6. ASSUME ~Between, Updates!ShouldApply(published, file', job[k].channel)
        PROVE  published # running
    <3>1. SUFFICES ASSUME published = running PROVE FALSE
      OBVIOUS
    <3>2. Updates!SameBuild(published)
      BY <1>0, <1>3, <1>6, <2>1, <2>6, <3>1, RenewedFits DEF Placed
    <3>3. file' = Updates!IdentityOf(running)
      BY <1>1, <3>1, <3>2
    <3>4. Updates!Newer(running, running.version, Updates!Installed(Updates!IdentityOf(running)), job[k].channel)
      BY <2>6, <3>1, <3>3 DEF Updates!ShouldApply
    <3> QED
      BY <1>0, <3>4, NotNewerThanItself
  <2>7. ASSUME ~Between, NEW j \in Checkers, Updates!Weighed(j)'
        PROVE  job'[j].target # running
    <3>1. CASE j # k
      <4>1. job'[j] = job[j]
        BY <1>0, <1>2, <3>1 DEF UpdateTypes
      <4> QED
        BY <2>1, <2>7, <4>1 DEF Chosen, Updates!Weighed
    <3>2. CASE j = k
      <4>1. job'[k].pc # "idle"
        BY <2>7, <3>2 DEF Updates!Weighed
      <4>2. Updates!ShouldApply(published, file', job[k].channel) /\ job'[k].target = published
        BY <1>0, <1>2, <4>1 DEF UpdateTypes, Updates!Idle
      <4> QED
        BY <2>6, <2>7, <3>2, <4>2
    <3> QED
      BY <3>1, <3>2
  <2>8. Chosen'
    BY <1>1, <2>4, <2>7 DEF Chosen
  <2> QED
    BY <2>5, <2>8 DEF Staged
<1> QED
  BY <1>7, <1>8, <1>9 DEF UpdatesInv

-------------------------------------------------------------------------------
(* The download, and the life of the process.                                 *)

LEMMA ChosenKept ==
    ASSUME Chosen, UNCHANGED <<job, running>>, Between => Between'
    PROVE  Chosen'
PROOF
  BY DEF Chosen, Updates!Weighed

LEMMA NothingChosen ==
    ASSUME \A k \in Checkers : job'[k].pc = "idle"
    PROVE  Chosen'
PROOF
  BY DEF Chosen, Updates!Weighed

\* The script of a check goes on, when no other runs.
LEMMA PlacedFor ==
    ASSUME UpdateTypes, NEW k \in Checkers, NEW r \in ScriptsOf, script' = [script EXCEPT ![k] = r],
           \A j \in Checkers : j # k => script[j].stage = "none",
           r.stage \notin {"executable", "restore"} => Fit(file', binary'),
           r.stage = "executable" => Matches(file', r.target),
           r.stage \in {"identity", "executable", "start", "restore"} => Fit(r.saved.file, r.saved.binary),
           r.stage = "restore" => r.saved.file # Missing
    PROVE  /\ Placed' /\ script' \in [Checkers -> ScriptsOf]
           /\ Between' <=> r.stage \in {"executable", "restore"}
PROOF
<1>1. script' \in [Checkers -> ScriptsOf]
  BY DEF UpdateTypes
<1>2. script'[k] = r /\ \A j \in Checkers : j # k => script'[j].stage = "none"
  BY DEF UpdateTypes
<1>3. Between' <=> r.stage \in {"executable", "restore"}
  BY <1>2 DEF Between
<1> QED
  BY <1>1, <1>2, <1>3 DEF Placed

LEMMA PlacedIs ==
    ASSUME UpdateTypes, NEW k \in Checkers, script[k].stage # "none", Placed
    PROVE  /\ \A j \in Checkers : j # k => script[j].stage = "none"
           /\ script[k].stage \notin {"executable", "restore"} => ~Between /\ Fit(file, binary)
           /\ script[k].stage \in {"executable", "restore"} => Between
           /\ script[k].stage = "executable" => Matches(file, script[k].target)
           /\ script[k].stage \in {"identity", "executable", "start", "restore"}
                => Fit(script[k].saved.file, script[k].saved.binary)
           /\ script[k].stage = "restore" => script[k].saved.file # Missing
PROOF
<1>1. \A j \in Checkers : j # k => script[j].stage = "none"
  BY DEF Placed
<1> QED
  BY <1>1 DEF Placed, Between

LEMMA DownloadedStep ==
    ASSUME UpdatesInv, NEW k \in Checkers, Updates!Downloaded(k)
    PROVE  UpdatesInv'
PROOF
<1>0. UpdateTypes /\ UpdateCounts /\ UpdateFlags /\ Process
  BY DEF UpdatesInv
<1>1. /\ job[k].pc = "download" /\ script[k].stage = "none"
      /\ UNCHANGED <<published, channel, changes, file, proc, running, binary, faults>>
  BY DEF Updates!Downloaded, Updates!Config
<1>2. published' \in Targets /\ channel' \in {"stable", "beta"} /\ changes' \in 0..MaxChanges
  BY <1>0, <1>1 DEF UpdateTypes, UpdateCounts
<1>3. CASE mutex
  <2>1. Updates!Ended(k) /\ UNCHANGED <<mutex, script, torn>>
    BY <1>3 DEF Updates!Downloaded
  <2>2. mutex' \in BOOLEAN
    BY <1>0, <2>1, Zenon DEF UpdateFlags
  <2> QED
    BY <1>1, <1>2, <2>1, <2>2, EndedIs, JobMoves
<1>4. CASE ~mutex
  <2> DEFINE r == [stage |-> "wait", target |-> job[k].target, saved |-> Updates!NoBackup]
             q == [job[k] EXCEPT !.pc = "leave"]
  <2>1. /\ mutex' = TRUE /\ job' = [job EXCEPT ![k] = q] /\ script' = [script EXCEPT ![k] = r]
        /\ torn' = (torn \/ \E o \in Checkers : script[o].stage # "none")
    BY <1>4, Updating DEF Updates!Downloaded
  <2>2. job[k] \in JobsOf /\ q \in JobsOf /\ q.target = job[k].target /\ q.pc = "leave"
    BY <1>0, JobIs DEF JobsOf
  <2>3. r \in ScriptsOf /\ r.stage = "wait"
    BY <2>2, Updating DEF ScriptsOf, ScriptStages, JobsOf, Updates!NoBackup, Releases, IdentityFiles
  <2> HIDE DEF q, r
  <2>4. torn' \in BOOLEAN /\ (~torn' => ~torn /\ \A o \in Checkers : script[o].stage = "none")
    BY <2>1, Zenon
  <2>5. job' \in [Checkers -> JobsOf] /\ job'[k] = q /\ \A j \in Checkers : j # k => job'[j] = job[j]
    BY <1>0, <2>1, <2>2 DEF UpdateTypes
  <2>6. script' \in [Checkers -> ScriptsOf]
    BY <1>0, <2>1, <2>3 DEF UpdateTypes
  <2>7. UpdateTypes' /\ UpdateCounts' /\ Process'
    BY <1>0, <1>1, <2>5, <2>6 DEF UpdateTypes, UpdateCounts, Process
  <2>8. UpdateFlags'
    BY <2>1, <2>4, Zenon DEF UpdateFlags
  <2>9. ASSUME ~torn'
        PROVE  Staged'
    <3>1. Placed /\ Chosen
      BY <2>4, <2>9 DEF UpdatesInv, Staged
    <3>2. ~Between /\ \A j \in Checkers : j # k => script[j].stage = "none"
      BY <2>4, <2>9 DEF Between
    <3>3. Fit(file', binary')
      BY <1>1, <3>1, <3>2 DEF Placed
    <3>4. Placed'
      BY <1>0, <2>1, <2>3, <3>2, <3>3, PlacedFor
    <3>5. \A j \in Checkers : Updates!Weighed(j)' => job'[j].target # running
      BY <1>1, <2>2, <2>5, <3>1, <3>2 DEF Chosen, Updates!Weighed
    <3>6. Chosen'
      BY <1>1, <3>5 DEF Chosen
    <3> QED
      BY <3>4, <3>6 DEF Staged
  <2> QED
    BY <2>7, <2>8, <2>9 DEF UpdatesInv
<1> QED
  BY <1>3, <1>4

\* The process is gone, its checks with it.
LEMMA NoJobs ==
    ASSUME Updates!ProcessEnds
    PROVE  /\ proc' = "down" /\ job' \in [Checkers -> JobsOf] /\ mutex' = FALSE
           /\ \A k \in Checkers : job'[k].pc = "idle"
PROOF
<1>1. job' = [k \in Checkers |-> Updates!Idle] /\ proc' = "down" /\ mutex' = FALSE
  BY Updating DEF Updates!ProcessEnds
<1>2. Updates!Idle \in JobsOf /\ Updates!Idle.pc = "idle"
  BY DEF Updates!Idle, JobsOf, Releases
<1> QED
  BY <1>1, <1>2

LEMMA ProcessStep ==
    ASSUME UpdatesInv, Updates!Quit \/ Updates!Launch \/ \E k \in Checkers : Updates!Leave(k)
    PROVE  UpdatesInv'
PROOF
<1>0. UpdateTypes /\ UpdateCounts /\ UpdateFlags /\ Process
  BY DEF UpdatesInv
<1>1. UNCHANGED <<published, channel, changes, file, binary, script, faults, torn>>
  BY DEF Updates!Quit, Updates!Launch, Updates!Leave, Updates!Config
<1>2. /\ proc' \in {"up", "down"} /\ running' \in Releases /\ job' \in [Checkers -> JobsOf]
      /\ mutex' = FALSE \/ UNCHANGED mutex
      /\ proc' = "up" => running' = binary
      /\ \A k \in Checkers : job'[k].pc = "idle"
  <2>1. CASE Updates!ProcessEnds /\ UNCHANGED running
    BY <1>0, <2>1, NoJobs DEF UpdateTypes
  <2>2. CASE Updates!Launch
    BY <1>0, <2>2 DEF Updates!Launch, UpdateTypes, Process
  <2> QED
    BY <2>1, <2>2 DEF Updates!Quit, Updates!Leave
<1>3. UpdateTypes' /\ UpdateCounts' /\ Process'
  BY <1>0, <1>1, <1>2 DEF UpdateTypes, UpdateCounts, Process
<1>4. UpdateFlags'
  BY <1>0, <1>1, <1>2, Zenon DEF UpdateFlags
<1>5. Chosen'
  BY <1>2, NothingChosen
<1>6. ~torn' => Placed'
  BY <1>1 DEF UpdatesInv, Staged, Placed, Between
<1> QED
  BY <1>3, <1>4, <1>5, <1>6 DEF UpdatesInv, Staged

-------------------------------------------------------------------------------
(* The script.                                                                *)

LEMMA StageIs ==
    ASSUME UpdateTypes, NEW k \in Checkers, NEW s \in ScriptStages, Updates!To(k, s)
    PROVE  \E r \in ScriptsOf : /\ script' = [script EXCEPT ![k] = r] /\ r.stage = s
                                /\ r.target = script[k].target /\ r.saved = script[k].saved
PROOF
<1> DEFINE r == [script[k] EXCEPT !.stage = s]
<1>1. r \in ScriptsOf /\ r.stage = s /\ r.target = script[k].target /\ r.saved = script[k].saved
  BY JobIs DEF ScriptsOf
<1>2. script' = [script EXCEPT ![k] = r]
  BY DEF Updates!To
<1> HIDE DEF r
<1> QED
  BY <1>1, <1>2

LEMMA ScriptIsOver ==
    ASSUME NEW k \in Checkers, Updates!ScriptEnds(k)
    PROVE  \E r \in ScriptsOf : script' = [script EXCEPT ![k] = r] /\ r.stage = "none"
PROOF
<1>1. Updates!NoScript \in ScriptsOf /\ Updates!NoScript.stage = "none"
  BY Updating DEF Updates!NoScript, Updates!NoBackup, ScriptsOf, ScriptStages, Releases, IdentityFiles
<1>2. script' = [script EXCEPT ![k] = Updates!NoScript]
  BY DEF Updates!ScriptEnds
<1> QED
  BY <1>1, <1>2

\* One step of the only script: r is what it is after it.
LEMMA ScriptGoes ==
    ASSUME UpdatesInv, NEW k \in Checkers, script[k].stage # "none",
           NEW r \in ScriptsOf, script' = [script EXCEPT ![k] = r],
           UNCHANGED <<published, channel, changes>>,
           binary' \in Releases, running' \in Releases, file' \in IdentityFiles,
           proc' \in {"up", "down"}, job' \in [Checkers -> JobsOf], faults' \in 0..MaxFaults,
           mutex' \in BOOLEAN, torn' \in BOOLEAN, ~torn' => ~torn,
           Process',
           ~torn' => /\ r.stage \notin {"executable", "restore"} => Fit(file', binary')
                     /\ r.stage = "executable" => Matches(file', r.target)
                     /\ r.stage \in {"identity", "executable", "start", "restore"}
                           => Fit(r.saved.file, r.saved.binary)
                     /\ r.stage = "restore" => r.saved.file # Missing,
           \/ ~torn' => \A j \in Checkers : ~Updates!Weighed(j)'
           \/ UNCHANGED <<job, running>> /\ (~torn => ~Between)
           \/ r.stage \in {"executable", "restore"}
    PROVE  UpdatesInv'
PROOF
<1>0. UpdateTypes /\ UpdateCounts
  BY DEF UpdatesInv
<1>1. script' \in [Checkers -> ScriptsOf]
  BY <1>0 DEF UpdateTypes
<1>2. UpdateTypes' /\ UpdateCounts'
  BY <1>0, <1>1 DEF UpdateTypes, UpdateCounts
<1>3. UpdateFlags'
  BY Zenon DEF UpdateFlags
<1>4. ASSUME ~torn'
      PROVE  Staged'
  <2>1. Placed /\ Chosen
    BY <1>4 DEF UpdatesInv, Staged
  <2>2. \A j \in Checkers : j # k => script[j].stage = "none"
    BY <1>0, <2>1, PlacedIs
  <2>3. Placed' /\ (Between' <=> r.stage \in {"executable", "restore"})
    BY <1>0, <1>4, <2>2, PlacedFor
  <2>4. ASSUME \A j \in Checkers : ~Updates!Weighed(j)'
        PROVE  Chosen'
    BY <2>4 DEF Chosen
  <2>5. ASSUME UNCHANGED <<job, running>> /\ ~Between
        PROVE  Chosen'
    BY <2>1, <2>5, ChosenKept
  <2>6. ASSUME r.stage \in {"executable", "restore"}
        PROVE  Chosen'
    BY <2>3, <2>6 DEF Chosen
  <2>7. Chosen'
    BY <1>4, <2>4, <2>5, <2>6
  <2> QED
    BY <2>3, <2>7 DEF Staged
<1> QED
  BY <1>2, <1>3, <1>4 DEF UpdatesInv

\* The stages in which the identity is that of the binary.
LEMMA ScriptFacts ==
    ASSUME UpdatesInv, NEW k \in Checkers, script[k].stage # "none"
    PROVE  /\ script[k] \in ScriptsOf /\ file \in IdentityFiles /\ binary \in Releases /\ running \in Releases
           /\ proc \in {"up", "down"} /\ job \in [Checkers -> JobsOf] /\ faults \in 0..MaxFaults
           /\ ~torn =>
                /\ script[k].stage \notin {"executable", "restore"} => ~Between /\ Fit(file, binary)
                /\ script[k].stage = "executable" => Matches(file, script[k].target)
                /\ script[k].stage \in {"identity", "executable", "start", "restore"}
                     => Fit(script[k].saved.file, script[k].saved.binary)
                /\ script[k].stage = "restore" => script[k].saved.file # Missing
PROOF
<1>0. UpdateTypes /\ UpdateCounts
  BY DEF UpdatesInv
<1>1. script[k] \in ScriptsOf /\ file \in IdentityFiles /\ binary \in Releases /\ running \in Releases
      /\ proc \in {"up", "down"} /\ job \in [Checkers -> JobsOf] /\ faults \in 0..MaxFaults
  BY <1>0, JobIs DEF UpdateTypes, UpdateCounts
<1>2. ~torn => Placed
  BY DEF UpdatesInv, Staged
<1> QED
  BY <1>0, <1>1, <1>2, PlacedIs

LEMMA BeforeStep ==
    ASSUME UpdatesInv, NEW k \in Checkers,
           Updates!ScriptKills(k) \/ Updates!ScriptSaves(k) \/ Updates!ScriptFails(k)
    PROVE  UpdatesInv'
PROOF
<1>0. UpdateTypes /\ UpdateCounts /\ UpdateFlags /\ Process
  BY DEF UpdatesInv
<1>1. /\ UNCHANGED <<published, channel, changes, torn, running, binary, file>>
      /\ script[k].stage \in {"wait", "backup"}
  BY DEF Updates!ScriptKills, Updates!ScriptSaves, Updates!ScriptFails, Updates!Checks, Updates!Config
<1>2. script[k].stage # "none"
  BY <1>1
<1>3. torn' \in BOOLEAN /\ (~torn' => ~torn)
  BY <1>0, <1>1, Zenon DEF UpdateFlags
<1>4. /\ script[k] \in ScriptsOf /\ file \in IdentityFiles /\ binary \in Releases /\ running \in Releases
      /\ proc \in {"up", "down"} /\ job \in [Checkers -> JobsOf] /\ faults \in 0..MaxFaults
      /\ ~torn => ~Between /\ Fit(file, binary)
  BY <1>1, <1>2, ScriptFacts
<1>5. CASE Updates!ScriptKills(k)
  <2>1. PICK r \in ScriptsOf : script' = [script EXCEPT ![k] = r] /\ r.stage = "backup"
    BY <1>0, <1>5, StageIs DEF Updates!ScriptKills, ScriptStages
  <2>2. /\ proc' = "down" /\ job' \in [Checkers -> JobsOf]
        /\ mutex' = FALSE \/ UNCHANGED mutex
        /\ \A j \in Checkers : job'[j].pc = "idle"
    <3>1. CASE proc = "up"
      BY <1>5, <3>1, NoJobs DEF Updates!ScriptKills
    <3>2. CASE proc # "up"
      BY <1>0, <1>4, <1>5, <3>2 DEF Updates!ScriptKills, Process
    <3> QED
      BY <3>1, <3>2
  <2>3. mutex' \in BOOLEAN
    BY <1>0, <2>2, Zenon DEF UpdateFlags
  <2>4. Process'
    BY <2>2 DEF Process
  <2>5. faults' \in 0..MaxFaults
    BY <1>4, <1>5 DEF Updates!ScriptKills
  <2>6. \A j \in Checkers : ~Updates!Weighed(j)'
    BY <2>2 DEF Updates!Weighed
  <2> QED
    BY <1>1, <1>2, <1>3, <1>4, <2>1, <2>2, <2>3, <2>4, <2>5, <2>6, ScriptGoes
<1>6. CASE Updates!ScriptSaves(k)
  <2> DEFINE r == [stage |-> "identity", target |-> script[k].target,
                   saved |-> [binary |-> binary, file |-> file]]
  <2>1. script' = [script EXCEPT ![k] = r] /\ UNCHANGED <<proc, job, mutex, faults>>
    BY <1>6 DEF Updates!ScriptSaves
  <2>2. r \in ScriptsOf /\ r.stage = "identity" /\ r.saved.file = file /\ r.saved.binary = binary
    BY <1>4 DEF ScriptsOf, ScriptStages
  <2> HIDE DEF r
  <2>3. mutex' \in BOOLEAN
    BY <1>0, <2>1, Zenon DEF UpdateFlags
  <2>4. Process'
    BY <1>0, <1>1, <2>1 DEF Process
  <2> QED
    BY <1>1, <1>2, <1>3, <1>4, <2>1, <2>2, <2>3, <2>4, ScriptGoes
<1>7. CASE Updates!ScriptFails(k)
  <2>1. PICK r \in ScriptsOf : script' = [script EXCEPT ![k] = r] /\ r.stage = "none"
    BY <1>7, ScriptIsOver DEF Updates!ScriptFails
  <2>2. UNCHANGED <<proc, job, mutex>> /\ faults' \in 0..MaxFaults
    BY <1>4, <1>7, ReleasesAreKnown DEF Updates!ScriptFails
  <2>3. mutex' \in BOOLEAN
    BY <1>0, <2>2, Zenon DEF UpdateFlags
  <2>4. Process'
    BY <1>0, <1>1, <2>2 DEF Process
  <2> QED
    BY <1>1, <1>2, <1>3, <1>4, <2>1, <2>2, <2>3, <2>4, ScriptGoes
<1> QED
  BY <1>5, <1>6, <1>7

LEMMA CopyStep ==
    ASSUME UpdatesInv, NEW k \in Checkers,
           Updates!ScriptCopiesIdentity(k) \/ Updates!ScriptCopiesExecutable(k)
    PROVE  UpdatesInv'
PROOF
<1>0. UpdateTypes /\ UpdateCounts /\ UpdateFlags /\ Process
  BY DEF UpdatesInv
<1>1. /\ UNCHANGED <<published, channel, changes, torn, running, proc, job, mutex, faults>>
      /\ script[k].stage \in {"identity", "executable"}
  BY DEF Updates!ScriptCopiesIdentity, Updates!ScriptCopiesExecutable, Updates!Checks, Updates!Config
<1>2. script[k].stage # "none"
  BY <1>1
<1>3. torn' \in BOOLEAN /\ mutex' \in BOOLEAN /\ (~torn' => ~torn)
  BY <1>0, <1>1, Zenon DEF UpdateFlags
<1>4. /\ script[k] \in ScriptsOf /\ file \in IdentityFiles /\ binary \in Releases /\ running \in Releases
      /\ proc \in {"up", "down"} /\ job \in [Checkers -> JobsOf] /\ faults \in 0..MaxFaults
      /\ ~torn => Fit(script[k].saved.file, script[k].saved.binary)
      /\ ~torn /\ script[k].stage = "executable" => Matches(file, script[k].target)
  BY <1>1, <1>2, ScriptFacts
<1>5. script[k].target \in Releases
  BY <1>4 DEF ScriptsOf
<1>6. CASE Updates!ScriptCopiesIdentity(k)
  <2>1. PICK r \in ScriptsOf : /\ script' = [script EXCEPT ![k] = r] /\ r.stage = "executable"
                               /\ r.target = script[k].target /\ r.saved = script[k].saved
    BY <1>0, <1>6, StageIs DEF Updates!ScriptCopiesIdentity, ScriptStages
  <2>2. file' = Updates!IdentityOf(script[k].target) /\ UNCHANGED binary
    BY <1>6 DEF Updates!ScriptCopiesIdentity, Updates!Persisted
  <2>3. file' \in IdentityFiles /\ Matches(file', r.target)
    BY <1>5, <2>1, <2>2, ReleaseIs
  <2>4. Process'
    BY <1>0, <1>1, <2>2 DEF Process
  <2> QED
    BY <1>1, <1>2, <1>3, <1>4, <2>1, <2>2, <2>3, <2>4, ScriptGoes
<1>7. CASE Updates!ScriptCopiesExecutable(k)
  <2>1. PICK r \in ScriptsOf : /\ script' = [script EXCEPT ![k] = r] /\ r.stage = "start"
                               /\ r.target = script[k].target /\ r.saved = script[k].saved
    BY <1>0, <1>7, StageIs DEF Updates!ScriptCopiesExecutable, ScriptStages
  <2>2. /\ proc = "down" /\ script[k].stage = "executable" /\ binary' = script[k].target /\ UNCHANGED file
    BY <1>7 DEF Updates!ScriptCopiesExecutable
  <2>3. ~torn' => Fit(file', binary')
    BY <1>3, <1>4, <1>5, <2>2, ReleaseIs DEF Fit, Matches, Missing
  <2>4. \A j \in Checkers : job'[j].pc = "idle"
    BY <1>0, <1>1, <2>2 DEF Process
  <2>5. Process'
    BY <1>1, <2>2, <2>4 DEF Process
  <2>6. \A j \in Checkers : ~Updates!Weighed(j)'
    BY <2>4 DEF Updates!Weighed
  <2> QED
    BY <1>1, <1>2, <1>3, <1>4, <1>5, <2>1, <2>2, <2>3, <2>5, <2>6, ScriptGoes
<1> QED
  BY <1>6, <1>7

LEMMA AfterStep ==
    ASSUME UpdatesInv, NEW k \in Checkers,
           Updates!ScriptCopyFails(k) \/ Updates!ScriptRestores(k) \/ Updates!ScriptStarts(k)
    PROVE  UpdatesInv'
PROOF
<1>0. UpdateTypes /\ UpdateCounts /\ UpdateFlags /\ Process
  BY DEF UpdatesInv
<1>1. /\ UNCHANGED <<published, channel, changes, job, mutex>>
      /\ script[k].stage \in {"identity", "executable", "start", "restore"}
  BY DEF Updates!ScriptCopyFails, Updates!ScriptRestores, Updates!ScriptStarts, Updates!Checks, Updates!Config
<1>2. script[k].stage # "none"
  BY <1>1
<1>3. mutex' \in BOOLEAN /\ torn \in BOOLEAN
  BY <1>0, <1>1, Zenon DEF UpdateFlags
<1>4. /\ script[k] \in ScriptsOf /\ file \in IdentityFiles /\ binary \in Releases /\ running \in Releases
      /\ proc \in {"up", "down"} /\ job \in [Checkers -> JobsOf] /\ faults \in 0..MaxFaults
      /\ ~torn => Fit(script[k].saved.file, script[k].saved.binary)
      /\ ~torn /\ script[k].stage = "start" => ~Between /\ Fit(file, binary)
      /\ ~torn /\ script[k].stage = "restore" => script[k].saved.file # Missing
  BY <1>1, <1>2, ScriptFacts
<1>5. script[k].saved.binary \in Releases /\ script[k].saved.file \in IdentityFiles
  BY <1>4 DEF ScriptsOf
<1>6. CASE Updates!ScriptCopyFails(k)
  <2>1. PICK r \in ScriptsOf : /\ script' = [script EXCEPT ![k] = r] /\ r.stage = "restore"
                               /\ r.target = script[k].target /\ r.saved = script[k].saved
    BY <1>0, <1>6, StageIs DEF Updates!ScriptCopyFails, ScriptStages
  <2>2. /\ torn' = (torn \/ script[k].saved.file = Missing)
        /\ UNCHANGED <<proc, running, binary, file>> /\ faults' \in 0..MaxFaults
    BY <1>4, <1>6, ReleasesAreKnown, Updating DEF Updates!ScriptCopyFails
  <2>3. torn' \in BOOLEAN /\ (~torn' => ~torn /\ script[k].saved.file # Missing)
    BY <2>2, Zenon
  <2>4. Process'
    BY <1>0, <1>1, <2>2 DEF Process
  <2> QED
    BY <1>1, <1>2, <1>3, <1>4, <2>1, <2>2, <2>3, <2>4, ScriptGoes
<1>7. CASE Updates!ScriptRestores(k)
  <2>1. PICK r \in ScriptsOf : /\ script' = [script EXCEPT ![k] = r] /\ r.stage = "start"
                               /\ r.target = script[k].target /\ r.saved = script[k].saved
    BY <1>0, <1>7, StageIs DEF Updates!ScriptRestores, ScriptStages
  <2>2. /\ script[k].stage = "restore"
        /\ proc = "down" \/ binary = script[k].saved.binary
        /\ binary' = script[k].saved.binary
        /\ file' = IF script[k].saved.file = Missing THEN file ELSE script[k].saved.file
        /\ torn' = (torn \/ \E o \in Checkers : Updates!Weighed(o))
        /\ UNCHANGED <<proc, running, faults>>
    BY <1>7, Updating DEF Updates!ScriptRestores, Updates!RestoredFile
  <2>3. torn' \in BOOLEAN /\ (~torn' => ~torn /\ \A o \in Checkers : ~Updates!Weighed(o))
    BY <2>2, Zenon
  <2>4. ~torn' => \A o \in Checkers : ~Updates!Weighed(o)'
    BY <1>1, <2>3 DEF Updates!Weighed
  <2>5. file' \in IdentityFiles /\ (~torn' => Fit(file', binary'))
    BY <1>4, <1>5, <2>2, <2>3
  <2>6. Process'
    BY <1>0, <1>1, <2>2 DEF Process
  <2> QED
    BY <1>1, <1>2, <1>3, <1>4, <1>5, <2>1, <2>2, <2>3, <2>4, <2>5, <2>6, ScriptGoes
<1>8. CASE Updates!ScriptStarts(k)
  <2>1. PICK r \in ScriptsOf : script' = [script EXCEPT ![k] = r] /\ r.stage = "none"
    BY <1>8, ScriptIsOver DEF Updates!ScriptStarts
  <2>2. /\ script[k].stage = "start" /\ proc' = "up"
        /\ running' = IF proc = "down" THEN binary ELSE running
        /\ UNCHANGED <<torn, binary, file, faults>>
    BY <1>8 DEF Updates!ScriptStarts, Updates!Checks
  <2>3. torn' \in BOOLEAN /\ (~torn' => ~torn)
    BY <1>3, <2>2, Zenon
  <2>4. Process'
    BY <1>0, <1>4, <2>2 DEF Process
  <2>5. \/ \A j \in Checkers : ~Updates!Weighed(j)'
        \/ UNCHANGED <<job, running>>
    <3>1. CASE proc = "down"
      <4>1. \A j \in Checkers : job'[j].pc = "idle"
        BY <1>0, <1>1, <3>1 DEF Process
      <4> QED
        BY <4>1 DEF Updates!Weighed
    <3>2. CASE proc # "down"
      BY <1>1, <2>2, <3>2
    <3> QED
      BY <3>1, <3>2
  <2>6. ~torn => ~Between
    BY <1>4, <2>2
  <2> QED
    BY <1>1, <1>2, <1>3, <1>4, <2>1, <2>2, <2>3, <2>4, <2>5, <2>6, ScriptGoes
<1> QED
  BY <1>6, <1>7, <1>8

LEMMA UpdatesNextStep == ASSUME UpdatesInv, Updates!Next PROVE UpdatesInv'
PROOF
<1>1. CASE \/ \E t \in Targets : Updates!Publish(t)
           \/ \E c \in Updates!Channels : Updates!SaveConfig(c)
           \/ Updates!AutoCheck \/ Updates!ManualCheck
  BY <1>1, ServerStep
<1>2. CASE Updates!Quit \/ Updates!Launch
  BY <1>2, ProcessStep
<1>3. ASSUME NEW k \in Checkers,
             \/ Updates!FetchFails(k) \/ Updates!Fetched(k) \/ Updates!Gate(k)
             \/ Updates!DownloadFails(k) \/ Updates!Downloaded(k) \/ Updates!Leave(k) \/ Updates!Script(k)
      PROVE  UpdatesInv'
  BY <1>3, CheckStep, FetchedStep, DownloadedStep, ProcessStep, BeforeStep, CopyStep, AfterStep DEF Updates!Script
<1> QED
  BY <1>1, <1>2, <1>3, Updating DEF Updates!Next

LEMMA UpdatesSafety == ASSUME UpdatesInv PROVE UpdatesSafe
PROOF
<1>0. UpdateTypes /\ UpdateCounts /\ UpdateFlags
  BY DEF UpdatesInv
<1>1. Updates!TypeOK
  <2>1. mutex \in BOOLEAN /\ torn \in BOOLEAN
    BY <1>0, Zenon DEF UpdateFlags
  <2>2. IdentityFiles \subseteq Updates!Identities
    BY Updating DEF IdentityFiles, Updates!Identities
  <2>3. JobsOf = [pc : {"idle", "fetch", "gate", "download", "leave"}, channel : Updates!Channels, target : Releases]
    BY DEF JobsOf, Updates!Channels
  <2>4. ScriptsOf \subseteq [stage : {"none", "wait", "backup", "identity", "executable", "start", "restore"},
                             target : Releases, saved : [binary : Releases, file : Updates!Identities]]
    BY <2>2 DEF ScriptsOf, ScriptStages
  <2>5. /\ published \in Targets /\ channel \in Updates!Channels /\ proc \in {"up", "down"}
        /\ running \in Releases /\ binary \in Releases /\ file \in Updates!Identities
        /\ changes \in 0..MaxChanges /\ faults \in 0..MaxFaults
    BY <1>0, <2>2 DEF UpdateTypes, UpdateCounts, Updates!Channels
  <2>6. job \in [Checkers -> [pc : {"idle", "fetch", "gate", "download", "leave"}, channel : Updates!Channels,
                              target : Releases]]
    BY <1>0, <2>3 DEF UpdateTypes
  <2>7. script \in [Checkers -> [stage : {"none", "wait", "backup", "identity", "executable", "start", "restore"},
                             target : Releases, saved : [binary : Releases, file : Updates!Identities]]]
    BY <1>0, <2>4 DEF UpdateTypes
  <2> QED
    BY <2>1, <2>5, <2>6, <2>7, Updating DEF Updates!TypeOK
<1>2. ~torn /\ Updates!NoScripts => ~Between /\ Staged
  BY Updating DEF UpdatesInv, Updates!NoScripts, Between
<1>3. Updates!IdentityFits
  BY <1>2, Updating DEF Updates!IdentityFits, Staged, Placed, Fit, Matches
<1>4. Updates!NoReinstall
  BY <1>2, Updating DEF Updates!NoReinstall, Staged, Chosen
<1> QED
  BY <1>1, <1>3, <1>4 DEF UpdatesSafe

(* The identity file fits the installed build and no check reinstalls what    *)
(* runs, whatever the server publishes, the builds a release was promoted     *)
(* from, and wherever the user quits or starts the agent between two steps of *)
(* the script (updater.rs; commands/update.rs).                               *)
THEOREM TheIdentityFits == Spec => []UpdatesSafe
PROOF
<1> DEFINE Inv == part = "updates" => UpdatesInv
<1>1. Init => Inv
  BY UpdatesInit DEF Init
<1>2. Inv /\ [Next]_vars => Inv'
  <2> SUFFICES ASSUME Inv, [Next]_vars, part' = "updates"
               PROVE  UpdatesInv'
    OBVIOUS
  <2>1. CASE UpdatesNext
    BY <2>1, UpdatesNextStep DEF UpdatesNext
  <2>2. CASE RecorderNext \/ ClipsNext \/ BroadcastNext \/ WindowNext
    BY <2>2 DEF RecorderNext, ClipsNext, BroadcastNext, WindowNext
  <2>3. CASE UNCHANGED vars
    <3>1. part = "updates" /\ UNCHANGED updatesVars
      BY <2>3 DEF vars
    <3>2. UpdatesInv
      BY <3>1
    <3>3. UpdateTypes' /\ UpdateCounts' /\ Process'
      BY <3>1, <3>2 DEF updatesVars, UpdatesInv, UpdateTypes, UpdateCounts, Process
    <3>4. UpdateFlags' /\ (~torn' => ~torn)
      BY <3>1, <3>2, Zenon DEF updatesVars, UpdatesInv, UpdateFlags
    <3>5. Staged => Staged'
      BY <3>1 DEF updatesVars, Staged, Placed, Chosen, Between, Updates!Weighed
    <3> QED
      BY <3>2, <3>3, <3>4, <3>5 DEF UpdatesInv
  <2> QED
    BY <2>1, <2>2, <2>3 DEF Next
<1>3. Inv => UpdatesSafe
  BY UpdatesSafety DEF UpdatesSafe
<1> QED
  BY <1>1, <1>2, <1>3, PTL DEF Spec, vars

-------------------------------------------------------------------------------
(* The main window                                                            *)

Drags == 1..MaxDrags
Actors == Drags \cup {0}
UserSizes == {"small", "large"}
Sizes == UserSizes \cup {"host"}

\* A request to open outdates every hide that was asked for before it.
Visible ==
    /\ win \in {"none", "hidden", "shown", "minimized"} /\ opening \in {"no", "asked", "made"}
    /\ hideId \in Nat /\ hiding \subseteq 1..hideId /\ watchdogs \subseteq 1..hideId
    /\ fails \in Nat
    /\ wanted = "open" /\ ~late =>
         /\ ~due /\ hideId \notin hiding /\ hideId \notin watchdogs
         /\ win # "hidden" /\ (win = "none" => opening = "asked" \/ fails > 0)

Stages == {"idle", "drag", "thrown", "throw", "glide", "step", "rest"}
ThreadsOf(g) == [pc : Stages, gen : 0..g, free : BOOLEAN, start : BOOLEAN, spin : BOOLEAN]
\* A thread that has not looked since the window was made upright is outdated.
Stands(t, g) == t.pc \notin {"thrown", "throw", "step"} /\ (t.pc \in {"drag", "glide"} => t.gen # g)
Motion ==
    /\ motion \in Nat /\ tilted \in BOOLEAN
    /\ threads \in [Drags -> ThreadsOf(motion)]
    /\ zeroed /\ ~stale => ~tilted /\ \A d \in Drags : Stands(threads[d], motion)

\* A host is being expanded from, or contracted to, a size of the user.
Fits(r) == IF r.on THEN r.to = "host" ELSE r.to \in UserSizes
Hosted ==
    /\ expanded \in BOOLEAN /\ size \in Sizes /\ base \in Sizes
    /\ resizes \in [Actors -> {None} \cup [on : BOOLEAN, to : Sizes]]
    /\ ~overlap =>
         /\ base \in UserSizes /\ (size = "host" /\ win # "none" => expanded)
         /\ \A a \in Actors : resizes[a] # None =>
              /\ expanded /\ Fits(resizes[a])
              /\ resizes[a].on => size # "host" \/ win = "none"
              /\ \A b \in Actors : resizes[b] # None => b = a

WindowInv ==
    /\ Visible /\ Motion /\ Hosted
    /\ sync \in {"idle", "asked", "resize"} /\ orphans \subseteq Actors

LEMMA WindowInit == Window!Init => WindowInv
PROOF
<1> SUFFICES ASSUME Window!Init
             PROVE  WindowInv
  OBVIOUS
<1> USE DragsAreCounted DEF Window!Init, Window!NoThread, Window!Drags, Window!Actors, Window!Sync
<1>1. Visible
  BY DEF Visible
<1>2. Motion
  <2>1. motion = 0 /\ tilted = FALSE /\ threads = [d \in Drags |-> Window!NoThread]
    BY DEF Drags
  <2>2. Window!NoThread \in ThreadsOf(0) /\ Stands(Window!NoThread, 0)
    BY DEF ThreadsOf, Stages, Stands
  <2>3. Motion <=> /\ motion \in Nat /\ tilted \in BOOLEAN
                   /\ threads \in [Drags -> ThreadsOf(motion)]
                   /\ zeroed /\ ~stale => ~tilted /\ \A d \in Drags : Stands(threads[d], motion)
    BY Zenon DEF Motion
  <2> USE DEF Window!Init
  <2> HIDE DEF Window!NoThread, Window!Init
  <2>4. threads \in [Drags -> ThreadsOf(motion)] /\ \A d \in Drags : Stands(threads[d], motion)
    BY <2>1, <2>2
  <2> QED
    BY <2>1, <2>3, <2>4
<1>3. Hosted
  BY DEF Hosted, Actors, Drags, Sizes, UserSizes
<1> QED
  BY <1>1, <1>2, <1>3 DEF WindowInv, Actors

-------------------------------------------------------------------------------
\* What leaves a part alone.
LEMMA VisibleKept ==
    ASSUME Visible, UNCHANGED <<win, opening, hideId, hiding, watchdogs, due, wanted, late>>,
           fails' \in Nat, fails' >= fails
    PROVE  Visible'
PROOF
  BY DEF Visible

LEMMA MotionKept ==
    ASSUME Motion, UNCHANGED <<motion, tilted, threads, zeroed, stale>>
    PROVE  Motion'
PROOF
  BY DEF Motion, ThreadsOf, Stands

LEMMA HostedKept ==
    ASSUME Hosted, UNCHANGED <<expanded, size, base, resizes, overlap>>, win' # "none" => win # "none"
    PROVE  Hosted'
PROOF
  BY DEF Hosted, Fits

LEMMA ThreadsGrow == ASSUME Motion PROVE threads \in [Drags -> ThreadsOf(motion + 1)]
PROOF
<1>1. ThreadsOf(motion) \subseteq ThreadsOf(motion + 1)
  BY DEF Motion, ThreadsOf
<1> QED
  BY <1>1 DEF Motion

\* Cancelling the motion outdates every thread that has not looked.
LEMMA Cancels ==
    ASSUME Motion, Window!CancelMotion, UNCHANGED threads,
           tilted' = FALSE \/ UNCHANGED <<tilted, zeroed>>
    PROVE  Motion'
PROOF
<1>1. motion' = motion + 1 /\ stale' = (stale \/ Window!Looked)
  BY DEF Window!CancelMotion
<1>2. threads' \in [Drags -> ThreadsOf(motion')] /\ motion' \in Nat /\ tilted' \in BOOLEAN
  <2>1. motion' \in Nat
    BY <1>1 DEF Motion
  <2>2. tilted' \in BOOLEAN
    BY Zenon DEF Motion
  <2>3. threads \in [Drags -> ThreadsOf(motion')]
    BY <1>1, ThreadsGrow
  <2> QED
    BY <2>1, <2>2, <2>3
<1>3. ASSUME ~stale', NEW d \in Drags
      PROVE  Stands(threads'[d], motion')
  <2>1. threads[d].pc \notin {"thrown", "throw", "step"}
    BY <1>1, <1>3 DEF Window!Looked, Window!Drags, Drags
  <2>2. threads[d].gen \in 0..motion
    BY DEF Motion, ThreadsOf
  <2> QED
    BY <1>1, <2>1, <2>2 DEF Stands, Motion
<1>4. zeroed' /\ ~stale' => ~tilted'
  BY <1>1 DEF Motion
<1> QED
  BY <1>2, <1>3, <1>4 DEF Motion

\* A thread moves on, and if the window was made upright since, to no step that
\* could tilt it.
LEMMA ThreadMoves ==
    ASSUME Motion, NEW d \in Drags, NEW r \in ThreadsOf(motion), threads' = [threads EXCEPT ![d] = r],
           UNCHANGED <<motion, zeroed, stale>>, tilted' \in BOOLEAN,
           zeroed /\ ~stale => Stands(r, motion) /\ ~tilted'
    PROVE  Motion'
PROOF
  BY DEF Motion

LEMMA Contracts ==
    ASSUME Hosted, Visible, Window!ContractNow, win' # "none" => win # "none"
    PROVE  Hosted' /\ fails' \in Nat /\ fails' >= fails
PROOF
<1>1. /\ overlap' = (overlap \/ (expanded /\ \E a \in Actors : resizes[a] # None))
      /\ UNCHANGED <<base, resizes>>
  BY DEF Window!ContractNow, Window!Resizing, Window!Actors, Actors, Window!Drags, Drags, Window!Sync
<1>2. \/ expanded' = FALSE /\ size' = (IF expanded THEN base ELSE size) /\ UNCHANGED fails
      \/ expanded /\ fails' = fails + 1 /\ UNCHANGED <<expanded, size>>
  BY DEF Window!ContractNow
<1>3. fails' \in Nat /\ fails' >= fails
  BY <1>2 DEF Visible
<1>4. size' \in Sizes /\ base' \in Sizes /\ expanded' \in BOOLEAN
  BY <1>1, <1>2 DEF Hosted
<1>5. ~overlap' => ~overlap /\ \A a \in Actors : resizes[a] = None
  BY <1>1 DEF Hosted
<1>6. ~overlap' => size' # "host" \/ win' = "none" \/ expanded'
  BY <1>1, <1>2, <1>5 DEF Hosted, UserSizes
<1> QED
  BY <1>1, <1>3, <1>4, <1>5, <1>6 DEF Hosted

LEMMA Begins ==
    ASSUME Hosted, NEW a \in Actors, NEW on \in BOOLEAN, Window!BeginResize(a, on), UNCHANGED win
    PROVE  Hosted'
PROOF
<1>1. /\ expanded # on /\ win # "none" /\ resizes[a] = None
      /\ overlap' = (overlap \/ \E b \in Actors : resizes[b] # None)
      /\ base' = IF on THEN size ELSE base
      /\ expanded' = (on \/ expanded)
      /\ resizes' = [resizes EXCEPT ![a] = [on |-> on, to |-> IF on THEN "host" ELSE base]]
      /\ UNCHANGED size
  BY DEF Window!BeginResize, Window!SameFlag, Window!Resizing, Window!Exists, Window!Actors, Actors, Window!Drags,
         Drags, Window!Sync
<1>2. base' \in Sizes /\ size' \in Sizes
  BY <1>1 DEF Hosted
<1>3. expanded' \in BOOLEAN /\ expanded'
  BY <1>1, Zenon DEF Hosted
<1>4. [on |-> on, to |-> IF on THEN "host" ELSE base] \in [on : BOOLEAN, to : Sizes]
  BY DEF Hosted, Sizes
<1>5. resizes' \in [Actors -> {None} \cup [on : BOOLEAN, to : Sizes]]
  BY <1>1, <1>4 DEF Hosted
<1>6. ASSUME ~overlap'
      PROVE  /\ ~overlap /\ base' \in UserSizes
             /\ \A b \in Actors : b # a => resizes'[b] = None
             /\ Fits(resizes'[a]) /\ (resizes'[a].on => size' # "host" \/ win' = "none")
  <2>1. ~overlap /\ \A b \in Actors : resizes[b] = None
    BY <1>1, <1>6
  <2>2. base \in UserSizes /\ (size = "host" /\ win # "none" => expanded)
    BY <2>1 DEF Hosted
  <2>3. resizes'[a].on = on /\ resizes'[a].to = IF on THEN "host" ELSE base
    BY <1>1 DEF Hosted
  <2>4. on => size # "host" /\ size \in UserSizes
    BY <1>1, <2>2 DEF Hosted, Sizes
  <2> QED
    BY <1>1, <2>1, <2>2, <2>3, <2>4 DEF Hosted, Fits
<1> QED
  BY <1>2, <1>3, <1>5, <1>6 DEF Hosted

LEMMA Places ==
    ASSUME Hosted, NEW a \in Actors, Window!PlacedResize(a), UNCHANGED win
    PROVE  Hosted'
PROOF
<1>1. /\ resizes[a] # None /\ size' = resizes[a].to /\ expanded' = resizes[a].on
      /\ resizes' = [resizes EXCEPT ![a] = None] /\ UNCHANGED <<base, overlap>>
  BY DEF Window!PlacedResize, Window!Resizing
<1>2. resizes[a] \in [on : BOOLEAN, to : Sizes]
  BY <1>1 DEF Hosted
<1>3. size' \in Sizes /\ base' \in Sizes
  BY <1>1, <1>2 DEF Hosted
<1>4. expanded' \in BOOLEAN
  BY <1>1, <1>2
<1>5. resizes' \in [Actors -> {None} \cup [on : BOOLEAN, to : Sizes]]
  BY <1>1 DEF Hosted
<1>6. ~overlap => (\A b \in Actors : resizes'[b] = None) /\ Fits(resizes[a])
  BY <1>1 DEF Hosted
<1>7. ~overlap => (size' = "host" => expanded')
  BY <1>1, <1>6 DEF Fits, UserSizes
<1> QED
  BY <1>1, <1>3, <1>4, <1>5, <1>6, <1>7 DEF Hosted

LEMMA Refuses ==
    ASSUME Hosted, Visible, NEW a \in Actors, Window!RefusedResize(a), UNCHANGED win
    PROVE  Hosted' /\ fails' \in Nat /\ fails' >= fails
PROOF
<1>1. /\ resizes[a] # None
      /\ expanded' = (expanded /\ ~resizes[a].on) \/ expanded' = expanded
      /\ resizes' = [resizes EXCEPT ![a] = None] /\ UNCHANGED <<size, base, overlap>>
      /\ UNCHANGED fails \/ fails' = fails + 1
  BY DEF Window!RefusedResize, Window!Resizing
<1>2. expanded' \in BOOLEAN
  <2>1. expanded \in BOOLEAN
    BY DEF Hosted
  <2>2. CASE expanded' = (expanded /\ ~resizes[a].on)
    BY <2>2, Zenon
  <2> QED
    BY <1>1, <2>1, <2>2, Zenon
<1>3. resizes' \in [Actors -> {None} \cup [on : BOOLEAN, to : Sizes]]
  BY <1>1 DEF Hosted
<1>4. ~overlap => \A b \in Actors : resizes'[b] = None
  BY <1>1 DEF Hosted
<1>5. ~overlap => (size = "host" /\ win # "none" => expanded')
  <2>1. ~overlap /\ size = "host" /\ win # "none" => expanded /\ ~resizes[a].on
    <3>1. resizes[a] # None
      BY <1>1
    <3> QED
      BY <3>1 DEF Hosted
  <2>2. expanded' = (expanded /\ ~resizes[a].on) \/ expanded' = expanded
    BY <1>1
  <2>3. expanded /\ ~resizes[a].on => expanded'
    BY <2>2, Zenon
  <2> QED
    BY <2>1, <2>3
<1> QED
  BY <1>1, <1>2, <1>3, <1>4, <1>5 DEF Hosted, Visible

-------------------------------------------------------------------------------
(* Opening and hiding.                                                        *)

\* The variables of Hosted, and those of Motion, are left alone.
LEMMA OpenStep ==
    ASSUME WindowInv,
           Window!RequestMainWindow \/ Window!CreateMainWindow \/ Window!OpeningOver
    PROVE  WindowInv'
PROOF
<1>0. Visible /\ Motion /\ Hosted /\ sync \in {"idle", "asked", "resize"} /\ orphans \subseteq Actors
  BY DEF WindowInv
<1>1. CASE Window!RequestMainWindow
  <2>1. /\ hideId' = hideId + 1 /\ wanted' = "open"
        /\ late' = (due \/ (win = "none" /\ opening = "made"))
        /\ IF win # "none" THEN win' = "shown" /\ UNCHANGED opening
                           ELSE opening' = (IF opening = "no" THEN "asked" ELSE opening) /\ UNCHANGED win
        /\ UNCHANGED <<hiding, watchdogs, due, orphans, fails, sync>>
        /\ UNCHANGED <<motion, tilted, threads, zeroed, stale>>
        /\ UNCHANGED <<expanded, size, base, resizes, overlap>>
    BY <1>1 DEF Window!RequestMainWindow, Window!Exists, Window!motion, Window!host
  <2>2. Visible'
    <3>1. ~late' => ~due' /\ (win # "none" \/ opening # "made")
      BY <2>1, Zenon
    <3>2. hideId' \in Nat /\ hiding' \subseteq 1..hideId' /\ watchdogs' \subseteq 1..hideId'
      BY <1>0, <2>1 DEF Visible
    <3>3. hideId' \notin hiding' /\ hideId' \notin watchdogs'
      BY <1>0, <2>1 DEF Visible
    <3>4. /\ win' \in {"none", "hidden", "shown", "minimized"} /\ opening' \in {"no", "asked", "made"}
          /\ win # "none" \/ opening # "made" => win' # "hidden" /\ (win' = "none" => opening' = "asked")
      BY <1>0, <2>1 DEF Visible
    <3> QED
      BY <1>0, <2>1, <3>1, <3>2, <3>3, <3>4, Zenon DEF Visible
  <2>3. Motion' /\ Hosted'
    BY <1>0, <2>1, MotionKept, HostedKept
  <2> QED
    BY <1>0, <2>1, <2>2, <2>3 DEF WindowInv
<1>2. CASE Window!CreateMainWindow
  <2>1. /\ opening = "asked" /\ opening' = "made"
        /\ UNCHANGED <<hideId, hiding, watchdogs, due, wanted, late>>
        /\ UNCHANGED <<motion, tilted, threads, zeroed, stale>>
        /\ UNCHANGED <<expanded, base, resizes, overlap>>
        /\ \/ win # "none" /\ win' = "shown" /\ UNCHANGED <<size, sync, fails, orphans>>
           \/ win = "none" /\ win' = "shown" /\ size' = "small" /\ sync' = "asked"
              /\ orphans' = orphans \ {0} /\ UNCHANGED fails
           \/ win = "none" /\ fails' = fails + 1 /\ UNCHANGED <<win, size, sync, orphans>>
    BY <1>2 DEF Window!CreateMainWindow, Window!Exists, Window!Sync
  <2>2. Visible'
    BY <1>0, <2>1 DEF Visible
  <2>3. Motion'
    BY <1>0, <2>1, MotionKept
  <2>4. Hosted'
    <3>1. CASE UNCHANGED size /\ (win' # "none" => win # "none")
      BY <1>0, <2>1, <3>1, HostedKept
    <3>2. CASE size' = "small"
      BY <1>0, <2>1, <3>2 DEF Hosted, Fits, Sizes, UserSizes
    <3> QED
      BY <2>1, <3>1, <3>2
  <2>5. sync' \in {"idle", "asked", "resize"} /\ orphans' \subseteq Actors
    BY <1>0, <2>1
  <2> QED
    BY <2>2, <2>3, <2>4, <2>5 DEF WindowInv
<1>3. CASE Window!OpeningOver
  <2>1. /\ opening = "made" /\ opening' = "no"
        /\ UNCHANGED <<win, hideId, hiding, watchdogs, due, wanted, late, orphans, fails, sync>>
        /\ UNCHANGED <<motion, tilted, threads, zeroed, stale>>
        /\ UNCHANGED <<expanded, size, base, resizes, overlap>>
    BY <1>3 DEF Window!OpeningOver, Window!motion, Window!host
  <2>2. Visible'
    BY <1>0, <2>1 DEF Visible
  <2>3. Motion' /\ Hosted'
    BY <1>0, <2>1, MotionKept, HostedKept
  <2> QED
    BY <1>0, <2>1, <2>2, <2>3 DEF WindowInv
<1> QED
  BY <1>1, <1>2, <1>3

LEMMA HideStep ==
    ASSUME WindowInv,
           \/ Window!RequestAnimatedHide
           \/ \E id \in hiding : Window!CompleteTrayHide(id)
           \/ \E id \in watchdogs : Window!WatchdogLooks(id)
           \/ Window!WatchdogDestroys
    PROVE  WindowInv'
PROOF
<1>0. Visible /\ Motion /\ Hosted /\ sync \in {"idle", "asked", "resize"} /\ orphans \subseteq Actors
  BY DEF WindowInv
<1> USE DEF Window!motion, Window!host
<1>1. CASE Window!RequestAnimatedHide
  <2>1. /\ hideId' = hideId + 1 /\ wanted' = "hide"
        /\ \/ hiding' = hiding \cup {hideId + 1} /\ watchdogs' = watchdogs \cup {hideId + 1} /\ UNCHANGED fails
           \/ fails' = fails + 1 /\ UNCHANGED <<hiding, watchdogs>>
        /\ UNCHANGED <<win, opening, orphans>>
        /\ UNCHANGED <<expanded, size, base, resizes, overlap>>
    BY <1>1 DEF Window!RequestAnimatedHide
  <2>2. Visible'
    <3>1. hideId' \in Nat /\ hiding' \subseteq 1..hideId' /\ watchdogs' \subseteq 1..hideId' /\ fails' \in Nat
      <4>1. hideId \in Nat /\ hiding \subseteq 1..hideId /\ watchdogs \subseteq 1..hideId /\ fails \in Nat
        BY <1>0 DEF Visible
      <4>2. hideId' \in Nat /\ fails' \in Nat
        BY <2>1, <4>1
      <4>3. hiding' \subseteq hiding \cup {hideId'} /\ watchdogs' \subseteq watchdogs \cup {hideId'}
        BY <2>1
      <4>4. 1..hideId \subseteq 1..hideId' /\ hideId' \in 1..hideId'
        BY <2>1, <4>1
      <4> QED
        BY <4>1, <4>2, <4>3, <4>4
    <3> QED
      BY <1>0, <2>1, <3>1 DEF Visible
  <2>3. Motion' /\ UNCHANGED sync
    <3>1. CASE Window!Straighten
      BY <1>0, <3>1, Cancels DEF Window!Straighten
    <3>2. CASE UNCHANGED Window!motion
      BY <1>0, <3>2, MotionKept
    <3> QED
      BY <1>1, <3>1, <3>2 DEF Window!RequestAnimatedHide
  <2>4. Hosted'
    BY <1>0, <2>1, HostedKept
  <2> QED
    BY <1>0, <2>1, <2>2, <2>3, <2>4 DEF WindowInv
<1>2. CASE \E id \in hiding : Window!CompleteTrayHide(id)
  <2>1. PICK id \in hiding : Window!CompleteTrayHide(id)
    BY <1>2
  <2>2. /\ hiding' = hiding \ {id} /\ Window!Straighten
        /\ IF hideId = id THEN hideId' = hideId + 1 /\ Window!Destroyed
                          ELSE UNCHANGED <<hideId, win, orphans>>
        /\ UNCHANGED <<opening, watchdogs, due, wanted, late, fails>>
        /\ UNCHANGED <<expanded, size, base, resizes, overlap>>
    BY <2>1 DEF Window!CompleteTrayHide, Window!Completes
  <2>3. win' = "none" \/ UNCHANGED win
    BY <2>2 DEF Window!Destroyed
  <2>4. Visible'
    BY <1>0, <2>2, <2>3 DEF Visible
  <2>5. Motion' /\ UNCHANGED sync
    BY <1>0, <2>2, Cancels DEF Window!Straighten
  <2>6. Hosted'
    BY <1>0, <2>2, <2>3, HostedKept
  <2>7. orphans' \subseteq Actors
    BY <1>0, <2>2 DEF Window!Destroyed, Window!Drags, Window!Sync, Actors, Drags
  <2> QED
    BY <1>0, <2>4, <2>5, <2>6, <2>7 DEF WindowInv
<1>3. CASE \E id \in watchdogs : Window!WatchdogLooks(id)
  <2>1. PICK id \in watchdogs : Window!WatchdogLooks(id)
    BY <1>3
  <2>2. /\ watchdogs' = watchdogs \ {id} /\ due' = (due \/ hideId = id)
        /\ UNCHANGED <<win, opening, hideId, hiding, wanted, late, orphans, fails, sync>>
        /\ UNCHANGED <<motion, tilted, threads, zeroed, stale>>
        /\ UNCHANGED <<expanded, size, base, resizes, overlap>>
    BY <2>1 DEF Window!WatchdogLooks
  <2>3. hideId \notin watchdogs => (due' => due)
    BY <2>1, <2>2, Zenon
  <2>5. Visible'
    BY <1>0, <2>2, <2>3 DEF Visible
  <2>4. Motion' /\ Hosted'
    BY <1>0, <2>2, MotionKept, HostedKept
  <2> QED
    BY <1>0, <2>2, <2>4, <2>5 DEF WindowInv
<1>4. CASE Window!WatchdogDestroys
  <2>1. /\ due /\ due' = FALSE /\ hideId' = hideId + 1 /\ Window!Destroyed
        /\ UNCHANGED <<opening, hiding, watchdogs, wanted, late, fails, sync>>
        /\ UNCHANGED <<motion, tilted, threads, zeroed, stale>>
        /\ UNCHANGED <<expanded, size, base, resizes, overlap>>
    BY <1>4 DEF Window!WatchdogDestroys
  <2>2. win' = "none" /\ orphans' \subseteq Actors
    BY <2>1 DEF Window!Destroyed, Window!Drags, Window!Sync, Actors, Drags
  <2>3. Visible'
    BY <1>0, <2>1, <2>2 DEF Visible
  <2>4. Motion' /\ Hosted'
    BY <1>0, <2>1, <2>2, MotionKept, HostedKept
  <2> QED
    BY <1>0, <2>1, <2>2, <2>3, <2>4 DEF WindowInv
<1> QED
  BY <1>1, <1>2, <1>3, <1>4

-------------------------------------------------------------------------------
(* The other commands of the page and the rotation mode.                      *)

LEMMA PageStep ==
    ASSUME WindowInv,
           \/ Window!HideMainWindow \/ Window!MinimizeMainWindow \/ Window!StabilizeMainWindowRotation
           \/ Window!FreezeMainWindowMotion \/ Window!UserResizes
    PROVE  WindowInv'
PROOF
<1>0. Visible /\ Motion /\ Hosted /\ sync \in {"idle", "asked", "resize"} /\ orphans \subseteq Actors
  BY DEF WindowInv
<1> USE DEF Window!motion, Window!host, Window!visibility, Window!Exists
<1>1. CASE Window!HideMainWindow \/ Window!MinimizeMainWindow \/ Window!StabilizeMainWindowRotation
  <2>1. /\ win # "none" /\ win' # "none" /\ Window!Straighten /\ Window!ContractNow
        /\ UNCHANGED <<opening, hiding, watchdogs, due, orphans>>
    BY <1>1 DEF Window!HideMainWindow, Window!MinimizeMainWindow, Window!StabilizeMainWindowRotation
  <2>2. \/ hideId' = hideId + 1 /\ win' = "hidden" /\ wanted' = "hide"
        \/ win' \in {win, "minimized"} /\ UNCHANGED <<hideId, wanted, late>>
    BY <1>1 DEF Window!HideMainWindow, Window!MinimizeMainWindow, Window!StabilizeMainWindowRotation
  <2>3. Hosted' /\ fails' \in Nat /\ fails' >= fails
    BY <1>0, <2>1, Contracts
  <2>4. Visible'
    <3>1. CASE hideId' = hideId + 1 /\ win' = "hidden" /\ wanted' = "hide"
      BY <1>0, <2>1, <2>3, <3>1 DEF Visible
    <3>2. CASE win' \in {win, "minimized"} /\ UNCHANGED <<hideId, wanted, late>>
      BY <1>0, <2>1, <2>3, <3>2 DEF Visible
    <3> QED
      BY <2>2, <3>1, <3>2
  <2>5. Motion' /\ UNCHANGED sync
    BY <1>0, <2>1, Cancels DEF Window!Straighten
  <2> QED
    BY <1>0, <2>1, <2>3, <2>4, <2>5 DEF WindowInv
<1>2. CASE Window!FreezeMainWindowMotion
  <2>1. /\ Window!CancelMotion
        /\ UNCHANGED <<tilted, zeroed, threads, sync, orphans, fails>>
        /\ UNCHANGED <<win, opening, hideId, hiding, watchdogs, due, wanted, late>>
        /\ UNCHANGED <<expanded, size, base, resizes, overlap>>
    BY <1>2 DEF Window!FreezeMainWindowMotion
  <2>2. fails' \in Nat /\ fails' >= fails
    BY <1>0, <2>1 DEF Visible
  <2>3. Visible' /\ Motion' /\ Hosted'
    BY <1>0, <2>1, <2>2, Cancels, VisibleKept, HostedKept
  <2> QED
    BY <1>0, <2>1, <2>3 DEF WindowInv
<1>3. CASE Window!UserResizes
  <2>1. /\ size' \in UserSizes
        /\ UNCHANGED <<motion, tilted, threads, zeroed, stale, sync, orphans, fails>>
        /\ UNCHANGED <<win, opening, hideId, hiding, watchdogs, due, wanted, late>>
        /\ UNCHANGED <<expanded, base, resizes, overlap>>
    BY <1>3 DEF Window!UserResizes, Window!UserSizes, UserSizes
  <2>2. fails' \in Nat /\ fails' >= fails
    BY <1>0, <2>1 DEF Visible
  <2>3. Visible' /\ Motion'
    BY <1>0, <2>1, <2>2, MotionKept, VisibleKept
  <2>4. Hosted'
    BY <1>0, <2>1 DEF Hosted, Fits, Sizes, UserSizes
  <2> QED
    BY <1>0, <2>1, <2>3, <2>4 DEF WindowInv
<1> QED
  BY <1>1, <1>2, <1>3

LEMMA SyncStep ==
    ASSUME WindowInv, Window!AskSync \/ Window!SyncCancels \/ Window!SyncContracts
    PROVE  WindowInv'
PROOF
<1>0. Visible /\ Motion /\ Hosted /\ sync \in {"idle", "asked", "resize"} /\ orphans \subseteq Actors
  BY DEF WindowInv
<1> USE DEF Window!motion, Window!host, Window!visibility
<1>1. CASE Window!AskSync
  <2>1. /\ sync' = "asked" /\ orphans' = orphans \ {0}
        /\ UNCHANGED <<motion, tilted, threads, zeroed, stale, fails>>
        /\ UNCHANGED <<win, opening, hideId, hiding, watchdogs, due, wanted, late>>
        /\ UNCHANGED <<expanded, size, base, resizes, overlap>>
    BY <1>1 DEF Window!AskSync, Window!Sync
  <2>2. fails' \in Nat /\ fails' >= fails
    BY <1>0, <2>1 DEF Visible
  <2>3. Visible' /\ Motion' /\ Hosted'
    BY <1>0, <2>1, <2>2, MotionKept, VisibleKept, HostedKept
  <2> QED
    BY <1>0, <2>1, <2>3 DEF WindowInv
<1>2. CASE Window!SyncCancels
  <2>1. /\ sync' \in {"idle", "resize"} /\ Window!CancelMotion /\ tilted' = FALSE
        /\ UNCHANGED <<threads, orphans, fails>>
        /\ UNCHANGED <<win, opening, hideId, hiding, watchdogs, due, wanted, late>>
        /\ UNCHANGED <<expanded, size, base, resizes, overlap>>
    BY <1>2 DEF Window!SyncCancels
  <2>2. fails' \in Nat /\ fails' >= fails
    BY <1>0, <2>1 DEF Visible
  <2>3. Visible' /\ Motion' /\ Hosted'
    BY <1>0, <2>1, <2>2, Cancels, VisibleKept, HostedKept
  <2> QED
    BY <1>0, <2>1, <2>3 DEF WindowInv
<1>3. CASE Window!SyncContracts
  <2>1. /\ UNCHANGED <<motion, tilted, threads, zeroed, stale, orphans>>
        /\ UNCHANGED <<win, opening, hideId, hiding, watchdogs, due, wanted, late>>
        /\ sync' \in {sync, "idle"}
        /\ \/ Window!BeginResize(0, FALSE) /\ UNCHANGED fails
           \/ UNCHANGED <<expanded, size, base, resizes, overlap, fails>>
           \/ Window!RefusedResize(0)
           \/ Window!PlacedResize(0) /\ UNCHANGED fails
    BY <1>3 DEF Window!SyncContracts, Window!Sync
  <2>2. Hosted' /\ fails' \in Nat /\ fails' >= fails
    <3>0. 0 \in Actors /\ fails \in Nat /\ FALSE \in BOOLEAN
      BY <1>0 DEF Actors, Visible
    <3>1. CASE Window!BeginResize(0, FALSE) /\ UNCHANGED fails
      <4>1. Hosted'
        BY <1>0, <2>1, <3>0, <3>1, Begins, Zenon
      <4> QED
        BY <3>0, <3>1, <4>1
    <3>2. CASE UNCHANGED <<expanded, size, base, resizes, overlap, fails>>
      BY <1>0, <2>1, <3>0, <3>2, HostedKept
    <3>3. CASE Window!RefusedResize(0)
      BY <1>0, <2>1, <3>0, <3>3, Refuses
    <3>4. CASE Window!PlacedResize(0) /\ UNCHANGED fails
      BY <1>0, <2>1, <3>0, <3>4, Places
    <3> QED
      BY <2>1, <3>1, <3>2, <3>3, <3>4
  <2>3. Visible' /\ Motion'
    BY <1>0, <2>1, <2>2, MotionKept, VisibleKept
  <2> QED
    BY <1>0, <2>1, <2>2, <2>3 DEF WindowInv
<1> QED
  BY <1>1, <1>2, <1>3

-------------------------------------------------------------------------------
(* The physics threads.                                                       *)

LEMMA ThreadIs ==
    ASSUME Motion, NEW d \in Drags
    PROVE  /\ threads[d] \in ThreadsOf(motion) /\ threads[d].free \in BOOLEAN
           /\ threads[d].start \in BOOLEAN /\ threads[d].spin \in BOOLEAN
           /\ threads[d].gen \in 0..motion /\ threads[d].pc \in Stages
PROOF
<1>1. threads[d] \in ThreadsOf(motion)
  BY DEF Motion
<1> QED
  BY <1>1 DEF ThreadsOf

\* A thread's next step, and its end.
LEMMA NextStage ==
    ASSUME Motion, NEW d \in Drags, NEW pc \in Stages, Window!To(d, pc),
           UNCHANGED <<motion, zeroed, stale>>, tilted' \in BOOLEAN,
           zeroed /\ ~stale => ~tilted' /\ pc \notin {"thrown", "throw", "step"}
               /\ (pc \in {"drag", "glide"} => threads[d].gen # motion)
    PROVE  Motion'
PROOF
<1> DEFINE r == [threads[d] EXCEPT !.pc = pc]
<1>1. threads' = [threads EXCEPT ![d] = r]
  BY DEF Window!To
<1>2. r \in ThreadsOf(motion) /\ r.pc = pc /\ r.gen = threads[d].gen
  BY ThreadIs DEF ThreadsOf
<1>3. zeroed /\ ~stale => Stands(r, motion) /\ ~tilted'
  BY <1>2 DEF Stands
<1> HIDE DEF r
<1> QED
  BY <1>1, <1>2, <1>3, ThreadMoves

LEMMA ThreadEnds ==
    ASSUME Motion, NEW d \in Drags, Window!Ends(d),
           UNCHANGED <<motion, zeroed, stale>>, tilted' \in BOOLEAN, zeroed /\ ~stale => ~tilted'
    PROVE  Motion'
PROOF
<1>1. threads' = [threads EXCEPT ![d] = Window!NoThread]
  BY DEF Window!Ends
<1>2. Window!NoThread \in ThreadsOf(motion) /\ Stands(Window!NoThread, motion)
  BY DEF Window!NoThread, ThreadsOf, Stands, Stages, Motion
<1> QED
  BY <1>1, <1>2, ThreadMoves

LEMMA DragStep ==
    ASSUME WindowInv, NEW d \in Drags, Window!StartMainWindowDrag(d) \/ Window!Released(d)
    PROVE  WindowInv'
PROOF
<1>0. Visible /\ Motion /\ Hosted /\ sync \in {"idle", "asked", "resize"} /\ orphans \subseteq Actors
  BY DEF WindowInv
<1> USE DEF Window!host, Window!visibility
<1>1. /\ UNCHANGED <<tilted, sync, fails>>
      /\ UNCHANGED <<win, opening, hideId, hiding, watchdogs, due, wanted, late>>
      /\ UNCHANGED <<expanded, size, base, resizes, overlap>>
      /\ orphans' \in {orphans, orphans \ {d}}
  BY DEF Window!StartMainWindowDrag, Window!Released
<1>2. Visible' /\ Hosted'
  <2>1. fails' \in Nat /\ fails' >= fails
    BY <1>0, <1>1 DEF Visible
  <2> QED
    BY <1>0, <1>1, <2>1, VisibleKept, HostedKept
<1>3. CASE Window!StartMainWindowDrag(d)
  <2>1. PICK free \in BOOLEAN :
            threads' = [threads EXCEPT ![d] =
                [pc |-> "drag", gen |-> motion + 1, free |-> free, start |-> free /\ tilted, spin |-> FALSE]]
    BY <1>3 DEF Window!StartMainWindowDrag
  <2>2. motion' = motion + 1 /\ zeroed' = FALSE /\ motion \in Nat
    BY <1>0, <1>3 DEF Window!StartMainWindowDrag, Motion
  <2>3. (free /\ tilted) \in BOOLEAN
    BY Zenon
  <2>4. [pc |-> "drag", gen |-> motion + 1, free |-> free, start |-> free /\ tilted, spin |-> FALSE]
           \in ThreadsOf(motion + 1)
    BY <2>2, <2>3 DEF ThreadsOf, Stages
  <2>5. threads' \in [Drags -> ThreadsOf(motion')]
    BY <1>0, <2>1, <2>2, <2>4, ThreadsGrow
  <2>6. Motion'
    BY <1>0, <1>1, <2>2, <2>5 DEF Motion
  <2> QED
    BY <1>0, <1>1, <1>2, <2>6 DEF WindowInv
<1>4. CASE Window!Released(d)
  <2>1. threads[d].pc = "drag" /\ UNCHANGED <<motion, zeroed, stale>>
    BY <1>4 DEF Window!Released
  <2>2. tilted' \in BOOLEAN /\ (zeroed /\ ~stale => ~tilted')
    BY <1>0, <1>1, Zenon DEF Motion
  <2>3. ASSUME Window!Ends(d) PROVE Motion'
    BY <1>0, <2>1, <2>2, <2>3, ThreadEnds
  <2>4. ASSUME threads[d].gen = motion, NEW spin \in {FALSE, threads[d].free},
               threads' = [threads EXCEPT ![d].pc = "thrown", ![d].spin = spin]
        PROVE  Motion'
    <3>1. threads[d] \in ThreadsOf(motion) /\ spin \in BOOLEAN
      BY <1>0, ThreadIs
    <3> DEFINE r == [pc |-> "thrown", gen |-> threads[d].gen, free |-> threads[d].free,
                     start |-> threads[d].start, spin |-> spin]
    <3>2. r \in ThreadsOf(motion)
      BY <3>1 DEF ThreadsOf, Stages
    <3>3. threads' = [threads EXCEPT ![d] = r]
      <4> DEFINE t == [threads EXCEPT ![d].pc = "thrown"]
      <4>1. t[d] = [threads[d] EXCEPT !.pc = "thrown"] /\ DOMAIN t = Drags /\ DOMAIN threads = Drags
        BY <1>0 DEF Motion
      <4>2. r = [t[d] EXCEPT !.spin = spin]
        <5>1. [threads[d] EXCEPT !.pc = "thrown"] =
                 [pc |-> "thrown", gen |-> threads[d].gen, free |-> threads[d].free,
                  start |-> threads[d].start, spin |-> threads[d].spin]
          BY <3>1 DEF ThreadsOf
        <5>2. r = [[pc |-> "thrown", gen |-> threads[d].gen, free |-> threads[d].free,
                    start |-> threads[d].start, spin |-> threads[d].spin] EXCEPT !.spin = spin]
          OBVIOUS
        <5>3. t[d] = [pc |-> "thrown", gen |-> threads[d].gen, free |-> threads[d].free,
                      start |-> threads[d].start, spin |-> threads[d].spin]
          BY <4>1, <5>1, Zenon
        <5> HIDE DEF t, r
        <5> QED
          BY <5>2, <5>3, Zenon
      <4>3. threads' = [t EXCEPT ![d] = [t[d] EXCEPT !.spin = spin]]
        BY <2>4
      <4>4. \A e \in Drags : e # d => t[e] = threads[e]
        BY <1>0 DEF Motion
      <4> HIDE DEF t, r
      <4> QED
        BY <1>0, <4>1, <4>2, <4>3, <4>4 DEF Motion
    <3> HIDE DEF r
    <3>4. ~(zeroed /\ ~stale)
      BY <1>0, <2>1, <2>4 DEF Motion, Stands
    <3> QED
      BY <1>0, <2>1, <2>2, <3>2, <3>3, <3>4, ThreadMoves
  <2>5. Motion'
    BY <1>4, <2>3, <2>4 DEF Window!Released, Window!Current
  <2> QED
    BY <1>0, <1>1, <1>2, <2>5 DEF WindowInv
<1> QED
  BY <1>3, <1>4

LEMMA HostStep ==
    ASSUME WindowInv, NEW d \in Drags, Window!FitsHost(d)
    PROVE  WindowInv'
PROOF
<1>0. Visible /\ Motion /\ Hosted /\ sync \in {"idle", "asked", "resize"} /\ orphans \subseteq Actors
  BY DEF WindowInv
<1> DEFINE rest == threads[d].pc = "rest"
<1> USE DEF Window!host, Window!visibility
<1>1. /\ threads[d].pc \in {"thrown", "rest"}
      /\ UNCHANGED <<motion, tilted, sync, zeroed, stale, orphans>>
      /\ UNCHANGED <<win, opening, hideId, hiding, watchdogs, due, wanted, late>>
  BY DEF Window!FitsHost
<1>2. PICK on \in BOOLEAN :
        \/ Window!BeginResize(d, on) /\ UNCHANGED <<threads, fails>>
        \/ (Window!Ends(d) \/ (~rest /\ Window!To(d, "throw"))) /\ UNCHANGED <<expanded, size, base, resizes, overlap, fails>>
        \/ Window!RefusedResize(d) /\ Window!Ends(d)
        \/ Window!PlacedResize(d) /\ (Window!Ends(d) \/ (~rest /\ Window!To(d, "throw"))) /\ UNCHANGED fails
  <2> DEFINE on == threads[d].pc # "rest" /\ Window!Rotates(d)
  <2>1. on \in BOOLEAN
    BY Zenon
  <2>2. \/ Window!BeginResize(d, on) /\ UNCHANGED <<threads, fails>>
        \/ (Window!Ends(d) \/ (~rest /\ Window!To(d, "throw"))) /\ UNCHANGED <<expanded, size, base, resizes, overlap, fails>>
        \/ Window!RefusedResize(d) /\ Window!Ends(d)
        \/ Window!PlacedResize(d) /\ (Window!Ends(d) \/ (~rest /\ Window!To(d, "throw"))) /\ UNCHANGED fails
    BY DEF Window!FitsHost
  <2> HIDE DEF on
  <2> QED
    BY <2>1, <2>2
<1>3. Hosted' /\ fails' \in Nat /\ fails' >= fails
  <2>0. d \in Actors /\ fails \in Nat
    BY <1>0 DEF Actors, Visible
  <2>1. CASE Window!BeginResize(d, on) /\ UNCHANGED <<threads, fails>>
    <3>1. Hosted'
      BY <1>0, <1>1, <2>0, <2>1, Begins, Zenon
    <3> QED
      BY <2>0, <2>1, <3>1
  <2>2. CASE UNCHANGED <<expanded, size, base, resizes, overlap, fails>>
    BY <1>0, <1>1, <2>0, <2>2, HostedKept
  <2>3. CASE Window!RefusedResize(d)
    BY <1>0, <1>1, <2>0, <2>3, Refuses
  <2>4. CASE Window!PlacedResize(d) /\ UNCHANGED fails
    BY <1>0, <1>1, <2>0, <2>4, Places
  <2> QED
    BY <1>2, <2>1, <2>2, <2>3, <2>4
<1>4. Visible'
  BY <1>0, <1>1, <1>3, VisibleKept
<1>5. Motion'
  <2>1. tilted' \in BOOLEAN /\ (zeroed /\ ~stale => ~tilted')
    BY <1>0, <1>1, Zenon DEF Motion
  <2>2. CASE UNCHANGED threads
    BY <1>0, <1>1, <2>2, MotionKept
  <2>3. CASE Window!Ends(d)
    BY <1>0, <1>1, <2>1, <2>3, ThreadEnds
  <2>4. CASE ~rest /\ Window!To(d, "throw")
    <3>1. ~(zeroed /\ ~stale)
      BY <1>0, <1>1, <2>4 DEF Motion, Stands
    <3>2. "throw" \in Stages
      BY DEF Stages
    <3> QED
      BY <1>0, <1>1, <2>1, <2>4, <3>1, <3>2, NextStage
  <2> QED
    BY <1>2, <2>2, <2>3, <2>4
<1> QED
  BY <1>0, <1>1, <1>3, <1>4, <1>5 DEF WindowInv

LEMMA GlideStep ==
    ASSUME WindowInv, NEW d \in Drags, Window!Throws(d) \/ Window!GlideLooks(d) \/ Window!GlideSteps(d)
    PROVE  WindowInv'
PROOF
<1>0. Visible /\ Motion /\ Hosted /\ sync \in {"idle", "asked", "resize"} /\ orphans \subseteq Actors
  BY DEF WindowInv
<1> USE DEF Window!host, Window!visibility
<1>1. /\ UNCHANGED <<motion, zeroed, stale, sync, orphans, fails>>
      /\ UNCHANGED <<win, opening, hideId, hiding, watchdogs, due, wanted, late>>
      /\ UNCHANGED <<expanded, size, base, resizes, overlap>>
  BY DEF Window!Throws, Window!GlideLooks, Window!GlideSteps
<1>2. Visible' /\ Hosted'
  <2>1. fails' \in Nat /\ fails' >= fails
    BY <1>0, <1>1 DEF Visible
  <2> QED
    BY <1>0, <1>1, <2>1, VisibleKept, HostedKept
<1>3. /\ tilted \in BOOLEAN /\ threads[d].free \in BOOLEAN /\ threads[d].start \in BOOLEAN
      /\ zeroed /\ ~stale => ~tilted /\ Stands(threads[d], motion)
  BY <1>0, ThreadIs DEF Motion
<1>4. "glide" \in Stages /\ "step" \in Stages /\ "rest" \in Stages
  BY DEF Stages
<1>5. CASE Window!Throws(d) \/ Window!GlideSteps(d)
  <2>1. ~(zeroed /\ ~stale)
    BY <1>3, <1>5 DEF Window!Throws, Window!GlideSteps, Stands
  <2>2. tilted' \in BOOLEAN
    <3>1. CASE Window!Throws(d)
      <4>1. tilted' = threads[d].start \/ tilted' = (threads[d].start \/ tilted)
        BY <3>1 DEF Window!Throws
      <4> QED
        BY <1>3, <4>1, Zenon
    <3>2. CASE Window!GlideSteps(d)
      <4>1. PICK angle \in {FALSE, threads[d].free} : tilted' = angle
        BY <3>2 DEF Window!GlideSteps
      <4> QED
        BY <1>3, <4>1
    <3> QED
      BY <1>5, <3>1, <3>2
  <2>3. Window!To(d, "glide") \/ Window!To(d, "rest") \/ Window!Ends(d)
    BY <1>5 DEF Window!Throws, Window!GlideSteps
  <2>4. Motion'
    BY <1>0, <1>1, <1>4, <2>1, <2>2, <2>3, NextStage, ThreadEnds
  <2> QED
    BY <1>0, <1>1, <1>2, <2>4 DEF WindowInv
<1>6. CASE Window!GlideLooks(d)
  <2>1. threads[d].pc = "glide" /\ UNCHANGED tilted
        /\ ((threads[d].gen = motion /\ Window!To(d, "step")) \/ Window!Ends(d))
    BY <1>6 DEF Window!GlideLooks, Window!Current
  <2>2. tilted' \in BOOLEAN /\ (zeroed /\ ~stale => ~tilted')
    BY <1>3, <2>1, Zenon
  <2>3. threads[d].gen = motion => ~(zeroed /\ ~stale)
    BY <1>3, <2>1 DEF Stands
  <2>4. Motion'
    BY <1>0, <1>1, <1>4, <2>1, <2>2, <2>3, NextStage, ThreadEnds
  <2> QED
    BY <1>0, <1>1, <1>2, <2>4 DEF WindowInv
<1> QED
  BY <1>5, <1>6

LEMMA WindowNextStep == ASSUME WindowInv, Window!Next PROVE WindowInv'
PROOF
<1>1. Window!Drags = Drags
  BY DEF Window!Drags, Drags
<1> QED
  BY <1>1, OpenStep, HideStep, PageStep, SyncStep, DragStep, HostStep, GlideStep DEF Window!Next

LEMMA WindowSafety == ASSUME WindowInv PROVE WindowSafe
PROOF
<1> USE DEF WindowInv
<1>1. Window!TypeOK
  <2>1. Window!Drags = Drags /\ Window!Actors = Actors /\ Window!Sizes = Sizes
    BY DEF Window!Drags, Drags, Window!Actors, Actors, Window!Sync, Window!Sizes, Sizes, Window!UserSizes, UserSizes
  <2> QED
    BY <2>1 DEF Window!TypeOK, Visible, Motion, Hosted, ThreadsOf, Stages
<1>2. Window!ReopenedStays
  BY DEF Window!ReopenedStays, Visible
<1>3. Window!StaysUpright
  BY Zenon DEF Window!StaysUpright, Motion
<1>4. Window!BaseIsUsers
  BY DEF Window!BaseIsUsers, Hosted, UserSizes, Window!UserSizes, Window!Exists
<1> QED
  BY <1>1, <1>2, <1>3, <1>4 DEF WindowSafe

(* A window that was reopened stays, the motion it was stopped in does not    *)
(* come back, and the size kept for it is the user's, however the commands,   *)
(* the page's answers, the watchdogs and the physics threads interleave       *)
(* (tray.rs; commands/window.rs, run_windows_physics_drag and                 *)
(* set_rotation_host_expanded).                                               *)
THEOREM TheWindowObeys == Spec => []WindowSafe
PROOF
<1> DEFINE Inv == part = "window" => WindowInv
<1>1. Init => Inv
  BY WindowInit DEF Init
<1>2. Inv /\ [Next]_vars => Inv'
  <2> SUFFICES ASSUME Inv, [Next]_vars, part' = "window"
               PROVE  WindowInv'
    OBVIOUS
  <2>1. CASE WindowNext
    BY <2>1, WindowNextStep DEF WindowNext
  <2>2. CASE RecorderNext \/ ClipsNext \/ BroadcastNext \/ UpdatesNext
    BY <2>2 DEF RecorderNext, ClipsNext, BroadcastNext, UpdatesNext
  <2>3. CASE UNCHANGED vars
    <3>1. part = "window" /\ UNCHANGED windowVars
      BY <2>3 DEF vars
    <3>2. WindowInv
      BY <3>1
    <3>3. fails' \in Nat /\ fails' >= fails
      BY <3>1, <3>2 DEF windowVars, WindowInv, Visible
    <3>4. Visible' /\ Motion' /\ Hosted'
      BY <3>1, <3>2, <3>3, VisibleKept, MotionKept, HostedKept DEF windowVars, WindowInv
    <3> QED
      BY <3>1, <3>2, <3>4 DEF windowVars, WindowInv
  <2> QED
    BY <2>1, <2>2, <2>3 DEF Next
<1>3. Inv => WindowSafe
  BY WindowSafety DEF WindowSafe
<1> QED
  BY <1>1, <1>2, <1>3, PTL DEF Spec, vars
=============================================================================
