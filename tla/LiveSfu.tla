------------------------------- MODULE LiveSfu -------------------------------
(* The live broadcast of the agent's screen: live_sfu.rs, whose control call   *)
(* the Relay repeats to renew a lease, and whose publisher task sends the      *)
(* frames of a live capture (recording.rs) to a room while the lease lasts.    *)
(* Control and publisher run on different threads and both start and stop the  *)
(* one capture; starting it lets go of the recorder's mutex twice.             *)
EXTENDS Naturals, FiniteSets

CONSTANTS
    Streams,      \* stream settings the Relay asks for, positive numbers
    MaxRenewals,  \* bound: control calls
    MaxPings      \* bound: pings of viewers

Nil == 0
Captures == 1..MaxRenewals

VARIABLES
    lease,       \* DEADLINE_MS lies ahead
    requested,   \* the frame deadline of recording.rs lies ahead
    generation,  \* STREAM_GENERATION
    config,      \* the stream of the configuration slot, Nil before the first
    task,        \* the publisher: "none" also when its handle is finished
    session,     \* stream and generation the publisher works with
    live,        \* manager.live: capture held, and its stream (live_config)
    capturing,   \* the captures that run
    begun,       \* the stream each capture was begun with
    control,     \* the control call under way: where it is, what it asks, what it took
    ending,      \* the capture the ending publisher took to stop it
    calls,       \* control calls so far
    pings,       \* PING_SEQUENCE, and the ping that is shown
    overlooked   \* history: a renewal took an ending publisher for a running one

vars == <<lease, requested, generation, config, task, session, live, capturing, begun,
          control, ending, calls, pings, overlooked>>

Idle == [pc |-> "idle", stream |-> Nil, capture |-> Nil]
NoSession == [stream |-> Nil, generation |-> 0]
NoLive == [capture |-> Nil, stream |-> Nil]

Init ==
    /\ lease = FALSE /\ requested = FALSE
    /\ generation = 1 /\ config = Nil
    /\ task = "none" /\ session = NoSession
    /\ live = NoLive /\ capturing = {} /\ begun = [c \in Captures |-> Nil]
    /\ control = Idle /\ ending = Nil /\ calls = 0
    /\ pings = [made |-> 0, shown |-> 0]
    /\ overlooked = FALSE

(* cleanup_finished, of the live capture.                                     *)
Cleaned(l) == IF l.capture \in capturing THEN l ELSE NoLive

-----------------------------------------------------------------------------
(* Time and the capture.                                                      *)

LeaseEnds ==
    /\ lease
    /\ lease' = FALSE
    /\ UNCHANGED <<requested, generation, config, task, session, live, capturing, begun,
                   control, ending, calls, pings, overlooked>>

FramesEnd ==
    /\ requested
    /\ requested' = FALSE
    /\ UNCHANGED <<lease, generation, config, task, session, live, capturing, begun,
                   control, ending, calls, pings, overlooked>>

CaptureEnds(c) ==
    /\ c \in capturing
    /\ capturing' = capturing \ {c}
    /\ UNCHANGED <<lease, requested, generation, config, task, session, live, begun,
                   control, ending, calls, pings, overlooked>>

-----------------------------------------------------------------------------
(* control, one call at a time from the loop of the Relay connection.         *)

Control(pc) == control' = [control EXCEPT !.pc = pc]

Disable ==
    /\ control.pc = "idle" /\ calls < MaxRenewals
    /\ calls' = calls + 1
    /\ lease' = FALSE /\ requested' = FALSE
    /\ generation' = generation + 1
    /\ control' = [Idle EXCEPT !.pc = "take"]
    /\ UNCHANGED <<config, task, session, live, capturing, begun, ending, pings, overlooked>>

(* stop_live_stream_capture: taken under the mutex, stopped after it.         *)
TakeToStop ==
    /\ control.pc = "take"
    /\ control' = [control EXCEPT !.pc = "stop", !.capture = Cleaned(live).capture]
    /\ live' = NoLive
    /\ UNCHANGED <<lease, requested, generation, config, task, session, capturing, begun,
                   ending, calls, pings, overlooked>>

ControlStops ==
    /\ control.pc = "stop"
    /\ capturing' = capturing \ {control.capture}
    /\ control' = Idle
    /\ UNCHANGED <<lease, requested, generation, config, task, session, live, begun,
                   ending, calls, pings, overlooked>>

(* The settings are checked and the lease renewed.                            *)
Enable(s) ==
    /\ control.pc = "idle" /\ calls < MaxRenewals
    /\ calls' = calls + 1
    /\ lease' = TRUE /\ requested' = TRUE
    /\ control' = [pc |-> "capture", stream |-> s, capture |-> Nil]
    /\ UNCHANGED <<generation, config, task, session, live, capturing, begun, ending, pings, overlooked>>

(* start_live_stream_capture keeps the capture that has these settings.       *)
KeepCapture ==
    /\ control.pc = "capture"
    /\ Cleaned(live).stream = control.stream
    /\ Control("config")
    /\ UNCHANGED <<lease, requested, generation, config, task, session, live, capturing,
                   begun, ending, calls, pings, overlooked>>

(* The old capture left where it is.                                          *)
LeaveOld ==
    /\ control.pc = "capture"
    /\ Cleaned(live).stream # control.stream
    /\ Control("replace")
    /\ UNCHANGED <<lease, requested, generation, config, task, session, live, capturing,
                   begun, ending, calls, pings, overlooked>>

TakeOld ==
    /\ control.pc = "capture"
    /\ Cleaned(live).stream # control.stream
    /\ control' = [control EXCEPT !.pc = "replace", !.capture = Cleaned(live).capture]
    /\ live' = [Cleaned(live) EXCEPT !.capture = Nil]
    /\ UNCHANGED <<lease, requested, generation, config, task, session, capturing, begun,
                   ending, calls, pings, overlooked>>

(* The old one is stopped and a new one begun; its failure ends the call.     *)
Replace ==
    /\ control.pc = "replace"
    /\ begun' = [begun EXCEPT ![calls] = control.stream]
    /\ capturing' = (capturing \ {control.capture}) \cup {calls}
    /\ control' = [control EXCEPT !.pc = "install", !.capture = calls]
    /\ UNCHANGED <<lease, requested, generation, config, task, session, live, ending, calls, pings, overlooked>>

ReplaceFails ==
    /\ control.pc = "replace"
    /\ capturing' = capturing \ {control.capture}
    /\ control' = Idle
    /\ UNCHANGED <<lease, requested, generation, config, task, session, live, begun,
                   ending, calls, pings, overlooked>>

Install ==
    /\ control.pc = "install"
    /\ live' = [capture |-> control.capture, stream |-> control.stream]
    /\ control' = [control EXCEPT !.pc = "config", !.capture = Nil]
    /\ UNCHANGED <<lease, requested, generation, config, task, session, capturing, begun,
                   ending, calls, pings, overlooked>>

SetConfig ==
    /\ control.pc = "config"
    /\ config' = control.stream
    /\ Control(IF config \in {Nil, control.stream} THEN "task" ELSE "bump")
    /\ UNCHANGED <<lease, requested, generation, task, session, live, capturing, begun,
                   ending, calls, pings, overlooked>>

Bump ==
    /\ control.pc = "bump"
    /\ generation' = generation + 1
    /\ Control("task")
    /\ UNCHANGED <<lease, requested, config, task, session, live, capturing, begun,
                   ending, calls, pings, overlooked>>

Spawn == task' = IF task = "none" THEN "loop" ELSE task

EnsureTask ==
    /\ control.pc = "task"
    /\ Spawn
    /\ control' = Idle
    /\ overlooked' = (overlooked \/ task \in {"stopping", "returning"})
    /\ UNCHANGED <<lease, requested, generation, config, session, live, capturing, begun,
                   ending, calls, pings>>

ControlStep ==
    TakeToStop \/ ControlStops \/ KeepCapture \/ TakeOld \/ Replace \/ ReplaceFails
    \/ Install \/ SetConfig \/ Bump \/ EnsureTask

-----------------------------------------------------------------------------
(* publisher_loop.                                                            *)

ReadConfig ==
    /\ task = "loop" /\ lease /\ config # Nil
    /\ task' = "configured"
    /\ session' = [session EXCEPT !.stream = config]
    /\ UNCHANGED <<lease, requested, generation, config, live, capturing, begun, control,
                   ending, calls, pings, overlooked>>

ReadGeneration ==
    /\ task = "configured"
    /\ task' = "session"
    /\ session' = [session EXCEPT !.generation = generation]
    /\ requested' \in {requested, TRUE}
    /\ UNCHANGED <<lease, generation, config, live, capturing, begun, control, ending, calls, pings, overlooked>>

(* The tick of a session: the frames stay requested while it goes on.         *)
SessionTick ==
    /\ task = "session"
    /\ lease /\ session.generation = generation
    /\ ~ requested
    /\ requested' = TRUE
    /\ UNCHANGED <<lease, generation, config, task, session, live, capturing, begun,
                   control, ending, calls, pings, overlooked>>

(* A session ends with its lease or generation, with the room or a frame of   *)
(* another size; the loop looks at the lease again.                           *)
SessionEnds ==
    /\ task = "session"
    /\ task' = "loop"
    /\ session' = NoSession
    /\ UNCHANGED <<lease, requested, generation, config, live, capturing, begun, control,
                   ending, calls, pings, overlooked>>

LoopReturns ==
    /\ task = "loop" /\ ~ lease
    /\ task' = "none"
    /\ requested' = FALSE
    /\ UNCHANGED <<lease, generation, config, session, live, capturing, begun, control,
                   ending, calls, pings, overlooked>>

LoopEnds ==
    /\ task = "loop" /\ ~ lease
    /\ task' = "off"
    /\ requested' = FALSE
    /\ UNCHANGED <<lease, generation, config, session, live, capturing, begun, control,
                   ending, calls, pings, overlooked>>

PublisherTakes ==
    /\ task = "off"
    /\ task' = "stopping"
    /\ ending' = Cleaned(live).capture
    /\ live' = NoLive
    /\ UNCHANGED <<lease, requested, generation, config, session, capturing, begun,
                   control, calls, pings, overlooked>>

PublisherStops ==
    /\ task = "stopping"
    /\ task' = "returning"
    /\ capturing' = capturing \ {ending}
    /\ ending' = Nil
    /\ UNCHANGED <<lease, requested, generation, config, session, live, begun, control,
                   calls, pings, overlooked>>

(* Only now is the handle finished, which control asks.                       *)
PublisherReturns ==
    /\ task = "returning"
    /\ task' = "none"
    /\ UNCHANGED <<lease, requested, generation, config, session, live, capturing, begun,
                   control, ending, calls, pings, overlooked>>

(* A ping of a viewer is numbered when it is valid, and shown unless another  *)
(* was shown less than 250 ms ago.                                            *)
Ping(shown) ==
    /\ task = "session" /\ pings.made < MaxPings
    /\ pings' = [made |-> pings.made + 1,
                 shown |-> IF shown THEN pings.made + 1 ELSE pings.shown]
    /\ UNCHANGED <<lease, requested, generation, config, task, session, live, capturing,
                   begun, control, ending, calls, overlooked>>

PublisherStep ==
    ReadConfig \/ ReadGeneration \/ SessionTick \/ SessionEnds \/ LoopEnds
    \/ PublisherTakes \/ PublisherStops \/ PublisherReturns

Next ==
    \/ LeaseEnds \/ FramesEnd \/ \E c \in Captures : CaptureEnds(c)
    \/ Disable \/ \E s \in Streams : Enable(s)
    \/ ControlStep \/ PublisherStep
    \/ \E shown \in BOOLEAN : Ping(shown)

Spec == Init /\ [][Next]_vars

-----------------------------------------------------------------------------
(* Every variable has its type.                                               *)
TypeOK ==
    /\ lease \in BOOLEAN /\ requested \in BOOLEAN
    /\ generation \in 1..(2 * MaxRenewals + 1)
    /\ config \in Streams \cup {Nil}
    /\ task \in {"none", "loop", "configured", "session", "off", "stopping", "returning"}
    /\ session \in [stream : Streams \cup {Nil}, generation : 0..(2 * MaxRenewals + 1)]
    /\ live \in [capture : Captures \cup {Nil}, stream : Streams \cup {Nil}]
    /\ capturing \subseteq Captures
    /\ begun \in [Captures -> Streams \cup {Nil}]
    /\ control \in [pc : {"idle", "take", "stop", "capture", "replace", "install", "config",
                          "bump", "task"},
                    stream : Streams \cup {Nil}, capture : Captures \cup {Nil}]
    /\ ending \in Captures \cup {Nil}
    /\ calls \in 0..MaxRenewals
    /\ overlooked \in BOOLEAN
    /\ pings \in [made : 0..MaxPings, shown : 0..MaxPings]

(* Every capture that runs is in the hands of someone who can stop it: the    *)
(* manager, the control call or the ending publisher.  A second capture       *)
(* installed over a first would go on for the life of the agent.              *)
NoLostCapture == capturing \subseteq {live.capture, control.capture, ending}

(* Between two control calls, a capture that runs has a publisher that will   *)
(* stop it when the lease is over, so that an agent the Relay has forgotten   *)
(* does not capture the screen for ever; unless a renewal overlooked that the *)
(* publisher had already stopped what it found (needs_start in control).      *)
CaptureHasPublisher ==
    control.pc = "idle" /\ ~ overlooked /\ capturing # {} =>
       \/ task \in {"loop", "configured", "session", "off"}
       \/ capturing \subseteq {ending}
=============================================================================
