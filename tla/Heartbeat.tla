------------------------------- MODULE Heartbeat -------------------------------
(* Who notices that a connection is dead, and when: the heartbeat task of the  *)
(* agent and the receive loop that takes the answers (supervisor.rs), the      *)
(* handler in the Relay that answers between two messages and gives up a       *)
(* silent agent (ws_agent in app.py).  A tick of the clock is five seconds.    *)
EXTENDS Naturals, Sequences

CONSTANTS
    Interval,   \* HEARTBEAT_INTERVAL
    Timeout,    \* HEARTBEAT_TIMEOUT
    Stale,      \* AGENT_HEARTBEAT_STALE_SEC
    MaxHold,    \* bound: how long the handler, the loop or the network hold a message up
    MaxTicks    \* bound: the clock

VARIABLES
    clock,
    since,      \* ticks since the heartbeat task was last due
    ping,       \* what the task does: "wait", or "sent" before it notes the time
    awaiting,   \* ticks since the ping it waits for, 0 for none, 1 when just noted
    pings,      \* pings on their way to the Relay, with how long they are
    pongs,      \* answers on their way to the loop
    failed,     \* the failure in its channel
    alive,      \* the connection stands
    silent,     \* ticks since the handler last received something
    cut,        \* the network delivers nothing any more
    asleep,     \* the computer of the agent sleeps
    slept,      \* history: it did
    late,       \* history: some ping was not answered, in the loop, within Timeout
    early       \* history: an answer was taken before the task had noted its ping

vars == <<clock, since, ping, awaiting, pings, pongs, failed, alive, silent, cut, asleep, slept, late, early>>

Init ==
    /\ clock = 0 /\ since = 0 /\ ping = "wait" /\ awaiting = 0
    /\ pings = <<>> /\ pongs = <<>>
    /\ failed = "none" /\ alive = TRUE /\ silent = 0 /\ cut = FALSE
    /\ asleep = FALSE /\ slept = FALSE
    /\ late = FALSE /\ early = FALSE

-----------------------------------------------------------------------------
Aged(q) == [i \in 1..Len(q) |-> q[i] + 1]
Oldest(q) == IF q = <<>> THEN 0 ELSE q[1]

(* The failure is read once it is there, and a task that is due runs; beyond  *)
(* MaxHold a message is held up only by a dead network.                       *)
Pass ==
    /\ alive /\ clock < MaxTicks /\ ~ asleep
    /\ since < Interval /\ ping = "wait" /\ failed = "none"
    /\ awaiting <= Timeout
    /\ cut \/ (Oldest(pings) < MaxHold /\ Oldest(pongs) < MaxHold)
    /\ silent <= Stale
    /\ clock' = clock + 1 /\ since' = since + 1 /\ silent' = silent + 1
    /\ awaiting' = IF awaiting = 0 THEN 0 ELSE awaiting + 1
    /\ pings' = Aged(pings) /\ pongs' = Aged(pongs)
    /\ late' = (late \/ \E q \in {pings', pongs'} : Oldest(q) >= Timeout)
    /\ UNCHANGED <<ping, failed, alive, cut, asleep, slept, early>>

Sleep ==
    /\ alive /\ slept = asleep
    /\ asleep' = ~ asleep
    /\ slept' = TRUE
    /\ UNCHANGED <<clock, since, ping, awaiting, pings, pongs, failed, alive, silent, cut, late, early>>

PassAsleep ==
    /\ alive /\ clock < MaxTicks /\ asleep
    /\ cut \/ Oldest(pings) < MaxHold
    /\ silent <= Stale
    /\ clock' = clock + 1 /\ silent' = silent + 1
    /\ pings' = Aged(pings) /\ pongs' = Aged(pongs)
    /\ late' = (late \/ \E q \in {pings', pongs'} : Oldest(q) >= Timeout)
    /\ UNCHANGED <<since, ping, awaiting, failed, alive, cut, asleep, slept, early>>

Cut ==
    /\ alive /\ ~ cut
    /\ cut' = TRUE
    /\ UNCHANGED <<clock, since, ping, awaiting, pings, pongs, failed, alive, silent, asleep, slept, late, early>>

-----------------------------------------------------------------------------
(* The heartbeat task.                                                        *)

(* No second ping while the first is waited for.                              *)
Due ==
    /\ alive /\ ~ asleep /\ failed = "none" /\ ping = "wait"
    /\ since = Interval
    /\ since' = 0
    /\ IF awaiting > 0
       THEN UNCHANGED <<ping, pings>>
       ELSE ping' = "sent" /\ pings' = Append(pings, 0)
    /\ UNCHANGED <<clock, awaiting, pongs, failed, alive, silent, cut, asleep, slept, late, early>>

SendFails ==
    /\ alive /\ ~ asleep /\ failed = "none" /\ ping = "wait" /\ cut
    /\ since = Interval /\ awaiting = 0
    /\ failed' = "send_failed"
    /\ UNCHANGED <<clock, since, ping, awaiting, pings, pongs, alive, silent, cut, asleep, slept, late, early>>

(* Only after the send has returned the time is noted.                        *)
Note ==
    /\ alive /\ ~ asleep /\ ping = "sent"
    /\ ping' = "wait" /\ awaiting' = 1
    /\ UNCHANGED <<clock, since, pings, pongs, failed, alive, silent, cut, asleep, slept, late, early>>

TimedOutSoon == awaiting > 1

(* heartbeat_timed_out                                                        *)
TimedOut == awaiting > Timeout

Watch ==
    /\ alive /\ ~ asleep /\ failed = "none" /\ ping = "wait"
    /\ TimedOut
    /\ failed' = "pong_timeout"
    /\ UNCHANGED <<clock, since, ping, awaiting, pings, pongs, alive, silent, cut, asleep, slept, late, early>>

-----------------------------------------------------------------------------
(* The receive loop.                                                          *)

(* A pong answers whatever is waited for: take().                             *)
Pong ==
    /\ alive /\ ~ asleep /\ pongs # <<>> /\ ~ cut
    /\ pongs' = Tail(pongs)
    /\ awaiting' = 0
    /\ early' = (early \/ ping = "sent")
    /\ UNCHANGED <<clock, since, ping, pings, failed, alive, silent, cut, asleep, slept, late>>

(* The branch of the failure ends the connection.                             *)
Fails ==
    /\ alive /\ failed # "none"
    /\ alive' = FALSE
    /\ UNCHANGED <<clock, since, ping, awaiting, pings, pongs, failed, silent, cut, asleep, slept, late, early>>

-----------------------------------------------------------------------------
(* The handler in the Relay: it answers a ping when it comes to it.           *)

Handle ==
    /\ alive /\ pings # <<>> /\ ~ cut
    /\ pings' = Tail(pings)
    /\ pongs' = Append(pongs, Oldest(pings))
    /\ silent' = 0
    /\ UNCHANGED <<clock, since, ping, awaiting, failed, alive, cut, asleep, slept, late, early>>

(* Nothing received for longer than AGENT_HEARTBEAT_STALE_SEC: closed.        *)
GiveUp ==
    /\ alive /\ silent > Stale
    /\ alive' = FALSE /\ failed' = "activity_timeout"
    /\ UNCHANGED <<clock, since, ping, awaiting, pings, pongs, silent, cut, asleep, slept, late, early>>

Next ==
    \/ Pass \/ PassAsleep \/ Sleep \/ Cut
    \/ Due \/ SendFails \/ Note \/ Watch
    \/ Pong \/ Fails
    \/ Handle \/ GiveUp

Spec == Init /\ [][Next]_vars

-----------------------------------------------------------------------------
(* Every variable has its type.                                               *)
TypeOK ==
    /\ clock \in 0..MaxTicks /\ since \in 0..Interval
    /\ ping \in {"wait", "sent"} /\ awaiting \in 0..(Timeout + 1)
    /\ pings \in Seq(0..MaxTicks) /\ pongs \in Seq(0..MaxTicks)
    /\ failed \in {"none", "send_failed", "pong_timeout", "activity_timeout"}
    /\ alive \in BOOLEAN /\ silent \in 0..(Stale + 1)
    /\ cut \in BOOLEAN /\ asleep \in BOOLEAN /\ slept \in BOOLEAN
    /\ late \in BOOLEAN /\ early \in BOOLEAN

(* The task calls a connection dead only when an answer really was late: a    *)
(* ping that is skipped, an answer that comes after the failure of an earlier *)
(* one or between two ticks does not end a good connection.  The exception is *)
(* an answer taken between the send and the note of its time, which leaves    *)
(* the task waiting for an answer it already had (1950-1955).                 *)
AlarmTrue == failed = "pong_timeout" => late \/ early

(* The Relay gives up only on an agent whose messages no longer arrive: a     *)
(* live one that is awake sends a ping well within the time.                  *)
GivenUpIsCut == failed = "activity_timeout" => cut \/ slept

(* A cut connection does not outlive one interval and one timeout: the task   *)
(* never waits in vain for longer, nor stops pinging, unless it slept.         *)
Noticed == alive /\ ~ slept => silent <= Interval + Timeout
===============================================================================
