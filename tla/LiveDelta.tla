------------------------------- MODULE LiveDelta -------------------------------
(***************************************************************************)
(* The live game on its way from the agent to the guild-match API and the   *)
(* viewers: the poller that captures it as streams of numbered frames       *)
(* (lcu/events.rs), the supervisor that buffers and sends them              *)
(* (relay/supervisor.rs), and the handler of live_game_update that rebuilds *)
(* the state from a stored base and asks for what it misses (relay/app.py). *)
(*                                                                         *)
(* A frame is <<stream, seq>> and stands for the state captured with it.    *)
(* Frame 1 of a stream is a full state, every other one a delta from the    *)
(* state of the frame before it; applied to anything else a delta gives     *)
(* something the agent never captured, Torn.                                *)
(***************************************************************************)
EXTENDS Naturals, Sequences, FiniteSets, Filtering

CONSTANTS
    Conns,        \* agent connections, each with its handler in the Relay
    Capacity,     \* MAX_DURABLE_REPLAY_EVENTS
    BatchCap,     \* capacity of the channel from the poller to the supervisor
    ResyncCap,    \* capacity of the channel live_game_resync
    ReplayLimit,  \* highest seq for which a missing base is asked for again (1024)
    MaxStreams,   \* bound: streams the poller may start
    MaxSeq,       \* bound: frames of one stream
    MaxQueue,     \* bound: messages in flight in one direction of a connection
    MaxFaults,    \* bound: losses, restarts, expiries, oversized frames, API failures
    None          \* no connection, no frame

ASSUME CapacitiesArePositive ==
    Capacity \in Nat \ {0} /\ BatchCap \in Nat \ {0} /\ ResyncCap \in Nat \ {0}
ASSUME BoundsAreNats ==
    ReplayLimit \in Nat /\ MaxStreams \in Nat /\ MaxSeq \in Nat /\ MaxQueue \in Nat /\ MaxFaults \in Nat

Streams == 1..MaxStreams
Frames == Streams \X (1..MaxSeq)

ASSUME NoneIsNew == None \notin Conns \cup Frames

Torn == MaxSeq + 1

VARIABLES
    conn,      \* the agent's bound connection
    stream,    \* live_stream_id of the poller, 0 if none
    seq,       \* live_seq
    started,   \* streams started so far
    held,      \* frame the poller is sending to the supervisor
    batches,   \* channel from the poller to the supervisor
    resyncs,   \* requests in the channel live_game_resync
    stuck,     \* the supervisor waits for room in live_game_resync
    buffer,    \* live frames of DurableReplayBuffer, also saved to disk
    toRelay,   \* frames of each connection on their way to its handler
    toAgent,   \* messages of the current connection's handler to the agent
    routed,    \* the connection the user is bound to
    phase,     \* "none" | "idle" | "api" | "commit" : the handler of a connection
    current,   \* the frame it handles
    rebuilt,   \* the state it has rebuilt for it
    baseSeq,   \* Redis: seq of the stored state of a stream, 0 if none
    baseState, \* Redis: the frame whose state that is
    blocked,   \* Redis: streams with an API block key
    delivered, \* frames the API has handled
    skipped,   \* frames too large to send
    faults

poller == <<stream, seq, started, held>>
agent  == <<poller, batches, resyncs, stuck, buffer, skipped>>
redis  == <<baseSeq, baseState, blocked>>
relay  == <<routed, phase, current, rebuilt, delivered>>
vars   == <<conn, agent, toRelay, toAgent, relay, redis, faults>>

Ack(f) == [type |-> "event_ack", frame |-> f]
Resend(s, m, n) == [type |-> "live_delta_resend", stream |-> s, from |-> m, to |-> n]
Resync(s) == [type |-> "live_delta_resync", stream |-> s]

Init ==
    /\ conn = None
    /\ stream = 0 /\ seq = 0 /\ started = 0 /\ held = None
    /\ batches = <<>> /\ resyncs = 0 /\ stuck = FALSE
    /\ buffer = <<>> /\ skipped = {}
    /\ toRelay = [c \in Conns |-> <<>>] /\ toAgent = <<>>
    /\ routed = None
    /\ phase = [c \in Conns |-> "none"]
    /\ current = [c \in Conns |-> None]
    /\ rebuilt = [c \in Conns |-> 0]
    /\ baseSeq = [s \in Streams |-> 0]
    /\ baseState = [s \in Streams |-> 0]
    /\ blocked = {}
    /\ delivered = {}
    /\ faults = 0

Fault == faults < MaxFaults /\ faults' = faults + 1

Buffered == Elements(buffer)
FramesOf(s) == {s} \X (1..MaxSeq)

-------------------------------------------------------------------------------
(* The poller                                                                 *)

\* push_live_game_changed: the state changed, or was never sent.
NextFrame ==
    IF stream = 0 THEN <<started + 1, 1>> ELSE <<stream, seq + 1>>

Capture ==
    /\ conn # None
    /\ held = None
    /\ NextFrame \in Frames
    /\ held' = NextFrame
    /\ stream' = NextFrame[1]
    /\ seq' = NextFrame[2]
    /\ started' = IF stream = 0 THEN started + 1 ELSE started
    /\ UNCHANGED <<conn, batches, resyncs, stuck, buffer, skipped, toRelay, toAgent, relay, redis, faults>>

\* batch_tx.send: waits while the channel is full.
SendBatch ==
    /\ held # None
    /\ Len(batches) < BatchCap
    /\ batches' = Append(batches, held)
    /\ held' = None
    /\ UNCHANGED <<conn, stream, seq, started, resyncs, stuck, buffer, skipped, toRelay, toAgent,
                   relay, redis, faults>>

\* force_live_game_resync
ForceResync ==
    /\ held = None
    /\ resyncs > 0
    /\ resyncs' = resyncs - 1
    /\ stream' = 0
    /\ seq' = 0
    /\ UNCHANGED <<conn, started, held, batches, stuck, buffer, skipped, toRelay, toAgent,
                   relay, redis, faults>>

-------------------------------------------------------------------------------
(* The supervisor                                                             *)

Running == conn # None /\ ~stuck

Send(c, frames) ==
    /\ Len(toRelay[c]) + Len(frames) <= MaxQueue
    /\ toRelay' = [toRelay EXCEPT ![c] = @ \o frames]

\* A bound connection: a poller of its own, and a replay of the buffer.
Connect(c) ==
    /\ conn = None
    /\ phase[c] = "none"
    /\ conn' = c
    /\ routed' = c
    /\ phase' = [phase EXCEPT ![c] = "idle"]
    /\ Send(c, buffer)
    /\ UNCHANGED <<agent, toAgent, current, rebuilt, delivered, redis, faults>>

\* Fault for a mutant: the buffer grows without limit.
TrackedUnbounded(b, f) == Append(b, f)

\* DurableReplayBuffer::track
Tracked(b, f) == Append(IF Len(b) >= Capacity THEN Tail(b) ELSE b, f)

\* A batch of the poller: the frame is tracked and sent.
Track ==
    /\ Running
    /\ batches # <<>>
    /\ batches' = Tail(batches)
    /\ buffer' = Tracked(buffer, Head(batches))
    /\ Send(conn, <<Head(batches)>>)
    /\ UNCHANGED <<conn, poller, resyncs, stuck, skipped, toAgent, relay, redis, faults>>

\* The serialised frame exceeds MAX_RELAY_MESSAGE_BYTES.
SkipOversized ==
    /\ Fault
    /\ Running
    /\ batches # <<>>
    /\ batches' = Tail(batches)
    /\ skipped' = skipped \cup {Head(batches)}
    /\ UNCHANGED <<conn, poller, resyncs, stuck, buffer, toRelay, toAgent, relay, redis>>

\* durable_replay_tick
Tick ==
    /\ Running
    /\ buffer # <<>>
    /\ Send(conn, buffer)
    /\ UNCHANGED <<conn, agent, toAgent, relay, redis, faults>>

Message(type) ==
    /\ Running
    /\ toAgent # <<>>
    /\ Head(toAgent).type = type
    /\ toAgent' = Tail(toAgent)

\* DurableReplayBuffer::ack
AckReceived ==
    /\ Message("event_ack")
    /\ buffer' = Kept(buffer, Frames \ {Head(toAgent).frame})
    /\ UNCHANGED <<conn, poller, batches, resyncs, stuck, skipped, toRelay, relay, redis, faults>>

\* live_game_resync.send(()).await: with the channel full the loop stops here.
SignalPoller ==
    IF resyncs < ResyncCap
    THEN resyncs' = resyncs + 1 /\ UNCHANGED stuck
    ELSE stuck' = TRUE /\ UNCHANGED resyncs

\* Fault for a mutant: the stream is dropped and nobody asks for a new one.
DropSilently(s) ==
    /\ buffer' = Kept(buffer, Frames \ FramesOf(s))
    /\ UNCHANGED <<resyncs, stuck>>

\* drop_live_stream, then a resync of the poller
DropStream(s) ==
    /\ buffer' = Kept(buffer, Frames \ FramesOf(s))
    /\ SignalPoller

LiveRange(s, m, n) == Kept(buffer, {s} \X (m..n))

\* replay_live_delta_range: everything that was asked for, or a new stream
ResendReceived ==
    /\ Message("live_delta_resend")
    /\ LET m == Head(toAgent)
           range == LiveRange(m.stream, m.from, m.to) IN
       \/ /\ Len(range) = m.to + 1 - m.from
          /\ Send(conn, range)
          /\ UNCHANGED <<buffer, resyncs, stuck>>
       \/ /\ Len(range) # m.to + 1 - m.from
          /\ DropStream(m.stream)
          /\ UNCHANGED toRelay
    /\ UNCHANGED <<conn, poller, batches, skipped, relay, redis, faults>>

ResyncReceived ==
    /\ Message("live_delta_resync")
    /\ DropStream(Head(toAgent).stream)
    /\ UNCHANGED <<conn, poller, batches, skipped, toRelay, relay, redis, faults>>

\* The poller made room: the supervisor goes on.
Unstuck ==
    /\ stuck
    /\ resyncs < ResyncCap
    /\ resyncs' = resyncs + 1
    /\ stuck' = FALSE
    /\ UNCHANGED <<conn, poller, batches, buffer, skipped, toRelay, toAgent, relay, redis, faults>>

\* The end of connect_once: the poller and its channels end with it.
Disconnected ==
    /\ conn' = None
    /\ stream' = 0 /\ seq' = 0 /\ held' = None
    /\ batches' = <<>> /\ resyncs' = 0 /\ stuck' = FALSE
    /\ toAgent' = <<>>
    /\ UNCHANGED <<started, buffer, skipped>>

\* The connection fails, or the agent restarts; the buffer's live frames are on
\* disk before they are sent.
Disconnect ==
    /\ Fault
    /\ conn # None
    /\ Disconnected
    /\ UNCHANGED <<toRelay, relay, redis>>

\* hard_revive_if_unhealthy: a loop that stands still receives nothing from the
\* network, and is aborted.
HardRevive ==
    /\ stuck
    /\ Disconnected
    /\ UNCHANGED <<toRelay, relay, redis, faults>>

-------------------------------------------------------------------------------
(* The handler of live_game_update                                            *)

Move(c, p) == phase' = [phase EXCEPT ![c] = p]

Tell(c, message) ==
    IF conn = c
    THEN Len(toAgent) < MaxQueue /\ toAgent' = Append(toAgent, message)
    ELSE UNCHANGED toAgent

\* Fault for a mutant: any newer delta is applied to the stored state.
StatusWithoutGap(f) ==
    IF f[2] <= baseSeq[f[1]] THEN "duplicate"
    ELSE IF f[2] = 1 \/ baseSeq[f[1]] # 0 THEN "ready"
    ELSE "resync"

\* _prepare_live_game_frame
Status(f) ==
    IF f[2] <= baseSeq[f[1]] THEN "duplicate"
    ELSE IF f[2] = 1 \/ (baseSeq[f[1]] # 0 /\ f[2] = baseSeq[f[1]] + 1) THEN "ready"
    ELSE IF baseSeq[f[1]] # 0 \/ f[2] <= ReplayLimit THEN "gap"
    ELSE "resync"

\* _apply_live_delta_ops
Rebuild(f) ==
    IF f[2] = 1 \/ baseState[f[1]] + 1 = f[2] THEN f[2] ELSE Torn

\* A frame arrives: its base is read, and it is acknowledged, refused or
\* rebuilt.  Without a route for the socket it is ignored.
Receive(c) ==
    /\ phase[c] = "idle"
    /\ toRelay[c] # <<>>
    /\ toRelay' = [toRelay EXCEPT ![c] = Tail(@)]
    /\ LET f == Head(toRelay[c]) IN
       \/ /\ routed # c
          /\ UNCHANGED <<phase, current, rebuilt, toAgent>>
       \/ /\ routed = c /\ Status(f) = "duplicate"
          /\ Tell(c, Ack(f))
          /\ UNCHANGED <<phase, current, rebuilt>>
       \/ /\ routed = c /\ Status(f) = "gap"
          /\ IF f[1] \in blocked THEN UNCHANGED toAgent
             ELSE Tell(c, Resend(f[1], baseSeq[f[1]] + 1, f[2]))
          /\ UNCHANGED <<phase, current, rebuilt>>
       \/ /\ routed = c /\ Status(f) = "resync"
          /\ Tell(c, Resync(f[1]))
          /\ UNCHANGED <<phase, current, rebuilt>>
       \/ /\ routed = c /\ Status(f) = "ready"
          /\ Move(c, "api")
          /\ current' = [current EXCEPT ![c] = f]
          /\ rebuilt' = [rebuilt EXCEPT ![c] = Rebuild(f)]
          /\ UNCHANGED toAgent
    /\ UNCHANGED <<conn, agent, routed, delivered, redis, faults>>

Finish(c) ==
    /\ Move(c, "idle")
    /\ current' = [current EXCEPT ![c] = None]
    /\ rebuilt' = [rebuilt EXCEPT ![c] = 0]

\* _deliver_guild_match_live: the API has taken the state
Deliver(c) ==
    /\ phase[c] = "api"
    /\ delivered' = delivered \cup {current[c]}
    /\ Move(c, "commit")
    /\ UNCHANGED <<conn, agent, toRelay, toAgent, routed, current, rebuilt, redis, faults>>

\* Fault for a mutant: a frame the API refused is acknowledged.
NotHandledAcked(c) ==
    /\ Fault
    /\ phase[c] = "api"
    /\ Tell(c, Ack(current[c]))
    /\ Finish(c)
    /\ UNCHANGED <<conn, agent, toRelay, routed, delivered, redis>>

\* The API is down, or its answer is lost: no ACK, and no gap is reported for
\* the stream until the key expires.
NotHandled(c) ==
    /\ Fault
    /\ phase[c] = "api"
    /\ delivered' \in {delivered, delivered \cup {current[c]}}
    /\ blocked' = blocked \cup {current[c][1]}
    /\ Finish(c)
    /\ UNCHANGED <<conn, agent, toRelay, toAgent, routed, baseSeq, baseState>>

\* _commit_live_delta_state, the viewers, the ACK
Commit(c) ==
    /\ phase[c] = "commit"
    /\ LET f == current[c] IN
       /\ baseSeq' = [baseSeq EXCEPT ![f[1]] = f[2]]
       /\ baseState' = [baseState EXCEPT ![f[1]] = rebuilt[c]]
       /\ blocked' = blocked \ {f[1]}
       /\ Tell(c, Ack(f))
    /\ Finish(c)
    /\ UNCHANGED <<conn, agent, toRelay, routed, delivered, faults>>

\* The handler notices that its connection is gone.
HandlerEnd(c) ==
    /\ conn # c
    /\ phase[c] = "idle"
    /\ Move(c, "none")
    /\ toRelay' = [toRelay EXCEPT ![c] = <<>>]
    /\ routed' = IF routed = c THEN None ELSE routed
    /\ UNCHANGED <<conn, agent, toAgent, current, rebuilt, delivered, redis, faults>>

\* The Relay restarts; Redis keeps what was committed.
RelayRestart ==
    /\ Fault
    /\ Disconnected
    /\ toRelay' = [c \in Conns |-> <<>>]
    /\ routed' = None
    /\ phase' = [c \in Conns |-> "none"]
    /\ current' = [c \in Conns |-> None]
    /\ rebuilt' = [c \in Conns |-> 0]
    /\ UNCHANGED <<delivered, redis>>

\* LIVE_DELTA_STATE_TTL_SEC, or the loss of Redis
Expire(s) ==
    /\ Fault
    /\ baseSeq[s] # 0
    /\ baseSeq' = [baseSeq EXCEPT ![s] = 0]
    /\ baseState' = [baseState EXCEPT ![s] = 0]
    /\ UNCHANGED <<conn, agent, toRelay, toAgent, relay, blocked>>

\* LIVE_DELTA_API_BLOCK_TTL_SEC
Unblock(s) ==
    /\ s \in blocked
    /\ blocked' = blocked \ {s}
    /\ UNCHANGED <<conn, agent, toRelay, toAgent, relay, baseSeq, baseState, faults>>

-------------------------------------------------------------------------------

Poller == Capture \/ SendBatch \/ ForceResync

Supervisor ==
    \/ Track \/ SkipOversized \/ Tick
    \/ AckReceived \/ ResendReceived \/ ResyncReceived
    \/ Unstuck \/ Disconnect \/ HardRevive

Handler(c) == Receive(c) \/ Deliver(c) \/ NotHandled(c) \/ Commit(c)

Next ==
    \/ Poller \/ Supervisor \/ RelayRestart
    \/ \E c \in Conns : Connect(c) \/ Handler(c) \/ HandlerEnd(c)
    \/ \E s \in Streams : Expire(s) \/ Unblock(s)

Spec == Init /\ [][Next]_vars

\* The game goes on, so a poller without a stream starts one.  The select of the
\* supervisor is random, so none of its branches waits forever; the watchdog
\* looks every few seconds.
Fairness ==
    /\ WF_vars(stream = 0 /\ Capture) /\ WF_vars(SendBatch) /\ SF_vars(ForceResync)
    /\ SF_vars(Track) /\ WF_vars(Tick)
    /\ WF_vars(AckReceived) /\ WF_vars(ResendReceived) /\ WF_vars(ResyncReceived)
    /\ WF_vars(Unstuck) /\ WF_vars(HardRevive)
    /\ WF_vars(\E c \in Conns : Connect(c))
    /\ \A c \in Conns : WF_vars(Handler(c)) /\ WF_vars(HandlerEnd(c))
    /\ \A s \in Streams : WF_vars(Unblock(s))

FairSpec == Spec /\ Fairness

-------------------------------------------------------------------------------
(* Properties                                                                 *)

Acknowledged == {m.frame : m \in {toAgent[i] : i \in {j \in 1..Len(toAgent) : toAgent[j].type = "event_ack"}}}

Messages ==
    {Ack(f) : f \in Frames}
    \cup {Resend(s, m, n) : s \in Streams, m \in 1..MaxSeq, n \in 1..MaxSeq}
    \cup {Resync(s) : s \in Streams}

TypeOK ==
    /\ conn \in Conns \cup {None}
    /\ stream \in 0..MaxStreams /\ seq \in 0..MaxSeq /\ started \in 0..MaxStreams
    /\ held \in Frames \cup {None}
    /\ batches \in Seq(Frames) /\ Len(batches) <= BatchCap
    /\ resyncs \in 0..ResyncCap /\ stuck \in BOOLEAN
    /\ buffer \in Seq(Frames) /\ Len(buffer) <= Capacity
    /\ skipped \subseteq Frames
    /\ toRelay \in [Conns -> Seq(Frames)] /\ toAgent \in Seq(Messages)
    /\ routed \in Conns \cup {None}
    /\ phase \in [Conns -> {"none", "idle", "api", "commit"}]
    /\ current \in [Conns -> Frames \cup {None}]
    /\ rebuilt \in [Conns -> 0..Torn]
    /\ baseSeq \in [Streams -> 0..MaxSeq] /\ baseState \in [Streams -> 0..Torn]
    /\ blocked \subseteq Streams
    /\ delivered \subseteq Frames
    /\ faults \in 0..MaxFaults

\* What Redis keeps under a seq, and what goes to the API and the viewers, is
\* the state the agent captured with it, whatever is replayed, lost, expired or
\* handled by two connections at once.
Faithful ==
    /\ \A s \in Streams : baseState[s] = baseSeq[s]
    /\ \A c \in Conns : current[c] # None => rebuilt[c] = current[c][2]

\* The agent forgets a frame only after the API took it, also when the ACK is
\* the answer to a duplicate.
AckedWasDelivered == Acknowledged \subseteq delivered

\* The API gets every stream from its first frame on, without a hole
\* (test_api_outage_holds_ack_avoids_resend_loop_and_recovers_in_order).
NoHoles == \A s \in Streams, n \in 2..MaxSeq : <<s, n>> \in delivered => <<s, n - 1>> \in delivered

\* What the API has of a stream is what the agent may forget, from the first
\* frame on: neither an ACK nor a later frame runs ahead of it.
DeliveredInOrder == AckedWasDelivered /\ NoHoles

\* A frame that leaves the buffer was delivered, or its stream is given up and
\* the poller told so, or the buffer was full.
NothingForgotten ==
    [][\A f \in Buffered \ Buffered' :
          \/ f \in delivered
          \/ resyncs' > resyncs \/ stuck'
          \/ Len(buffer) = Capacity]_vars

\* The bound on streams is used up.
OutOfStreams == stream = 0 /\ started = MaxStreams

\* Once the faults are over, the API ends up with the latest state of the game,
\* through resends, replays and new streams, unless that frame is too large to
\* be sent.
Converges == <>[]((stream # 0 /\ <<stream, seq>> \in delivered \cup skipped) \/ OutOfStreams)
===============================================================================
