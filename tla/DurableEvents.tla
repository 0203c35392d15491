----------------------------- MODULE DurableEvents -----------------------------
(***************************************************************************)
(* End-of-game events on their way from the agent to storage: the agent's  *)
(* replay buffer (agent-tauri/src-tauri/src/relay/supervisor.rs), the       *)
(* handlers of guild_match_eog, match_eog and match_rofl (relay/app.py),    *)
(* and the futures a handler waits on for the bot (relay/connections.py).   *)
(*                                                                         *)
(* One agent, one user.  A handler belongs to one connection and handles    *)
(* that connection's messages one after the other; the handler of a         *)
(* connection the agent has left may still be busy while the agent's next   *)
(* connection already replays the same event.                               *)
(***************************************************************************)
EXTENDS Naturals, Sequences, FiniteSets

CONSTANTS
    Events,       \* event ids
    GuildEvents,  \* those of type guild_match_eog; the others go to the archive only
    Conns,        \* agent connections, each with its handler in the Relay
    Capacity,     \* MAX_DURABLE_REPLAY_EVENTS
    MaxQueue,     \* bound: messages of one connection in flight
    MaxFaults,    \* bound: connection losses, restarts and bot losses
    None          \* no connection, no event

ASSUME GuildEventsAreEvents == GuildEvents \subseteq Events
ASSUME NoneIsNew == None \notin Events \cup Conns
ASSUME CapacityIsPositive == Capacity \in Nat \ {0}
ASSUME BoundsAreNats == MaxQueue \in Nat /\ MaxFaults \in Nat

VARIABLES
    conn,       \* the agent's connection
    bound,      \* session_bound: the agent may send events
    replays,    \* durable_replay_enabled: server_hello was received
    buffer,     \* DurableReplayBuffer.pending
    made,       \* events that have happened
    lost,       \* events the agent no longer keeps although no ACK came
    acks,       \* event_ack messages on their way to the agent
    toRelay,    \* messages of each connection on their way to its handler
    routed,     \* connections the registry has bound to the user
    phase,      \* what the handler of a connection does
    current,    \* the event it handles
    forwarded,  \* bot_forwarded of the handler
    entry,      \* _pending_bot_eog : event -> handler whose future is registered
    fut,        \* that future: "open" | "yes" | "no" | "cancelled"
    botUp,      \* _bot_ws is set
    botHas,     \* events the bot received and has not decided on
    botSays,    \* <<event, ok>> : guild_match_eog_persisted on its way to the Relay
    stored,     \* events the API stored (ingest, bot commit or archive)
    faults

agent == <<conn, bound, replays, buffer, made, lost>>
relay == <<routed, phase, current, forwarded, entry, fut>>
bot   == <<botUp, botHas, botSays>>
vars  == <<agent, acks, toRelay, relay, bot, stored, faults>>

Phases == {"none", "idle", "remember", "forward", "web", "bot", "archive"}

Init ==
    /\ conn = None /\ bound = FALSE /\ replays = FALSE
    /\ buffer = <<>> /\ made = {} /\ lost = {} /\ acks = {}
    /\ toRelay = [c \in Conns |-> <<>>]
    /\ routed = {}
    /\ phase = [c \in Conns |-> "none"]
    /\ current = [c \in Conns |-> None]
    /\ forwarded = [c \in Conns |-> FALSE]
    /\ entry = [e \in Events |-> None]
    /\ fut = [c \in Conns |-> "none"]
    /\ botUp = TRUE /\ botHas = {} /\ botSays = {}
    /\ stored = {} /\ faults = 0

Buffered == {buffer[i] : i \in 1..Len(buffer)}

Fault == faults < MaxFaults /\ faults' = faults + 1

-------------------------------------------------------------------------------
(* The agent                                                                  *)

\* A new connection of the session: attach_session drops the older one.
Connect(c) ==
    /\ conn = None
    /\ phase[c] = "none"
    /\ conn' = c
    /\ phase' = [phase EXCEPT ![c] = "idle"]
    /\ routed' = {}
    /\ UNCHANGED <<bound, replays, buffer, made, lost, acks, toRelay, current, forwarded,
                   entry, fut, bot, stored, faults>>

\* replay_durable_events: everything pending, in the order of the buffer
Replay(c) ==
    /\ Len(toRelay[c]) + Len(buffer) <= MaxQueue
    /\ toRelay' = [toRelay EXCEPT ![c] = @ \o buffer]

\* server_hello and session_bound arrive in either order (a bind over HTTP can
\* come before the hello is handled); the second of them starts the replay.
ServerHello ==
    /\ conn # None /\ ~replays
    /\ replays' = TRUE
    /\ IF bound THEN Replay(conn) ELSE UNCHANGED toRelay
    /\ UNCHANGED <<conn, bound, buffer, made, lost, acks, relay, bot, stored, faults>>

SessionBound ==
    /\ conn # None /\ ~bound
    /\ bound' = TRUE
    /\ routed' = {conn}
    /\ IF replays THEN Replay(conn) ELSE UNCHANGED toRelay
    /\ UNCHANGED <<conn, replays, buffer, made, lost, acks, phase, current, forwarded,
                   entry, fut, bot, stored, faults>>

\* Fault for a mutant: the buffer grows without limit.
TrackedUnbounded(b, e) == Append(b, e)

\* DurableReplayBuffer::track drops the oldest event of a full buffer.  Live frames, which
\* share the buffer and so can fill it, and events too large to be sent are left out.
Tracked(b, e) == Append(IF Len(b) >= Capacity THEN Tail(b) ELSE b, e)

\* An event of the LCU: tracked, then sent.  Without server_hello it is only sent.
Event(e) ==
    /\ conn # None /\ bound
    /\ e \notin made
    /\ Len(toRelay[conn]) < MaxQueue
    /\ made' = made \cup {e}
    /\ IF replays
       THEN /\ buffer' = Tracked(buffer, e)
            /\ lost' = IF Len(buffer) >= Capacity THEN lost \cup {Head(buffer)} ELSE lost
       ELSE /\ lost' = lost \cup {e}
            /\ UNCHANGED buffer
    /\ toRelay' = [toRelay EXCEPT ![conn] = Append(@, e)]
    /\ UNCHANGED <<conn, bound, replays, acks, relay, bot, stored, faults>>

\* durable_replay_tick
Tick ==
    /\ conn # None /\ bound /\ replays
    /\ buffer # <<>>
    /\ Replay(conn)
    /\ UNCHANGED <<agent, acks, relay, bot, stored, faults>>

\* DurableReplayBuffer::ack; no event is in the buffer twice
Without(b, e) ==
    LET at == CHOOSE i \in 1..Len(b) : b[i] = e IN
    [i \in 1..(Len(b) - 1) |-> IF i < at THEN b[i] ELSE b[i + 1]]

AckReceived(e) ==
    /\ conn # None
    /\ e \in acks
    /\ acks' = acks \ {e}
    /\ buffer' = IF e \in Buffered THEN Without(buffer, e) ELSE buffer
    /\ UNCHANGED <<conn, bound, replays, made, lost, toRelay, relay, bot, stored, faults>>

\* What the loss of the connection leaves of the agent's side.
Disconnected ==
    /\ conn' = None /\ bound' = FALSE /\ replays' = FALSE
    /\ acks' = {}

\* The connection fails, or the agent gives it up (no pong within 10 s while
\* the handler waits for the bot).  The handler does not notice while it works.
Disconnect ==
    /\ Fault
    /\ conn # None
    /\ Disconnected
    /\ UNCHANGED <<buffer, made, lost, toRelay, relay, bot, stored>>

\* stop, restart, the watchdogs: run_supervisor ends and the next one starts
\* with an empty buffer, for write_live_pending saves live events only.
AgentRestart ==
    /\ Fault
    /\ Disconnected
    /\ buffer' = <<>>
    /\ lost' = lost \cup Buffered
    /\ UNCHANGED <<made, toRelay, relay, bot, stored>>

-------------------------------------------------------------------------------
(* The handlers of the Relay                                                  *)

\* Popping the entry of e resolves the future registered there, whoever waits.
Popped(e) == [entry EXCEPT ![e] = None]
Resolved(e, value) ==
    [c \in Conns |-> IF entry[e] = c /\ fut[c] = "open" THEN value ELSE fut[c]]

\* Fault for a mutant: the future of an earlier handler is overwritten silently.
RegisteredSilently(c, e) == [fut EXCEPT ![c] = "open"]

\* register_pending_bot_eog
Registered(c, e) == [Resolved(e, "no") EXCEPT ![c] = "open"]

Move(c, p) == phase' = [phase EXCEPT ![c] = p]

\* The next message of the connection.  It is ignored if the socket is bound
\* to no user any more.
Receive(c) ==
    /\ phase[c] = "idle"
    /\ toRelay[c] # <<>>
    /\ toRelay' = [toRelay EXCEPT ![c] = Tail(@)]
    /\ LET e == Head(toRelay[c]) IN
       \/ c \notin routed /\ UNCHANGED <<phase, current>>
       \/ /\ c \in routed
          /\ Move(c, IF e \in GuildEvents THEN "remember" ELSE "archive")
          /\ current' = [current EXCEPT ![c] = e]
    /\ UNCHANGED <<agent, acks, routed, forwarded, entry, fut, bot, stored, faults>>

\* The user's state and history are written, and the future is registered,
\* whoever has the user by now.
Register(c) ==
    /\ phase[c] = "remember"
    /\ Move(c, "forward")
    /\ entry' = [entry EXCEPT ![current[c]] = c]
    /\ fut' = Registered(c, current[c])
    /\ UNCHANGED <<agent, acks, toRelay, routed, current, forwarded, bot, stored, faults>>

\* forward_guild_match_eog: the bot takes the event
ForwardToBot(c) ==
    /\ phase[c] = "forward"
    /\ botUp
    /\ botHas' = botHas \cup {current[c]}
    /\ forwarded' = [forwarded EXCEPT ![c] = TRUE]
    /\ Move(c, "web")
    /\ UNCHANGED <<agent, acks, toRelay, routed, current, entry, fut, botUp, botSays, stored, faults>>

\* No bot, or the bot does not follow the user: the entry is cancelled.
NotForwarded(c) ==
    /\ phase[c] = "forward"
    /\ entry' = Popped(current[c])
    /\ fut' = [Resolved(current[c], "no") EXCEPT ![c] = "none"]
    /\ Move(c, "web")
    /\ UNCHANGED <<agent, acks, toRelay, routed, current, forwarded, bot, stored, faults>>

\* unregister_bot_ws: every future is resolved with False.
BotGone ==
    /\ botUp' = FALSE
    /\ botSays' = {}
    /\ entry' = [e \in Events |-> None]

AllRefused == [c \in Conns |->
    IF fut[c] = "open" /\ \E e \in Events : entry[e] = c THEN "no" ELSE fut[c]]

\* The send to the bot fails or times out; the bot may have got the event.
ForwardFails(c) ==
    /\ Fault
    /\ phase[c] = "forward"
    /\ botUp
    /\ BotGone
    /\ fut' = [AllRefused EXCEPT ![c] = "none"]
    /\ botHas' \in {botHas, botHas \cup {current[c]}}
    /\ Move(c, "web")
    /\ UNCHANGED <<agent, acks, toRelay, routed, current, forwarded, stored>>

\* The handler is done with its event; the ACK reaches the agent only over the
\* connection the event came from.
Finish(c) ==
    /\ Move(c, "idle")
    /\ current' = [current EXCEPT ![c] = None]
    /\ forwarded' = [forwarded EXCEPT ![c] = FALSE]

Acked(c) == acks' = IF conn = c THEN acks \cup {current[c]} ELSE acks

\* The guild-match ingest stored the event: no other confirmation is needed.
WebStored(c) ==
    /\ phase[c] = "web"
    /\ stored' = stored \cup {current[c]}
    /\ entry' = Popped(current[c])
    /\ fut' = [Resolved(current[c], "no") EXCEPT ![c] = "none"]
    /\ Acked(c)
    /\ Finish(c)
    /\ UNCHANGED <<agent, toRelay, routed, bot, faults>>

\* Fault for a mutant: being forwarded to the bot counts as being stored.
WebFailsTrustingBot(c) ==
    /\ phase[c] = "web"
    /\ stored' \in {stored, stored \cup {current[c]}}
    /\ IF forwarded[c]
       THEN Acked(c) /\ Finish(c)
       ELSE Move(c, "archive") /\ UNCHANGED <<acks, current, forwarded>>
    /\ UNCHANGED <<agent, toRelay, routed, entry, fut, bot, faults>>

\* Fault for a mutant: an event nobody takes is neither archived nor acknowledged.
WebFailsHolding(c) ==
    /\ phase[c] = "web"
    /\ stored' \in {stored, stored \cup {current[c]}}
    /\ IF forwarded[c]
       THEN Move(c, "bot") /\ UNCHANGED <<current, forwarded>>
       ELSE Finish(c)
    /\ UNCHANGED <<agent, acks, toRelay, routed, entry, fut, bot, faults>>

\* The ingest refused the event or its answer was lost.
WebFails(c) ==
    /\ phase[c] = "web"
    /\ stored' \in {stored, stored \cup {current[c]}}
    /\ Move(c, IF forwarded[c] THEN "bot" ELSE "archive")
    /\ UNCHANGED <<agent, acks, toRelay, routed, current, forwarded, entry, fut, bot, faults>>

BotConfirmed(c) ==
    /\ phase[c] = "bot"
    /\ fut[c] = "yes"
    /\ fut' = [fut EXCEPT ![c] = "none"]
    /\ Acked(c)
    /\ Finish(c)
    /\ UNCHANGED <<agent, toRelay, routed, entry, bot, stored, faults>>

BotRefused(c) ==
    /\ phase[c] = "bot"
    /\ fut[c] = "no"
    /\ fut' = [fut EXCEPT ![c] = "none"]
    /\ Move(c, "archive")
    /\ UNCHANGED <<agent, acks, toRelay, routed, current, forwarded, entry, bot, stored, faults>>

\* BOT_EOG_PERSIST_ACK_TIMEOUT_SEC pass: wait_for cancels the future, and the
\* handler resumes in a later iteration of the event loop.  An answer that came
\* in the same iteration is lost: the handler is woken with the timeout.
BotTimeout(c) ==
    /\ phase[c] = "bot"
    /\ fut[c] \in {"open", "yes", "no"}
    /\ fut' = [fut EXCEPT ![c] = "cancelled"]
    /\ UNCHANGED <<agent, acks, toRelay, routed, phase, current, forwarded, entry, bot, stored, faults>>

BotTimedOut(c) ==
    /\ phase[c] = "bot"
    /\ fut[c] = "cancelled"
    /\ entry' = Popped(current[c])
    /\ fut' = [Resolved(current[c], "no") EXCEPT ![c] = "none"]
    /\ Move(c, "archive")
    /\ UNCHANGED <<agent, acks, toRelay, routed, current, forwarded, bot, stored, faults>>

\* _forward_match_eog, _forward_match_rofl
Archived(c) ==
    /\ phase[c] = "archive"
    /\ stored' = stored \cup {current[c]}
    /\ IF current[c] \in GuildEvents
       THEN entry' = Popped(current[c]) /\ fut' = Resolved(current[c], "no")
       ELSE UNCHANGED <<entry, fut>>
    /\ Acked(c)
    /\ Finish(c)
    /\ UNCHANGED <<agent, toRelay, routed, bot, faults>>

ArchiveFails(c) ==
    /\ phase[c] = "archive"
    /\ stored' \in {stored, stored \cup {current[c]}}
    /\ Finish(c)
    /\ UNCHANGED <<agent, acks, toRelay, routed, entry, fut, bot, faults>>

\* The handler ends: it notices that the connection is gone, or closes it.  A
\* socket that lost its user is closed by whoever took it.
HandlerEnd(c) ==
    /\ phase[c] = "idle"
    /\ Move(c, "none")
    /\ toRelay' = [toRelay EXCEPT ![c] = <<>>]
    /\ routed' = routed \ {c}
    /\ IF conn = c
       THEN Disconnected /\ IF bound /\ c \notin routed THEN UNCHANGED faults ELSE Fault
       ELSE UNCHANGED <<conn, bound, replays, acks, faults>>
    /\ UNCHANGED <<buffer, made, lost, current, forwarded, entry, fut, bot, stored>>

\* The user is bound to another socket.
RouteDropped(c) ==
    /\ Fault
    /\ c \in routed
    /\ routed' = routed \ {c}
    /\ UNCHANGED <<agent, acks, toRelay, phase, current, forwarded, entry, fut, bot, stored>>

\* The Relay process restarts: connections, handlers and futures are gone.
RelayRestart ==
    /\ Fault
    /\ Disconnected
    /\ toRelay' = [c \in Conns |-> <<>>]
    /\ routed' = {}
    /\ phase' = [c \in Conns |-> "none"]
    /\ current' = [c \in Conns |-> None]
    /\ forwarded' = [c \in Conns |-> FALSE]
    /\ fut' = [c \in Conns |-> "none"]
    /\ BotGone
    /\ UNCHANGED <<buffer, made, lost, botHas, stored>>

-------------------------------------------------------------------------------
(* The bot                                                                    *)

\* The bot decides on an event: it commits it and says so, or says that it
\* could not, or says nothing.
BotDecides(e) ==
    /\ e \in botHas
    /\ botHas' = botHas \ {e}
    /\ \/ /\ stored' = stored \cup {e}
          /\ botSays' = IF botUp THEN botSays \cup {<<e, TRUE>>} ELSE botSays
       \/ /\ botSays' = IF botUp THEN botSays \cup {<<e, FALSE>>} ELSE botSays
          /\ UNCHANGED stored
       \/ UNCHANGED <<stored, botSays>>
    /\ UNCHANGED <<agent, acks, toRelay, relay, botUp, faults>>

\* complete_pending_bot_eog
BotSaid(e, ok) ==
    /\ <<e, ok>> \in botSays
    /\ botSays' = botSays \ {<<e, ok>>}
    /\ entry' = Popped(e)
    /\ fut' = Resolved(e, IF ok THEN "yes" ELSE "no")
    /\ UNCHANGED <<agent, acks, toRelay, routed, phase, current, forwarded, botUp, botHas, stored, faults>>

BotLeaves ==
    /\ Fault
    /\ botUp
    /\ BotGone
    /\ fut' = AllRefused
    /\ UNCHANGED <<agent, acks, toRelay, routed, phase, current, forwarded, botHas, stored>>

BotReturns ==
    /\ ~botUp
    /\ botUp' = TRUE
    /\ UNCHANGED <<agent, acks, toRelay, relay, botHas, botSays, stored, faults>>

-------------------------------------------------------------------------------

HandlerStep(c) ==
    \/ Receive(c) \/ Register(c) \/ ForwardToBot(c) \/ NotForwarded(c) \/ ForwardFails(c)
    \/ WebStored(c) \/ WebFails(c)
    \/ BotConfirmed(c) \/ BotRefused(c) \/ BotTimeout(c) \/ BotTimedOut(c)
    \/ Archived(c) \/ ArchiveFails(c)

Agent ==
    \/ \E c \in Conns : Connect(c)
    \/ ServerHello \/ SessionBound \/ Tick \/ Disconnect \/ AgentRestart
    \/ \E e \in Events : Event(e) \/ AckReceived(e)

Bot ==
    \/ \E e \in Events : BotDecides(e) \/ BotSaid(e, TRUE) \/ BotSaid(e, FALSE)
    \/ BotLeaves \/ BotReturns

Next ==
    \/ Agent \/ Bot \/ RelayRestart
    \/ \E c \in Conns : HandlerStep(c) \/ HandlerEnd(c) \/ RouteDropped(c)

Spec == Init /\ [][Next]_vars

\* The agent reconnects, is bound and replays; a handler goes on with its work
\* and ends once its connection is gone.  The archive does not refuse forever:
\* this is an assumption about the API, not about this code.
Fairness ==
    /\ WF_vars(\E c \in Conns : Connect(c))
    /\ WF_vars(ServerHello) /\ WF_vars(SessionBound) /\ WF_vars(Tick)
    /\ WF_vars(\E e \in Events : AckReceived(e))
    /\ \A c \in Conns :
          /\ WF_vars(HandlerStep(c))
          /\ WF_vars(conn # c /\ HandlerEnd(c))
          /\ WF_vars(conn = c /\ c \notin routed /\ bound /\ HandlerEnd(c))
          /\ SF_vars(Archived(c))

FairSpec == Spec /\ Fairness

-------------------------------------------------------------------------------
(* Properties                                                                 *)

TypeOK ==
    /\ conn \in Conns \cup {None} /\ bound \in BOOLEAN /\ replays \in BOOLEAN
    /\ buffer \in Seq(Events) /\ Len(buffer) <= Capacity
    /\ made \subseteq Events /\ lost \subseteq Events /\ acks \subseteq Events
    /\ toRelay \in [Conns -> Seq(Events)]
    /\ routed \subseteq Conns
    /\ phase \in [Conns -> Phases]
    /\ current \in [Conns -> Events \cup {None}]
    /\ forwarded \in [Conns -> BOOLEAN]
    /\ entry \in [Events -> Conns \cup {None}]
    /\ fut \in [Conns -> {"none", "open", "yes", "no", "cancelled"}]
    /\ botUp \in BOOLEAN /\ botHas \subseteq Events /\ botSays \subseteq Events \X BOOLEAN
    /\ stored \subseteq Events /\ faults \in 0..MaxFaults

\* The agent is told to forget an event, and a handler is told that the bot
\* saved it, only when the event is stored somewhere: being sent to the bot is
\* not enough (test_guild_eog_ack_requires_durable_web_or_bot_persist), and a
\* late answer of the bot is never taken for another event's.
StoredBeforeAck ==
    /\ acks \subseteq stored
    /\ \A c \in Conns : fut[c] = "yes" => current[c] \in stored
    /\ \A e \in Events : <<e, TRUE>> \in botSays => e \in stored

\* A registered future is that of the handler busy with the event, and whoever
\* waits for the bot is registered: no entry of _pending_bot_eog leaks, and the
\* answer of the bot, its loss or another handler's registration wakes a waiter.
EntriesMatchWaiters ==
    /\ \A e \in Events : entry[e] # None =>
          /\ current[entry[e]] = e
          /\ phase[entry[e]] \in {"forward", "web", "bot"}
    /\ \A c \in Conns : fut[c] = "open" => entry[current[c]] = c

\* Every event is pending with the agent until it is stored, or was given up:
\* the agent and the handlers implement AtLeastOnce.
ALO == INSTANCE AtLeastOnce WITH pending <- Buffered

ImplementsAtLeastOnce == ALO!Spec

\* No event is replayed forever: once the connections last and the archive
\* takes events, each one leaves the buffer (the terminal archive of
\* guild_match_eog exists for this).
Drained == \A e \in Events : (e \in Buffered) ~> (e \notin Buffered)
===============================================================================
