---------------------------- MODULE DiscordActivity ----------------------------
(* Rich Presence (discord_presence.rs): a task that detects every few seconds *)
(* what the player does and tells Discord, over a client of the vendored      *)
(* discord-presence library whose thread connects, reconnects and gives up on *)
(* its own, and whose readiness is one static flag for all clients.  A client *)
(* has a channel of requests and one of answers, and takes the first answer   *)
(* that comes for that of the request it waits for, whatever its nonce.       *)
EXTENDS Naturals, Sequences

CONSTANTS
    Snapshots,   \* what can be detected: [phase, look] records
    None,        \* no presence: League is closed
    StartupAttempts,   \* DISCORD_STARTUP_RETRY_ATTEMPTS
    ConnectAttempts,   \* the client's tolerated failures to connect
    MaxQuits, MaxSlow  \* bounds: Discord quits, it answers too late or not at all

VARIABLES
    discord,   \* Discord runs
    shown,     \* what it shows of us
    league,    \* what detect_presence finds
    ready,     \* READY of the library
    client,    \* PresenceSession: [thread, tries, subscribed], its requests that Discord
               \* has not read (queue) and the answers nobody has taken; as history,
               \* whether it gave up a request that had no answer, and whether
               \* Discord refused an activity of it
    task,      \* watch_discord_presence: [pc, cur, attempt, changed, nudged]
    last,      \* last_snapshot
    retry,     \* retry_at: it has come
    nudge,     \* delayed_phase_republish_at: [at, phase]
    quits, slow

vars == <<discord, shown, league, ready, client, task, last, retry, nudge, quits, slow>>
world == <<discord, league, quits>>

NoClient == [thread |-> "none", tries |-> 0, subscribed |-> 0, queue |-> <<>>, answers |-> 0,
             late |-> FALSE, refused |-> FALSE]
NoNudge == [at |-> "none", phase |-> None]
Idle == [pc |-> "idle", cur |-> None, attempt |-> 0, changed |-> FALSE, nudged |-> FALSE]

Init ==
    /\ discord \in BOOLEAN /\ shown = None /\ league \in Snapshots \cup {None}
    /\ ready = FALSE /\ client = NoClient /\ task = Idle /\ last = None
    /\ retry = TRUE /\ nudge = NoNudge
    /\ quits = 0 /\ slow = 0

-----------------------------------------------------------------------------
(* Discord, League, and the thread of the client.                             *)

DiscordStarts ==
    /\ ~ discord /\ discord' = TRUE
    /\ UNCHANGED <<shown, league, ready, client, task, last, retry, nudge, quits, slow>>

(* A connection that ends takes its activity and its subscriptions along, the *)
(* requests that were sent and the answers that were not read; the requests   *)
(* still queued are sent over the next one.                                   *)
Unconnected(k, n) ==
    IF client.thread = "connected"
    THEN [client EXCEPT !.thread = "connecting", !.answers = n,
                        !.queue = SubSeq(client.queue, k + 1, Len(client.queue))]
    ELSE client

DiscordQuits ==
    /\ discord /\ quits < MaxQuits
    /\ discord' = FALSE /\ shown' = None /\ quits' = quits + 1
    /\ \E k \in 0..Len(client.queue), n \in 0..client.answers : client' = Unconnected(k, n)
    /\ UNCHANGED <<league, ready, task, last, retry, nudge, slow>>

(* The next request reaches Discord, and its answer is on the way.  None      *)
(* stands for a request that is not an activity.                              *)
DiscordAnswers ==
    /\ client.thread = "connected" /\ client.queue # <<>>
    /\ LET request == Head(client.queue)
       IN  shown' = IF request = None THEN shown ELSE request
    /\ client' = [client EXCEPT !.queue = Tail(@), !.answers = @ + 1]
    /\ UNCHANGED <<discord, league, ready, task, last, retry, nudge, quits, slow>>

(* An error is an event for the library, and answers no request.              *)
DiscordRefuses ==
    /\ client.thread = "connected" /\ client.queue # <<>>
    /\ client' = [client EXCEPT !.queue = Tail(@),
                      !.refused = client.refused \/ Head(client.queue) # None]
    /\ UNCHANGED <<discord, shown, league, ready, task, last, retry, nudge, quits, slow>>

LeagueChanges(s) ==
    /\ s # league /\ league' = s
    /\ UNCHANGED <<discord, shown, ready, client, task, last, retry, nudge, quits, slow>>

ThreadConnects ==
    /\ client.thread = "connecting" /\ discord
    /\ client' = [client EXCEPT !.thread = "connected"] /\ ready' = TRUE
    /\ UNCHANGED <<discord, shown, league, task, last, retry, nudge, quits, slow>>

(* A refused connection, or too many failures, end the thread.                *)
ThreadFails(refused) ==
    /\ client.thread = "connecting" /\ ~ discord
    /\ client' = IF refused \/ client.tries = 0 THEN [client EXCEPT !.thread = "ended"]
                 ELSE [client EXCEPT !.tries = @ - 1]
    /\ UNCHANGED <<discord, shown, league, ready, task, last, retry, nudge, quits, slow>>

RetryComes ==
    /\ ~ retry /\ retry' = TRUE
    /\ UNCHANGED <<discord, shown, league, ready, client, task, last, nudge, quits, slow>>
NudgeComes ==
    /\ nudge.at = "later" /\ nudge' = [nudge EXCEPT !.at = "due"]
    /\ UNCHANGED <<discord, shown, league, ready, client, task, last, retry, quits, slow>>

-----------------------------------------------------------------------------
(* The session.                                                               *)

IsConnected == client.thread # "none" /\ ready

(* shutdown tells a thread that has ended nothing, and returns before it      *)
(* clears the flag; a thread that is just connecting sets it again.           *)
StillReady == ready /\ client.thread \in {"none", "ended"}
SetAgain == client.thread = "connecting" /\ discord

Drop ==
    /\ shown' = None /\ client' = NoClient
    /\ ready' \in {StillReady, StillReady \/ SetAgain}

Phase(s) == IF s = None THEN None ELSE s.phase

-----------------------------------------------------------------------------
(* The loop of the task.                                                      *)

Due == /\ IsConnected /\ nudge.at = "due" /\ league # None
       /\ nudge.phase = Phase(league)

(* What was published, or failed to be, counts as the last snapshot.          *)
Detect ==
    LET stale == league # None /\ ~ IsConnected /\ retry
    IN  /\ task.pc = "idle"
        /\ league # last \/ stale \/ Due
        /\ task' = [pc |-> IF league = None THEN "clear" ELSE "set", cur |-> league, attempt |-> 1,
                    changed |-> league # None /\ Phase(last) # Phase(league), nudged |-> Due]
    /\ UNCHANGED <<world, shown, ready, client, last, retry, nudge, slow>>

Clear ==
    /\ task.pc = "clear"
    /\ Drop
    /\ task' = Idle /\ last' = None /\ nudge' = NoNudge
    /\ UNCHANGED <<world, retry, slow>>

(* ensure_connected: a new client is ready at once if the flag still is.      *)
Ensure ==
    /\ task.pc = "set"
    /\ client' = IF client.thread # "none" THEN client
                 ELSE [NoClient EXCEPT !.thread = "connecting", !.tries = ConnectAttempts]
    /\ task' = [task EXCEPT !.pc = IF ready THEN "subscribe" ELSE "starting"]
    /\ UNCHANGED <<world, shown, ready, last, retry, nudge, slow>>

Done(n) == task' = Idle /\ last' = task.cur /\ nudge' = n
Failed == Done(nudge) /\ retry' = FALSE

(* After the pause another attempt, or the client is given up.                *)
TryAgain ==
    /\ task.pc = "starting" /\ task.attempt < StartupAttempts
    /\ task' = [task EXCEPT !.pc = "set", !.attempt = @ + 1]
    /\ UNCHANGED <<world, shown, ready, client, last, retry, nudge, slow>>
GiveUp ==
    /\ task.pc = "starting" /\ task.attempt = StartupAttempts
    /\ Drop /\ Failed
    /\ UNCHANGED <<world, slow>>

(* execute sends a request and waits three seconds for an answer.             *)
Asks(request) == client' = [client EXCEPT !.queue = Append(@, request)]
TakesAnswer == client.answers > 0
WithoutAnswer == [client EXCEPT !.answers = @ - 1]
Late == slow < MaxSlow /\ slow' = slow + 1
To(pc) == task' = [task EXCEPT !.pc = pc]

(* The two events are subscribed to one after the other.                      *)
Subscribe ==
    /\ task.pc = "subscribe" /\ client.subscribed < 2
    /\ Asks(None) /\ To("subscribing")
    /\ UNCHANGED <<world, shown, ready, last, retry, nudge, slow>>
Subscribed ==
    /\ task.pc = "subscribing" /\ TakesAnswer
    /\ client' = [WithoutAnswer EXCEPT !.subscribed = @ + 1]
    /\ To("subscribe")
    /\ UNCHANGED <<world, shown, ready, last, retry, nudge, slow>>

(* A request that times out leaves the client, and its answer may still come. *)
GivesUp == Late /\ client' = [client EXCEPT !.late = TRUE]

SubscribeFails ==
    /\ task.pc = "subscribing" /\ GivesUp
    /\ Failed
    /\ UNCHANGED <<world, shown, ready>>

(* A join request that the user answers is closed in Discord between two      *)
(* activities, over the same channels.                                        *)
CloseRequest ==
    /\ task.pc = "idle" /\ IsConnected
    /\ Asks(None) /\ To("closing")
    /\ UNCHANGED <<world, shown, ready, last, retry, nudge, slow>>
Closed ==
    /\ task.pc = "closing" /\ TakesAnswer
    /\ client' = WithoutAnswer /\ To("idle")
    /\ UNCHANGED <<world, shown, ready, last, retry, nudge, slow>>
CloseFails ==
    /\ task.pc = "closing" /\ GivesUp /\ To("idle")
    /\ UNCHANGED <<world, shown, ready, last, retry, nudge>>

Send ==
    /\ task.pc = "subscribe" /\ client.subscribed = 2
    /\ Asks(task.cur) /\ To("send")
    /\ UNCHANGED <<world, shown, ready, last, retry, nudge, slow>>
Sent ==
    /\ task.pc = "send" /\ TakesAnswer
    /\ client' = WithoutAnswer
    /\ Done(IF task.nudged THEN NoNudge
            ELSE IF task.changed THEN [at |-> "later", phase |-> task.cur.phase] ELSE nudge)
    /\ UNCHANGED <<world, shown, ready, retry, slow>>

DropNothing == shown' = shown /\ client' = client /\ ready' = ready

(* An activity that is not confirmed costs the client its connection.         *)
DropUnconfirmed == Drop

(* A connected client that waits in vain counts for the bound.                *)
Silence == IF client.thread = "connected" THEN Late ELSE UNCHANGED slow
SendFails ==
    /\ task.pc = "send" /\ Silence
    /\ DropUnconfirmed /\ Failed
    /\ UNCHANGED world

Next ==
    \/ DiscordStarts \/ DiscordQuits \/ \E s \in Snapshots \cup {None} : LeagueChanges(s)
    \/ ThreadConnects \/ \E refused \in BOOLEAN : ThreadFails(refused)
    \/ RetryComes \/ NudgeComes
    \/ Detect \/ Clear \/ Ensure \/ TryAgain \/ GiveUp
    \/ DiscordAnswers \/ DiscordRefuses
    \/ Subscribe \/ Subscribed \/ SubscribeFails \/ Send \/ Sent \/ SendFails
    \/ CloseRequest \/ Closed \/ CloseFails

Spec == Init /\ [][Next]_vars

-----------------------------------------------------------------------------
(* Every variable has its type.                                               *)
TypeOK ==
    /\ {discord, ready, retry} \subseteq BOOLEAN
    /\ {shown, league, last} \subseteq Snapshots \cup {None}
    /\ client.thread \in {"none", "connecting", "connected", "ended"}
    /\ client.queue \in Seq(Snapshots \cup {None})
    /\ task.pc \in {"idle", "set", "starting", "subscribe", "subscribing", "send", "closing", "clear"}
    /\ task.attempt \in 0..StartupAttempts /\ client.tries \in 0..ConnectAttempts
    /\ client.subscribed \in 0..2 /\ client.answers \in Nat
    /\ nudge.at \in {"none", "later", "due"}

(* The activities that Discord has not read.                                  *)
Underway == {request \in {client.queue[i] : i \in DOMAIN client.queue} : request # None}

(* Discord shows what the task last published and nothing older: not the      *)
(* phase before when a publication failed, and nothing once League is closed. *)
(* After this client has given up a request, the late answer stands for that  *)
(* of the next one; then it holds only once the activities under way have     *)
(* come, and none of them was refused.                                        *)
ShownIsLast ==
    task.pc = "idle" /\ shown # None =>
        \/ shown = last /\ Underway = {}
        \/ client.late /\ (Underway # {} \/ client.refused)

(* Only a client that was connected to Discord shows something.               *)
ShownByClient == shown # None => client.thread = "connected" /\ client.subscribed = 2
===============================================================================
