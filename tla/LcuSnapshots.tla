----------------------------- MODULE LcuSnapshots -----------------------------
(* What the Bot is told of the League client: the client changes, its event    *)
(* socket nudges the worker of the poller through a bounded channel           *)
(* (watch_socket in lcu/events.rs, LcuPollWorker in relay/supervisor.rs), and  *)
(* a poll asks the client one question after the other and tells what differs  *)
(* from what it told before (LcuEventPoller::poll).  The end of a game, which  *)
(* the same poll reports, is in GameEnd, the live game in LiveDelta.           *)
EXTENDS Naturals, FiniteSets

CONSTANTS
    Room,        \* capacity of the channel of nudges
    MaxWire,     \* bound: events of the client under way
    MaxChanges,  \* bound: what the client does
    MaxFaults    \* bound: requests, searches and sockets that fail, connections that end

VARIABLES
    client,     \* the League client: process (0 when it does not run), phase and data
    wire,       \* events under way on the socket
    socket,     \* the watcher: off, searching, or the process it connects to or listens to
    nudges,     \* the channel `changed`
    conn,       \* the connection to the Relay: "down", "up" or "bound"
    cached,     \* cached_lockfile_discovery
    poller,     \* the snapshots of LcuEventPoller
    poll,       \* the poll in progress: where it is, the process and the phase it asked
    batch,      \* what the Bot will have been told once the batch is sent
    told,       \* what the Bot was told
    changes, faults,
    answered,   \* history: the questions the last poll had an answer to
    missed,     \* history: the client did something that no nudge and no poll follows
    forgotten   \* history: what the Bot was told and the poller no longer remembers

vars == <<client, wire, socket, nudges, conn, cached, poller, poll, batch, told,
          changes, faults, answered, missed, forgotten>>
clientVars == <<client, changes>>
watchVars == <<wire, socket, nudges>>
pollVars == <<cached, poller, poll, batch, answered>>

Phases == {"Lobby", "Matchmaking", "ReadyCheck", "ChampSelect", "InProgress"}
Kinds == {"ready", "champ", "lobby"}

(* A question about what is not there is answered with 404, written 0; the    *)
(* client may have a champion select before it says so in its phase.          *)
MayHave ==
    [ready |-> {"Matchmaking", "ReadyCheck"}, champ |-> {"ReadyCheck", "ChampSelect"},
     lobby |-> {"Lobby", "Matchmaking", "ReadyCheck"}]
Data(phase) == {d \in [Kinds -> 0..2] : \A k \in Kinds : d[k] # 0 => phase \in MayHave[k]}
Follows ==
    [Lobby |-> {"Matchmaking", "ChampSelect"}, Matchmaking |-> {"Lobby", "ReadyCheck"},
     ReadyCheck |-> {"Lobby", "Matchmaking", "ChampSelect"},
     ChampSelect |-> {"Lobby", "Matchmaking", "InProgress"}, InProgress |-> {"Lobby"}]

Offline == <<"offline", "None">>
Nothing == [phase |-> "None", ready |-> 0, champ |-> 0, lobby |-> 0, status |-> Offline]

(* participant_status                                                         *)
Status(phase, inLobby) ==
    <<CASE phase = "InProgress" -> "in_game"
        [] phase = "ChampSelect" -> "champ_select"
        [] phase = "Lobby" /\ inLobby -> "lobby"
        [] OTHER -> "waiting", phase>>

(* phase_poll_plan                                                            *)
Plan(phase) ==
    CASE phase = "Lobby" -> {"lobby"}
      [] phase = "Matchmaking" -> {"ready", "lobby"}
      [] phase = "ReadyCheck" -> Kinds
      [] phase = "ChampSelect" -> {"champ"}
      [] OTHER -> {}

Idle == [at |-> "idle", pid |-> 0, phase |-> "None"]
NoStatus == <<"none", "None">>
Unknown == [pid |-> 0, available |-> "unknown", phase |-> "None", ready |-> 0, champ |-> 0,
            lobby |-> 0, status |-> NoStatus]

Init ==
    /\ client = [pid |-> 0, phase |-> "Lobby", data |-> [k \in Kinds |-> 0]]
    /\ wire = 0 /\ socket = [at |-> "off", pid |-> 0] /\ nudges = 0
    /\ conn = "down" /\ cached = "unknown"
    /\ poller = Unknown /\ poll = Idle /\ batch = Nothing /\ told = Nothing
    /\ changes = 0 /\ faults = 0
    /\ answered = {} /\ missed = TRUE /\ forgotten = {}

-----------------------------------------------------------------------------
(* The League client.                                                         *)

Listened == socket.at = "open" /\ socket.pid = client.pid

(* Every change is published to those who listen, in the order of the changes. *)
Published == IF Listened THEN wire' = wire + 1 /\ UNCHANGED missed
                         ELSE missed' = TRUE /\ UNCHANGED wire

Starts ==
    /\ client.pid = 0 /\ changes < MaxChanges
    /\ changes' = changes + 1
    /\ \E d \in Data("Lobby") :
          client' = [pid |-> changes', phase |-> "Lobby", data |-> d]
    /\ missed' = TRUE
    /\ UNCHANGED <<watchVars, conn, pollVars, told, faults, forgotten>>

Changes ==
    /\ client.pid # 0 /\ changes < MaxChanges /\ wire < MaxWire
    /\ changes' = changes + 1
    /\ \E p \in Follows[client.phase] \cup {client.phase} : \E d \in Data(p) :
          /\ client' = [client EXCEPT !.phase = p, !.data = d]
          /\ client' # client
    /\ Published
    /\ UNCHANGED <<socket, nudges, conn, pollVars, told, faults, forgotten>>

Quits ==
    /\ client.pid # 0
    /\ client' = [client EXCEPT !.pid = 0, !.data = [k \in Kinds |-> 0]]
    /\ missed' = TRUE
    /\ UNCHANGED <<watchVars, conn, pollVars, told, changes, faults, forgotten>>

-----------------------------------------------------------------------------
(* watch_socket: search, connect, subscribe, listen; after any failure again. *)

(* Without a client the search is repeated after LCU_SOCKET_RETRY_DELAY.      *)
Search ==
    /\ socket.at = "search" /\ client.pid # 0
    /\ socket' = [at |-> "connect", pid |-> client.pid]
    /\ UNCHANGED <<clientVars, wire, nudges, conn, pollVars, told, faults, missed, forgotten>>

Subscribe ==
    /\ socket.at = "connect"
    /\ socket' = IF socket.pid = client.pid THEN [socket EXCEPT !.at = "open"]
                                            ELSE [at |-> "search", pid |-> 0]
    /\ UNCHANGED <<clientVars, wire, nudges, conn, pollVars, told, faults, missed, forgotten>>

EventWhileIdle ==
    /\ socket.at = "open" /\ wire > 0
    /\ wire' = wire - 1
    /\ nudges' = IF poll.at = "idle" /\ nudges < Room THEN nudges + 1 ELSE nudges
    /\ UNCHANGED <<clientVars, socket, conn, pollVars, told, faults, missed, forgotten>>

(* try_send: a nudge too many is dropped.                                     *)
Event ==
    /\ socket.at = "open" /\ wire > 0
    /\ wire' = wire - 1
    /\ nudges' = IF nudges < Room THEN nudges + 1 ELSE nudges
    /\ UNCHANGED <<clientVars, socket, conn, pollVars, told, faults, missed, forgotten>>

Gone == socket.pid # client.pid

SocketEnds ==
    /\ socket.at = "open"
    /\ Gone \/ faults < MaxFaults
    /\ faults' = IF Gone THEN faults ELSE faults + 1
    /\ socket' = [at |-> "search", pid |-> 0]
    /\ wire' = 0 /\ missed' = (missed \/ wire > 0)
    /\ UNCHANGED <<clientVars, nudges, conn, pollVars, told, forgotten>>

-----------------------------------------------------------------------------
(* The connection to the Relay owns the worker and the watcher.               *)

Remembered(p) == {k \in Kinds : p[k] # 0} \cup {k \in {"status"} : p.status # NoStatus}
Told(b) == {k \in Kinds : b[k] # 0} \cup {k \in {"status"} : b.status # Offline}

Connect ==
    /\ conn = "down"
    /\ conn' = "up"
    /\ UNCHANGED <<clientVars, watchVars, pollVars, told, faults, missed, forgotten>>

Bound ==
    /\ conn = "up"
    /\ conn' = "bound" /\ socket' = [at |-> "search", pid |-> 0]
    /\ UNCHANGED <<clientVars, wire, nudges, pollVars, told, faults, missed, forgotten>>

(* Both tasks are aborted wherever they are: the batch of a poll in progress   *)
(* is lost, as one is that waits in the channel to the connection.  The next   *)
(* worker has a new poller.                                                   *)
Disconnect ==
    /\ conn # "down" /\ faults < MaxFaults
    /\ faults' = faults + 1
    /\ conn' = "down" /\ wire' = 0 /\ nudges' = 0 /\ socket' = [at |-> "off", pid |-> 0]
    /\ poller' = Unknown /\ poll' = Idle /\ batch' = told
    /\ cached' = "unknown" /\ answered' = {} /\ missed' = TRUE /\ forgotten' = Told(told)
    /\ UNCHANGED <<clientVars, told>>

-----------------------------------------------------------------------------
(* The poll.                                                                  *)

(* A nudge, or the recovery interval of eight seconds: the nudge is taken     *)
(* before the first question.                                                 *)
Taken == nudges > 0 /\ nudges' = nudges - 1
Due == UNCHANGED nudges

PollStart ==
    /\ conn # "down" /\ poll.at = "idle"
    /\ Taken \/ Due
    /\ poll' = [Idle EXCEPT !.at = "discover"]
    /\ answered' = {} /\ missed' = FALSE
    /\ UNCHANGED <<clientVars, wire, socket, conn, cached, poller, batch, told, faults, forgotten>>

(* push_changed: `next` is told when the poller does not remember it.         *)
Pushed(b, p, k, next) == IF p[k] # next THEN [b EXCEPT ![k] = next] ELSE b

(* reset_lcu_snapshot                                                         *)
Reset(p, pid) == [Unknown EXCEPT !.pid = pid]

WasAvailableNow(p) == p.available = "yes"

(* was_available is read before the snapshots are reset.                      *)
WasAvailable(p) == poller.available = "yes"

(* mark_lcu_unavailable, and the poll ends: what was pushed is sent.          *)
Unavailable(disconnected) ==
    LET p0 == IF disconnected /\ poller.pid # 0 THEN Reset(poller, 0) ELSE poller
        lost == IF disconnected /\ poller.pid # 0 THEN Remembered(poller) \ {"status"} ELSE {}
        was == WasAvailable(p0)
    IN /\ poller' = [p0 EXCEPT !.available = "no",
                               !.status = IF was THEN Offline ELSE p0.status]
       /\ batch' = IF was THEN Pushed(batch, p0, "status", Offline) ELSE batch
       /\ told' = batch'
       /\ forgotten' = {k \in forgotten \cup lost : k # "status" \/ batch'.status # Offline}
       /\ poll' = Idle /\ missed' = TRUE
       /\ UNCHANGED answered

(* A discovery that is old enough is repeated; one that fails leaves the last *)
(* one in force, and from_lockfile then reads the file itself.                *)
Discovered(c) ==
    \/ c = cached /\ (cached # "unknown" \/ faults < MaxFaults)
    \/ c = IF client.pid = 0 THEN "none" ELSE "path"

Discover ==
    /\ poll.at = "discover"
    /\ \E c \in {"unknown", "none", "path"} :
          /\ Discovered(c)
          /\ cached' = c
          /\ faults' = IF c = "unknown" THEN faults + 1 ELSE faults
          /\ \/ /\ c = "unknown"
                /\ poll' = Idle /\ missed' = TRUE
                /\ UNCHANGED <<poller, batch, told, answered, forgotten>>
             \/ /\ c = "none" \/ (c = "path" /\ client.pid = 0)
                /\ Unavailable(TRUE)
             \/ /\ c = "path" /\ client.pid # 0
                /\ poll' = [at |-> "phase", pid |-> client.pid, phase |-> "None"]
                /\ poller' = IF poller.pid = client.pid THEN poller
                             ELSE Reset(poller, client.pid)
                /\ forgotten' = IF poller.pid = client.pid THEN forgotten
                                ELSE forgotten \cup Remembered(poller)
                /\ UNCHANGED <<batch, told, answered, missed>>
    /\ UNCHANGED <<clientVars, watchVars, conn>>

After(at) ==
    CASE at = "phase" -> Kinds
      [] at = "ready" -> {"champ", "lobby"}
      [] at = "champ" -> {"lobby"}
      [] OTHER -> {}

(* The next question of the plan; after the last one the batch is sent.       *)
Proceed(at, phase) ==
    LET left == After(at) \cap Plan(phase)
    IN IF left = {}
       THEN poll' = Idle /\ told' = batch'
       ELSE /\ poll' = [poll EXCEPT !.phase = phase,
                   !.at = CHOOSE k \in left : After(k) \cap left = left \ {k}]
            /\ UNCHANGED told

(* The answer to a question that reaches the process it was put to.           *)
Reached == client.pid = poll.pid

(* clear_inactive_phase_snapshots: what the phase has no question for.        *)
Cleared(p, b, phase) ==
    LET out == {k \in Kinds \ Plan(phase) : p[k] # 0}
        status == Status(phase, FALSE)
        told_ == [k \in DOMAIN b |-> IF k \in out THEN 0 ELSE b[k]]
    IN [poller |-> [k \in DOMAIN p |->
                       CASE k \in out -> 0
                         [] k = "status" /\ "lobby" \notin Plan(phase) -> status
                         [] OTHER -> p[k]],
        batch |-> IF "lobby" \in Plan(phase) THEN told_ ELSE Pushed(told_, p, "status", status)]

(* The phase, and the status when the client has just become available.       *)
Gameflow ==
    /\ poll.at = "phase" /\ Reached
    /\ LET phase == client.phase
           status == Status(phase, FALSE)
           became == poller.available # "yes"
           p == [poller EXCEPT !.phase = phase, !.available = "yes",
                               !.status = IF became THEN status ELSE @]
           b == [(IF became THEN Pushed(batch, poller, "status", status) ELSE batch)
                    EXCEPT !.phase = phase]
           c == Cleared(p, b, phase)
       IN /\ poller' = c.poller /\ batch' = c.batch
          /\ forgotten' = IF became \/ "lobby" \notin Plan(phase) THEN forgotten \ {"status"}
                          ELSE forgotten
          /\ Proceed("phase", phase)
    /\ UNCHANGED <<clientVars, watchVars, conn, cached, faults, answered, missed>>

GameflowFails ==
    /\ poll.at = "phase"
    /\ ~ Reached \/ faults < MaxFaults
    /\ faults' = IF Reached THEN faults + 1 ELSE faults
    /\ Unavailable(FALSE)
    /\ UNCHANGED <<clientVars, watchVars, conn, cached>>

(* One of the snapshots the phase has; with the party comes the status.       *)
Ask(k) ==
    /\ poll.at = k /\ Reached /\ client.data[k] # 0
    /\ LET v == client.data[k]
           b == Pushed(batch, poller, k, v)
           status == Status(poll.phase, TRUE)
       IN IF k = "lobby"
          THEN /\ poller' = [poller EXCEPT ![k] = v, !.status = status]
               /\ batch' = Pushed(b, poller, "status", status)
          ELSE poller' = [poller EXCEPT ![k] = v] /\ batch' = b
    /\ answered' = answered \cup {k}
    /\ forgotten' = forgotten \ (IF k = "lobby" THEN {k, "status"} ELSE {k})
    /\ Proceed(k, poll.phase)
    /\ UNCHANGED <<clientVars, watchVars, conn, cached, faults, missed>>

(* No answer, or 404: the snapshot stays as it is.                            *)
AskFails(k) ==
    /\ poll.at = k
    /\ (Reached /\ client.data[k] # 0) => faults < MaxFaults
    /\ faults' = IF Reached /\ client.data[k] # 0 THEN faults + 1 ELSE faults
    /\ batch' = batch
    /\ Proceed(k, poll.phase)
    /\ UNCHANGED <<clientVars, watchVars, conn, cached, poller, answered, missed, forgotten>>

Next ==
    \/ Starts \/ Changes \/ Quits
    \/ Search \/ Subscribe \/ Event \/ SocketEnds
    \/ Connect \/ Bound \/ Disconnect
    \/ PollStart \/ Discover \/ Gameflow \/ GameflowFails
    \/ \E k \in Kinds : Ask(k) \/ AskFails(k)

Spec == Init /\ [][Next]_vars

-----------------------------------------------------------------------------
(* Every variable has its type.                                               *)
TypeOK ==
    /\ client.pid \in 0..MaxChanges /\ client.phase \in Phases /\ client.data \in [Kinds -> 0..2]
    /\ wire \in 0..MaxWire /\ nudges \in 0..Room
    /\ socket.at \in {"off", "search", "connect", "open"} /\ socket.pid \in 0..MaxChanges
    /\ conn \in {"down", "up", "bound"} /\ cached \in {"unknown", "none", "path"}
    /\ poll.at \in {"idle", "discover", "phase"} \cup Kinds
    /\ poller.available \in {"unknown", "yes", "no"}
    /\ \A k \in Kinds : poller[k] \in 0..2 /\ batch[k] \in 0..2 /\ told[k] \in 0..2
    /\ changes \in 0..MaxChanges /\ faults \in 0..MaxFaults
    /\ answered \subseteq Kinds /\ missed \in BOOLEAN
    /\ forgotten \subseteq Kinds \cup {"status"}

Quiet ==
    conn # "down" /\ poll.at = "idle" /\ wire = 0 /\ nudges = 0 /\ ~ missed

(* When the worker rests, no nudge is left and no change went unnoticed, the  *)
(* Bot knows the client: its phase, what the phase has as far as the last     *)
(* poll was answered, nothing of an earlier phase, and a status that fits.     *)
(* Changes between two questions of a poll, nudges that are dropped and        *)
(* requests that fail do not leave it behind.  The exception is what was told  *)
(* of an earlier process or over an earlier connection and has been forgotten. *)
BotKnowsClient ==
    Quiet => LET plan == Plan(client.phase) IN
        /\ told.phase = client.phase
        /\ \A k \in plan \cap answered : told[k] = client.data[k]
        /\ \A k \in Kinds \ (plan \cup forgotten) : told[k] = 0
        /\ "lobby" \notin plan => told.status = Status(client.phase, FALSE)
        /\ "lobby" \in plan \cap answered => told.status = Status(client.phase, TRUE)

(* A poll that finds the client gone takes back the status the Bot was told,   *)
(* unless it was that of a process replaced before a poll saw it gone.        *)
GoneIsTold ==
    conn # "down" /\ poll.at = "idle" /\ poller.available = "no" /\ "status" \notin forgotten
        => told.status = Offline
===============================================================================
