--------------------------- MODULE RelayConnections ---------------------------
(***************************************************************************)
(* The Relay's connection registry (relay/connections.py, the class        *)
(* ConnectionManager) with the coroutines that use it: the agent WebSocket *)
(* handler ws_agent, the HTTP requests that bind a session to a Discord    *)
(* user, and the internal command requests (relay/app.py).                 *)
(*                                                                         *)
(* asyncio runs one coroutine at a time and switches only at an await that *)
(* suspends.  No critical section of ConnectionManager suspends, so        *)
(* each of them is one step here, and everything between two               *)
(* suspensions of a coroutine is one step of that coroutine.               *)
(***************************************************************************)
EXTENDS Naturals, FiniteSets

CONSTANTS
    Sockets,      \* WebSocket objects, named by id(ws): an id is used again later
    Sessions,     \* session_id values
    Users,        \* Discord ids
    Reqs,         \* request_id values of internal commands (random, used once)
    None,         \* "no entry"
    MaxHttpBinds  \* bound: bind requests over HTTP in flight at a time

ASSUME NoneIsNew == None \notin Sockets \cup Sessions \cup Users
ASSUME MaxHttpBindsIsNat == MaxHttpBinds \in Nat

VARIABLES
    active,       \* _active_session_ws : session -> socket
    waiting,      \* _session_ws : session -> socket that is attached and not bound
    byUser,       \* _by_discord : user -> socket messages are routed to
    wsUser,       \* _ws_discord : socket -> user
    wsSession,    \* _ws_session_id : socket -> session
    wsWaiting,    \* _ws_session : socket -> session, until bound
    challenge,    \* sockets with an entry in _ws_device_challenge
    fresh,        \* sockets heard from within AGENT_HEARTBEAT_STALE_SEC
    pendingInfo,  \* sockets with an entry in _pending_agent_info_by_ws
    agentInfo,    \* _agent_info : user -> socket whose hello wrote the entry
    snapshot,     \* _gameflow, _party_lobby : user -> socket that wrote the entry
    status,       \* _participant_status : "unknown" | "online" | "offline"
    pc,           \* where the handler coroutine of a socket is
    local,        \* the handler's own session_id
    bind,         \* the handler's bind in progress: [user, takeover]
    httpBinds,    \* binds in progress on behalf of HTTP requests
    cmd           \* internal commands: [phase, user, target, fut, by]

registry == <<active, waiting, byUser, wsUser, wsSession, wsWaiting>>
caches   == <<challenge, fresh, pendingInfo, agentInfo, snapshot, status>>
handlers == <<pc, local, bind>>
vars     == <<registry, caches, handlers, httpBinds, cmd>>

PCs == {"free",       \* no connection uses this id
        "attached",   \* attach_session done, device proof fields not looked at yet
        "setupBind",  \* binding the saved session, before the receive loop
        "setupEnd",   \* that bind returned
        "loop",       \* in the receive loop, under try/finally
        "loopBind",   \* binding on behalf of a message
        "left"}       \* returned or raised before the try: no finally clause runs

NoBind == [user |-> None, takeover |-> FALSE]
HttpBind == [session : Sessions, user : Users, takeover : BOOLEAN]

IdleCmd == [phase |-> "idle", user |-> None, target |-> None, fut |-> "none", by |-> None]
CmdPhases == {"idle", "sending", "waiting", "ok", "failed", "disconnected", "timeout"}
Cmd == [phase : CmdPhases, user : Users \cup {None}, target : Sockets \cup {None},
        fut : {"none", "open", "result", "cancelled"}, by : Sockets \cup {None}]

Init ==
    /\ active = [s \in Sessions |-> None]
    /\ waiting = [s \in Sessions |-> None]
    /\ byUser = [d \in Users |-> None]
    /\ wsUser = [w \in Sockets |-> None]
    /\ wsSession = [w \in Sockets |-> None]
    /\ wsWaiting = [w \in Sockets |-> None]
    /\ challenge = {} /\ fresh = {} /\ pendingInfo = {}
    /\ agentInfo = [d \in Users |-> None]
    /\ snapshot = [d \in Users |-> None]
    /\ status = [d \in Users |-> "unknown"]
    /\ pc = [w \in Sockets |-> "free"]
    /\ local = [w \in Sockets |-> None]
    /\ bind = [w \in Sockets |-> NoBind]
    /\ httpBinds = {}
    /\ cmd = [r \in Reqs |-> IdleCmd]

-------------------------------------------------------------------------------
(* _drop_ws_locked, one operator per table.  Each is total: dropping None    *)
(* changes nothing.                                                          *)

UserOf(w) == IF w \in Sockets THEN wsUser[w] ELSE None
WaitsFor(w) == IF w \in Sockets THEN wsWaiting[w] ELSE None

ByUserWithout(w) ==
    [d \in Users |-> IF d = UserOf(w) /\ byUser[d] = w THEN None ELSE byUser[d]]
WaitingWithout(w) ==
    [s \in Sessions |-> IF s = WaitsFor(w) /\ waiting[s] = w THEN None ELSE waiting[s]]
ActiveWithout(w) == [s \in Sessions |-> IF active[s] = w THEN None ELSE active[s]]
\* Fault for a mutant: the per-socket maps keep the dropped socket.
ClearedNot(f, w) == f
Cleared(f, w) == [x \in Sockets |-> IF x = w THEN None ELSE f[x]]
\* Fault for a mutant: the user's caches outlive the connection.
CacheKept(f, w) == f
CacheWithout(f, w) == [d \in Users |-> IF d = UserOf(w) THEN None ELSE f[d]]

\* Fault for a mutant: dropping a socket leaves the futures of its user open.
CancelledNot(w) == cmd

\* _cancel_pending_for_discord_locked for the user of w
Cancelled(w) ==
    [r \in Reqs |-> IF cmd[r].user # None /\ cmd[r].user = UserOf(w) /\ cmd[r].fut = "open"
                    THEN [cmd[r] EXCEPT !.fut = "cancelled"] ELSE cmd[r]]

\* Fault for a mutant: the hello of an unbound socket is not forgotten.
DropTablesKeepInfo(w) ==
    /\ active' = ActiveWithout(w) /\ waiting' = WaitingWithout(w) /\ byUser' = ByUserWithout(w)
    /\ wsUser' = Cleared(wsUser, w) /\ wsSession' = Cleared(wsSession, w)
    /\ wsWaiting' = Cleared(wsWaiting, w)
    /\ challenge' = challenge \ {w} /\ fresh' = fresh \ {w}
    /\ agentInfo' = CacheWithout(agentInfo, w) /\ snapshot' = CacheWithout(snapshot, w)
    /\ UNCHANGED pendingInfo

\* The tables after the socket w is dropped and nothing else happens.
DropTables(w) ==
    /\ active' = ActiveWithout(w)
    /\ waiting' = WaitingWithout(w)
    /\ byUser' = ByUserWithout(w)
    /\ wsUser' = Cleared(wsUser, w)
    /\ wsSession' = Cleared(wsSession, w)
    /\ wsWaiting' = Cleared(wsWaiting, w)
    /\ challenge' = challenge \ {w}
    /\ fresh' = fresh \ {w}
    /\ pendingInfo' = pendingInfo \ {w}
    /\ agentInfo' = CacheWithout(agentInfo, w)
    /\ snapshot' = CacheWithout(snapshot, w)

\* unregister_ws: the user is marked offline only if this socket is still the
\* one messages are routed to.
UnregisterTables(w) ==
    /\ DropTables(w)
    /\ status' = [d \in Users |-> IF d = UserOf(w) /\ byUser[d] = w THEN "offline" ELSE status[d]]

-------------------------------------------------------------------------------
(* The agent handler before its receive loop.                                *)

\* attach_session: the newest connection of a session replaces the older one.
Attach(w, s) ==
    /\ pc[w] = "free"
    /\ \A r \in Reqs : cmd[r].phase = "sending" => cmd[r].target # w
    /\ LET old == IF active[s] = w THEN None ELSE active[s] IN
       /\ active' = [ActiveWithout(old) EXCEPT ![s] = w]
       /\ waiting' = [WaitingWithout(old) EXCEPT ![s] = w]
       /\ byUser' = ByUserWithout(old)
       /\ wsUser' = Cleared(wsUser, old)
       /\ wsSession' = [Cleared(wsSession, old) EXCEPT ![w] = s]
       /\ wsWaiting' = [Cleared(wsWaiting, old) EXCEPT ![w] = s]
       /\ challenge' = challenge \ {old}
       /\ fresh' = (fresh \ {old}) \cup {w}
       /\ pendingInfo' = pendingInfo \ {old}
       /\ agentInfo' = CacheWithout(agentInfo, old)
       /\ snapshot' = CacheWithout(snapshot, old)
       /\ cmd' = Cancelled(old)
       /\ UNCHANGED status
    /\ pc' = [pc EXCEPT ![w] = "attached"]
    /\ local' = [local EXCEPT ![w] = s]
    /\ UNCHANGED <<bind, httpBinds>>

\* Proof fields present: the challenge is stored and sent; without them, and
\* without a saved session, the handler goes straight to its loop.  (Between
\* attach_session and this step the code suspends only if it closes a replaced
\* socket; the model lets it suspend always.)
SetupChallenge(w) ==
    /\ pc[w] = "attached"
    /\ challenge' = challenge \cup {w}
    /\ \/ pc' = [pc EXCEPT ![w] = "loop"]
       \/ pc' = [pc EXCEPT ![w] = "left"]      \* send_json raised
    /\ UNCHANGED <<registry, fresh, pendingInfo, agentInfo, snapshot, status,
                   local, bind, httpBinds, cmd>>

SetupNoChallenge(w) ==
    /\ pc[w] = "attached"
    /\ \/ pc' = [pc EXCEPT ![w] = "loop"]
       \/ pc' = [pc EXCEPT ![w] = "left"]      \* malformed proof fields, or Redis failed
    /\ UNCHANGED <<registry, caches, local, bind, httpBinds, cmd>>

\* A saved session is bound without a challenge.  Which user a session is
\* saved for is data in Redis that logins and expiry change at any time.
SetupBind(w) ==
    /\ pc[w] = "attached"
    /\ waiting[local[w]] # None
    /\ \E d \in Users : bind' = [bind EXCEPT ![w] = [user |-> d, takeover |-> FALSE]]
    /\ pc' = [pc EXCEPT ![w] = "setupBind"]
    /\ UNCHANGED <<registry, caches, local, httpBinds, cmd>>

\* The handler of a rejected socket returns, every other one enters its loop,
\* unless a call after the bind raised.
SetupEnd(w) ==
    /\ pc[w] = "setupEnd"
    /\ \/ pc' = [pc EXCEPT ![w] = IF wsSession[w] = None THEN "left" ELSE "loop"]
       \/ pc' = [pc EXCEPT ![w] = "left"]
    /\ UNCHANGED <<registry, caches, local, bind, httpBinds, cmd>>

-------------------------------------------------------------------------------
(* Binding a session to a user.                                              *)

\* Fault for a mutant: the session comparison is inverted.
KeepsOtherInverted(w, s, d, takeover) ==
    /\ byUser[d] # None
    /\ byUser[d] # w
    /\ wsSession[byUser[d]] = s
    /\ byUser[d] \in fresh
    /\ ~takeover

\* The condition under which bind_discord turns the new socket away: another
\* session of the same user has a healthy connection and this is no explicit
\* login.
KeepsOther(w, s, d, takeover) ==
    LET prev == byUser[d] IN
    /\ prev # None
    /\ prev # w
    /\ wsSession[prev] # s
    /\ prev \in fresh
    /\ ~takeover

\* Fault for a mutant: a bind leaves the remembered status alone.
StatusKept(d) == status

\* _connected_participant_status_locked
ConnectedStatus(d) == [status EXCEPT ![d] = "online"]

\* bind_discord's critical section when the waiting socket w is accepted.
AcceptBind(w, s, d) ==
    LET prev == IF byUser[d] = w THEN None ELSE byUser[d] IN
    /\ active' = ActiveWithout(prev)
    /\ waiting' = [WaitingWithout(prev) EXCEPT ![s] = None]
    /\ byUser' = [ByUserWithout(prev) EXCEPT ![d] = w]
    /\ wsUser' = [Cleared(wsUser, prev) EXCEPT ![w] = d]
    /\ wsSession' = Cleared(wsSession, prev)
    /\ wsWaiting' = [Cleared(wsWaiting, prev) EXCEPT ![w] = None]
    /\ challenge' = challenge \ {prev}
    /\ fresh' = fresh \ {prev}
    /\ pendingInfo' = pendingInfo \ {prev, w}
    /\ \E profile \in BOOLEAN :     \* a Discord profile is stored for the session
          agentInfo' = IF w \in pendingInfo \/ profile
                       THEN [CacheWithout(agentInfo, prev) EXCEPT ![d] = w]
                       ELSE CacheWithout(agentInfo, prev)
    /\ snapshot' = CacheWithout(snapshot, prev)
    /\ status' = ConnectedStatus(d)
    /\ cmd' = Cancelled(prev)

\* bind_discord's critical section when w is turned away.  The session's
\* waiting entry was popped before the decision.
RejectBind(w, s) ==
    /\ active' = ActiveWithout(w)
    /\ waiting' = [waiting EXCEPT ![s] = None]
    /\ byUser' = ByUserWithout(w)
    /\ wsUser' = Cleared(wsUser, w)
    /\ wsSession' = Cleared(wsSession, w)
    /\ wsWaiting' = Cleared(wsWaiting, w)
    /\ challenge' = challenge \ {w}
    /\ fresh' = fresh \ {w}
    /\ pendingInfo' = pendingInfo \ {w}
    /\ agentInfo' = CacheWithout(agentInfo, w)
    /\ snapshot' = CacheWithout(snapshot, w)
    /\ cmd' = Cancelled(w)
    /\ UNCHANGED status

\* The socket bound is the one that waits for the session now, which need not
\* be the socket that waited when the bind was started.
BindDiscord(s, d, takeover) ==
    LET w == waiting[s] IN
    IF w = None
    THEN UNCHANGED <<registry, caches, cmd>>
    ELSE IF KeepsOther(w, s, d, takeover) THEN RejectBind(w, s) ELSE AcceptBind(w, s, d)

\* The end of a handler's _try_bind_discord: it binds, or gives up because the
\* stored token does not match; a Redis error ends the handler as well.
HandlerBind(w) ==
    /\ pc[w] \in {"setupBind", "loopBind"}
    /\ BindDiscord(local[w], bind[w].user, bind[w].takeover)
    /\ pc' = [pc EXCEPT ![w] = IF pc[w] = "setupBind" THEN "setupEnd" ELSE "loop"]
    /\ bind' = [bind EXCEPT ![w] = NoBind]
    /\ UNCHANGED <<local, httpBinds>>

HandlerBindFails(w) ==
    /\ pc[w] \in {"setupBind", "loopBind"}
    /\ \/ pc' = [pc EXCEPT ![w] = IF pc[w] = "setupBind" THEN "setupEnd" ELSE "loop"]
       \/ pc[w] = "setupBind" /\ pc' = [pc EXCEPT ![w] = "left"]
    /\ bind' = [bind EXCEPT ![w] = NoBind]
    /\ UNCHANGED <<registry, caches, local, httpBinds, cmd>>

\* auth_callback (an explicit login) and auth_status (a saved session)
HttpBindStart(s, d, takeover) ==
    /\ Cardinality(httpBinds) < MaxHttpBinds
    /\ takeover \/ active[s] # None
    /\ waiting[s] # None
    /\ httpBinds' = httpBinds \cup {[session |-> s, user |-> d, takeover |-> takeover]}
    /\ UNCHANGED <<registry, caches, handlers, cmd>>

HttpBindEnd(b) ==
    /\ b \in httpBinds
    /\ \/ BindDiscord(b.session, b.user, b.takeover)
       \/ UNCHANGED <<registry, caches, cmd>>
    /\ httpBinds' = httpBinds \ {b}
    /\ UNCHANGED handlers

-------------------------------------------------------------------------------
(* The agent handler in its receive loop.  Any message refreshes the socket   *)
(* while the registry knows it (mark_agent_activity).                         *)

Receives(w) == pc[w] = "loop"

\* Fault for a mutant: activity is recorded under the session.
HeardSession(w) == fresh \cup {wsSession[w]}
Heard(w) == IF wsSession[w] # None \/ wsUser[w] # None THEN fresh \cup {w} ELSE fresh

Ping(w) ==
    /\ Receives(w)
    /\ fresh' = Heard(w)
    /\ UNCHANGED <<registry, challenge, pendingInfo, agentInfo, snapshot, status,
                   handlers, httpBinds, cmd>>

\* agent_hello: remember who is there, then try the automatic login of an
\* unbound socket that has no challenge to answer.
Hello(w) ==
    /\ Receives(w)
    /\ fresh' = Heard(w)
    /\ IF wsUser[w] = None
       THEN /\ pendingInfo' = pendingInfo \cup {w}
            /\ UNCHANGED <<agentInfo, status>>
       ELSE /\ agentInfo' = [agentInfo EXCEPT ![wsUser[w]] = w]
            /\ status' = ConnectedStatus(wsUser[w])
            /\ UNCHANGED pendingInfo
    /\ \/ UNCHANGED <<pc, bind>>
       \/ /\ w \notin challenge
          /\ wsUser[w] = None
          /\ wsSession[w] # None
          /\ waiting[wsSession[w]] # None
          /\ \E d \in Users : bind' = [bind EXCEPT ![w] = [user |-> d, takeover |-> FALSE]]
          /\ pc' = [pc EXCEPT ![w] = "loopBind"]
    /\ UNCHANGED <<registry, challenge, snapshot, local, httpBinds, cmd>>

\* device_proof with a valid signature: the challenge is answered and the saved
\* session, if there is one, is bound.  (The replayed hello is a later Hello.)
DeviceProof(w) ==
    /\ Receives(w)
    /\ w \in challenge
    /\ wsSession[w] # None
    /\ fresh' = Heard(w)
    /\ challenge' = challenge \ {w}
    /\ \/ UNCHANGED <<pc, bind>>
       \/ /\ waiting[local[w]] # None
          /\ \E d \in Users : bind' = [bind EXCEPT ![w] = [user |-> d, takeover |-> FALSE]]
          /\ pc' = [pc EXCEPT ![w] = "loopBind"]
    /\ UNCHANGED <<registry, pendingInfo, agentInfo, snapshot, status,
                   local, httpBinds, cmd>>

\* complete_oauth_link: the code typed into the agent is an explicit login.
OAuthLink(w) ==
    /\ Receives(w)
    /\ wsSession[w] # None
    /\ waiting[wsSession[w]] # None
    /\ fresh' = Heard(w)
    /\ \E d \in Users : bind' = [bind EXCEPT ![w] = [user |-> d, takeover |-> TRUE]]
    /\ pc' = [pc EXCEPT ![w] = "loopBind"]
    /\ UNCHANGED <<registry, challenge, pendingInfo, agentInfo, snapshot, status,
                   local, httpBinds, cmd>>

\* participant_status_update, party_lobby_update, gameflow_update: what the
\* socket reports is stored for its user; an unbound socket is ignored.
Update(w) ==
    /\ Receives(w)
    /\ wsUser[w] # None
    /\ fresh' = Heard(w)
    /\ \/ /\ status' = [status EXCEPT ![wsUser[w]] = "online"]
          /\ UNCHANGED snapshot
       \/ /\ snapshot' = [snapshot EXCEPT ![wsUser[w]] = w]
          /\ UNCHANGED status
    /\ UNCHANGED <<registry, challenge, pendingInfo, agentInfo, handlers, httpBinds, cmd>>

\* command_result completes the future registered under (user, request_id).
CommandResult(w, r) ==
    /\ Receives(w)
    /\ wsUser[w] # None
    /\ cmd[r].user = wsUser[w] /\ cmd[r].fut = "open"
    /\ fresh' = Heard(w)
    /\ cmd' = [cmd EXCEPT ![r].fut = "result", ![r].by = w]
    /\ UNCHANGED <<registry, challenge, pendingInfo, agentInfo, snapshot, status,
                   handlers, httpBinds>>

\* The finally clause: whatever ended the loop (the agent went away, the socket
\* was closed because it was replaced, the activity timeout, an exception), the
\* socket is unregistered.
HandlerEnd(w) ==
    /\ pc[w] \in {"loop", "loopBind"}
    /\ UnregisterTables(w)
    /\ cmd' = Cancelled(w)
    /\ pc' = [pc EXCEPT ![w] = "free"]
    /\ local' = [local EXCEPT ![w] = None]
    /\ bind' = [bind EXCEPT ![w] = NoBind]
    /\ UNCHANGED httpBinds

\* Python may give the id of a handler that left without cleaning up to a new
\* socket once nothing refers to the old one.
Referenced(w) ==
    \/ \E s \in Sessions : active[s] = w \/ waiting[s] = w
    \/ \E d \in Users : byUser[d] = w

Collect(w) ==
    /\ pc[w] = "left"
    /\ ~Referenced(w)
    /\ pc' = [pc EXCEPT ![w] = "free"]
    /\ local' = [local EXCEPT ![w] = None]
    /\ UNCHANGED <<registry, caches, bind, httpBinds, cmd>>

-------------------------------------------------------------------------------
(* Internal commands: POST /internal/command                                 *)

\* register_pending_result and the lookup of send_command happen without a
\* suspension between them; an offline or stale user fails the request.
IssueCommand(r, d) ==
    /\ cmd[r].phase = "idle"
    /\ LET w == byUser[d] IN
       cmd' = [cmd EXCEPT ![r] =
                 IF w # None /\ w \in fresh
                 THEN [phase |-> "sending", user |-> d, target |-> w, fut |-> "open", by |-> None]
                 ELSE [phase |-> "failed", user |-> d, target |-> None, fut |-> "cancelled", by |-> None]]
    /\ UNCHANGED <<registry, caches, handlers, httpBinds>>

CommandSent(r) ==
    /\ cmd[r].phase = "sending"
    /\ cmd' = [cmd EXCEPT ![r].phase = "waiting"]
    /\ UNCHANGED <<registry, caches, handlers, httpBinds>>

\* The send raised or took longer than AGENT_WS_SEND_TIMEOUT_SEC: the socket is
\* unregistered (and closed), the request fails.
CommandSendFails(r) ==
    /\ cmd[r].phase = "sending"
    /\ UnregisterTables(cmd[r].target)
    /\ cmd' = [Cancelled(cmd[r].target) EXCEPT
                 ![r].phase = "failed",
                 ![r].fut = IF cmd[r].fut = "open" THEN "cancelled" ELSE @]
    /\ UNCHANGED <<handlers, httpBinds>>

CommandAnswered(r) ==
    /\ cmd[r].phase = "waiting"
    /\ \/ cmd[r].fut = "result" /\ cmd' = [cmd EXCEPT ![r].phase = "ok"]
       \/ cmd[r].fut = "cancelled" /\ cmd' = [cmd EXCEPT ![r].phase = "disconnected"]
    /\ UNCHANGED <<registry, caches, handlers, httpBinds>>

CommandTimeout(r) ==
    /\ cmd[r].phase = "waiting"
    /\ cmd[r].fut = "open"
    /\ cmd' = [cmd EXCEPT ![r].phase = "timeout", ![r].fut = "cancelled"]
    /\ UNCHANGED <<registry, caches, handlers, httpBinds>>

-------------------------------------------------------------------------------
(* The environment                                                            *)

\* AGENT_HEARTBEAT_STALE_SEC pass without a message on w.
GoStale(w) ==
    /\ w \in fresh
    /\ fresh' = fresh \ {w}
    /\ UNCHANGED <<registry, challenge, pendingInfo, agentInfo, snapshot, status,
                   handlers, httpBinds, cmd>>

Handler(w) ==
    \/ \E s \in Sessions : Attach(w, s)
    \/ SetupChallenge(w) \/ SetupNoChallenge(w) \/ SetupBind(w) \/ SetupEnd(w)
    \/ HandlerBind(w) \/ HandlerBindFails(w)
    \/ Ping(w) \/ Hello(w) \/ DeviceProof(w) \/ OAuthLink(w) \/ Update(w)
    \/ \E r \in Reqs : CommandResult(w, r)
    \/ HandlerEnd(w) \/ Collect(w)

Http ==
    \/ \E s \in Sessions, d \in Users, t \in BOOLEAN : HttpBindStart(s, d, t)
    \/ \E b \in httpBinds : HttpBindEnd(b)
    \/ \E r \in Reqs :
          \/ \E d \in Users : IssueCommand(r, d)
          \/ CommandSent(r) \/ CommandSendFails(r) \/ CommandAnswered(r) \/ CommandTimeout(r)

Environment == \E w \in Sockets : GoStale(w)

Next == (\E w \in Sockets : Handler(w)) \/ Http \/ Environment

Spec == Init /\ [][Next]_vars

-------------------------------------------------------------------------------
(* Properties                                                                 *)

TypeOK ==
    /\ active \in [Sessions -> Sockets \cup {None}]
    /\ waiting \in [Sessions -> Sockets \cup {None}]
    /\ byUser \in [Users -> Sockets \cup {None}]
    /\ wsUser \in [Sockets -> Users \cup {None}]
    /\ wsSession \in [Sockets -> Sessions \cup {None}]
    /\ wsWaiting \in [Sockets -> Sessions \cup {None}]
    /\ challenge \subseteq Sockets /\ fresh \subseteq Sockets /\ pendingInfo \subseteq Sockets
    /\ agentInfo \in [Users -> Sockets \cup {None}]
    /\ snapshot \in [Users -> Sockets \cup {None}]
    /\ status \in [Users -> {"unknown", "online", "offline"}]
    /\ pc \in [Sockets -> PCs]
    /\ local \in [Sockets -> Sessions \cup {None}]
    /\ bind \in [Sockets -> [user : Users \cup {None}, takeover : BOOLEAN]]
    /\ httpBinds \subseteq HttpBind
    /\ cmd \in [Reqs -> Cmd]
    /\ \A w \in Sockets :
          /\ pc[w] # "free" => local[w] \in Sessions
          /\ pc[w] \in {"setupBind", "loopBind"} => bind[w].user \in Users
    /\ \A r \in Reqs : cmd[r].fut = "open" => cmd[r].user \in Users

\* Users and bound sockets are in one-to-one correspondence.
UserTables ==
    /\ \A d \in Users : byUser[d] # None => wsUser[byUser[d]] = d
    /\ \A w \in Sockets : wsUser[w] # None => byUser[wsUser[w]] = w

\* So are sessions and attached sockets, and sessions and waiting sockets; a
\* waiting socket is its session's active one and is not bound.
SessionTables ==
    /\ \A s \in Sessions : active[s] # None => wsSession[active[s]] = s
    /\ \A w \in Sockets : wsSession[w] # None => active[wsSession[w]] = w
    /\ \A s \in Sessions : waiting[s] # None => wsWaiting[waiting[s]] = s
    /\ \A w \in Sockets : wsWaiting[w] # None =>
          /\ waiting[wsWaiting[w]] = w
          /\ wsSession[w] = wsWaiting[w]
          /\ wsUser[w] = None
    /\ \A w \in Sockets : wsUser[w] # None => wsSession[w] # None

\* A socket id no connection uses is in none of the tables.
FreeIds ==
    \A w \in Sockets : pc[w] = "free" =>
        wsUser[w] = None /\ wsSession[w] = None /\ wsWaiting[w] = None

\* The registry's tables agree with each other whatever the order in which
\* reconnections, binds over HTTP and over the socket, send failures and late
\* cleanups arrive.  _drop_ws_locked and bind_discord update the tables one by
\* one, guarded by "is ws" tests that are right only under this invariant.
RegistryInv == UserTables /\ SessionTables /\ FreeIds

\* What is cached for a user (agent info, gameflow, party) was reported by the
\* connection the user has now: an older connection's cleanup or late message
\* neither leaves its data behind nor overwrites that of its successor.
CacheOwned ==
    \A d \in Users :
        /\ agentInfo[d] # None => agentInfo[d] = byUser[d]
        /\ snapshot[d] # None => snapshot[d] = byUser[d]

\* A command request that still waits for its answer waits for the connection
\* the command was sent to, and that connection is still the user's: the
\* connection's end, replacement or send failure has cancelled all others.
WaiterHasTarget ==
    \A r \in Reqs : cmd[r].fut = "open" =>
        cmd[r].target # None /\ byUser[cmd[r].user] = cmd[r].target

\* A command is answered only by the connection it was sent to, never by one
\* that took its place (command_result looks the future up by Discord id).
ResultFromTarget ==
    \A r \in Reqs : cmd[r].fut = "result" => cmd[r].by = cmd[r].target

\* A command's future ends with the connection the command was sent to, and is
\* answered by no other, in whatever order the answer, its timeout, a failed
\* send and the successor's connection arrive.
AnswersSafe == WaiterHasTarget /\ ResultFromTarget

\* A user reported offline has no connection: the late cleanup of an old
\* connection does not report its successor's user offline
\* (test_replaced_old_socket_cannot_publish_offline).
OfflineMeansGone == \A d \in Users : status[d] = "offline" => byUser[d] = None

\* The hello stored for an unbound socket is gone when its id is free, so that
\* no later connection is bound with the info of another agent.
InfoNotInherited == \A w \in Sockets : pc[w] = "free" => w \notin pendingInfo

\* What the Relay says of a user, from its caches or as his status, comes from
\* the connection he has: no late cleanup, late message or stored hello of
\* another connection gets into it.
SaidOfOwner == CacheOwned /\ OfflineMeansGone /\ InfoNotInherited

\* A connection heard from recently loses its user to another one only through
\* an explicit login: a saved session that binds is turned away, however its
\* bind was started and however long ago.
HealthyKept ==
    [][\A d \in Users :
         byUser[d] # None /\ byUser[d] \in fresh /\ byUser'[d] \notin {None, byUser[d]}
         => \/ \E b \in httpBinds \ httpBinds' : b.takeover
            \/ \E w \in Sockets : bind[w].takeover /\ bind'[w] # bind[w]]_vars
==============================================================================
