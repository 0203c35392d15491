-------------------------- MODULE SessionCredentials --------------------------
(* The login of the agent and its long-lived refresh token: the session file   *)
(* and the supervisor that connects with it (session/mod.rs, commands/agent.rs *)
(* and the identity part of supervisor.rs), and the keys of the Relay with the *)
(* handlers that issue a token (app.py).  The handlers await Redis between     *)
(* their steps; two of them, of the WebSocket and of the OAuth callback, may   *)
(* issue a token for the same session at once.                                 *)
EXTENDS Naturals, FiniteSets

CONSTANTS
    Accounts,    \* Discord accounts
    Main,        \* the account the League client is known by
    None,
    MaxSids,     \* bound: sessions created
    MaxTokens,   \* bound: refresh tokens issued
    MaxFaults    \* bound: expiries, lost connections, failed saves, restarts

VARIABLES
    \* the agent
    file,        \* relay-session.json: None or [sid, token, pin]
    mem,         \* the session of the running supervisor, or None
    bound,       \* this connection's session_bound: [account, trusted], or None
    suppressed,  \* manual-logout.flag
    logout,      \* where logout_inner is
    \* the connection and the Relay's table of it
    open,        \* the agent's end is open
    ws,          \* the Relay's end: None or [sid, presented, proved, bound]
    mail,        \* session_bound sent and not yet read: a set of at most one
    \* Redis, by session
    session,     \* relay:session, with a TTL
    auto,        \* sessions that came to be by an automatic login, with a TTL
    mapping,     \* the token the session is mapped to
    records,     \* refresh records [token, sid, account], without expiry
    trusted,     \* accounts this device is trusted for
    \* handlers, and bounds
    task,        \* of each handler: [pc, sid, account, trusted, token]
    sids, tokens, faults,
    clash        \* history: "handlers" of one session were under way at once, the "issue"
                 \* of a token met another, a revocation or a restart, or the connection
                 \* "moved" under a handler that had found its token current

agentVars == <<file, mem, bound, suppressed, logout, open>>
redisVars == <<session, auto, mapping, records, trusted>>
vars == <<agentVars, ws, mail, redisVars, task, sids, tokens, faults, clash>>

Handlers == {"socket", "callback"}
Done == [pc |-> "idle", sid |-> 0, account |-> None, trusted |-> TRUE, token |-> None]

Init ==
    /\ file = None /\ mem = None /\ bound = None
    /\ suppressed = FALSE /\ logout = "no" /\ open = FALSE
    /\ ws = None /\ mail = {}
    /\ session = [s \in 1..MaxSids |-> None] /\ auto = {}
    /\ mapping = session /\ records = {} /\ trusted = {}
    /\ task = [h \in Handlers |-> Done]
    /\ sids = 0 /\ tokens = 0 /\ faults = 0 /\ clash = {}

Fault == faults < MaxFaults /\ faults' = faults + 1
Clashes(what, holds) == clash \cup {w \in {what} : holds}

-----------------------------------------------------------------------------
(* The agent.                                                                 *)

Running == mem # None
Shut == bound' = None /\ open' = FALSE /\ mail' = {}

Fresh(sid) == [sid |-> sid, token |-> None, pin |-> None]

(* session::load: what was saved, or nothing when it cannot be read or        *)
(* decrypted.                                                                 *)
Loads(found) == \/ found = file /\ UNCHANGED faults
                \/ file # None /\ found = None /\ Fault

(* run_supervisor: the saved session, or a new one.                           *)
Start(byUser) ==
    /\ ~ Running /\ logout = "no"
    /\ suppressed' = (suppressed /\ ~ byUser)
    /\ \E found \in {file, None} :
         /\ Loads(found)
         /\ IF found # None THEN mem' = found /\ UNCHANGED sids
            ELSE sids < MaxSids /\ sids' = sids + 1 /\ mem' = Fresh(sids')
    /\ UNCHANGED <<file, bound, logout, open, ws, mail, redisVars, task, tokens, clash>>

(* session::save, which may fail.                                             *)
Save(s) == \/ file' = s /\ UNCHANGED faults
           \/ Fault /\ UNCHANGED file

(* connect_once and attach_session, which drops an older socket.  A handler    *)
(* that was about to bind that one binds the new one, with what the old one    *)
(* had presented.                                                             *)
Connect ==
    /\ Running /\ ~ open
    /\ open' = TRUE /\ mail' = {}
    /\ ws' = [sid |-> mem.sid, presented |-> mem.token, proved |-> FALSE, bound |-> None]
    /\ Save(mem)
    /\ clash' = Clashes("moved", \E h \in Handlers :
                      task[h].pc = "bind" /\ task[h].trusted /\ task[h].token = None)
    /\ UNCHANGED <<mem, bound, suppressed, logout, redisVars, task, sids, tokens>>

(* The agent's end goes; the Relay's is left until it notices.                *)
Disconnect ==
    /\ open /\ Fault /\ Shut
    /\ UNCHANGED <<file, mem, suppressed, logout, ws, redisVars, task, sids, tokens, clash>>

Unregister ==
    /\ ~ open /\ ws # None
    /\ ws' = None
    /\ UNCHANGED <<agentVars, mail, redisVars, task, sids, tokens, faults, clash>>

AcceptAnyPin(m) == TRUE
PinFits(m) == mem.pin \in {None, m.account}

(* session_bound of another account than the pinned one, or a pin that cannot *)
(* be saved: the session file goes and the supervisor ends.                   *)
RejectBound ==
    /\ \E m \in mail : \/ ~ PinFits(m) /\ UNCHANGED faults
                       \/ mem.pin = None /\ Fault
    /\ file' = None /\ mem' = None /\ Shut
    /\ UNCHANGED <<suppressed, logout, ws, redisVars, task, sids, tokens, clash>>

(* session_bound: pin, and a new token in memory first and in the file then.  *)
AcceptBound ==
    /\ \E m \in mail :
         /\ PinFits(m)
         /\ mem' = [mem EXCEPT !.pin = m.account,
                               !.token = IF m.token = None THEN @ ELSE m.token]
         /\ bound' = [account |-> m.account, trusted |-> m.trusted]
         /\ IF m.token # None
            THEN \/ file' = mem' /\ UNCHANGED faults
                 \/ Fault /\ file' = IF mem.pin = None THEN [mem EXCEPT !.pin = m.account] ELSE file
            ELSE UNCHANGED faults /\ file' = IF mem.pin = None THEN mem' ELSE file
    /\ mail' = {}
    /\ UNCHANGED <<suppressed, logout, open, ws, redisVars, task, sids, tokens, clash>>

(* logout_inner: revoke what the file holds, stop, remove, suppress.          *)
LogoutBegins ==
    /\ logout = "no" /\ file # None
    /\ logout' = "revoke"
    /\ UNCHANGED <<file, mem, bound, suppressed, open, ws, mail, redisVars, task, sids, tokens, faults, clash>>

Idle == \A h \in Handlers : task[h].pc = "idle"
Issuing == {h \in Handlers : task[h].pc \in {"replace", "record", "map"}}

Revocable == file # None /\ file.token # None /\ mapping[file.sid] = file.token

(* POST /session/revoke: nothing unless the token is the mapped one.          *)
Revoke ==
    /\ logout = "revoke" /\ logout' = "stop"
    /\ \/ /\ Revocable
          /\ records' = {r \in records : r.token # file.token}
          /\ mapping' = [mapping EXCEPT ![file.sid] = None]
          /\ session' = [session EXCEPT ![file.sid] = None]
          /\ auto' = auto \ {file.sid}
          /\ clash' = Clashes("issue", Issuing # {}) \cup Clashes("handlers", ~ Idle)
          /\ UNCHANGED faults
       \/ /\ ~ Revocable
          /\ UNCHANGED <<records, mapping, session, auto, clash, faults>>
       \/ Fault /\ UNCHANGED <<records, mapping, session, auto, clash>>
    /\ UNCHANGED <<file, mem, bound, suppressed, open, ws, mail, trusted, task, sids, tokens>>

LogoutStops ==
    /\ logout = "stop" /\ logout' = "remove"
    /\ mem' = None /\ Shut
    /\ UNCHANGED <<file, suppressed, ws, redisVars, task, sids, tokens, faults, clash>>

LogoutRemoves ==
    /\ logout = "remove" /\ logout' = "suppress"
    /\ file' = None
    /\ UNCHANGED <<mem, bound, suppressed, open, ws, mail, redisVars, task, sids, tokens, faults, clash>>

LogoutSuppresses ==
    /\ logout = "suppress" /\ logout' = "no"
    /\ suppressed' = TRUE
    /\ UNCHANGED <<file, mem, bound, open, ws, mail, redisVars, task, sids, tokens, faults, clash>>

(* The process dies, at any of these steps, and is started again.             *)
AppDies ==
    /\ Running \/ logout # "no"
    /\ Fault /\ mem' = None /\ logout' = "no" /\ Shut
    /\ UNCHANGED <<file, suppressed, ws, redisVars, task, sids, tokens, clash>>

-----------------------------------------------------------------------------
(* The handlers of the Relay.                                                 *)

Serve(h, t) == task' = [task EXCEPT ![h] = t]
At(h, pc) == task[h].pc = pc
Go(h, pc) == Serve(h, [task[h] EXCEPT !.pc = pc])
Busy(sid, account, pc) ==
    [pc |-> pc, sid |-> sid, account |-> account, trusted |-> TRUE, token |-> None]

(* _restore_session_from_refresh: the mapped token, with its record.          *)
Restorable(s) == {r \in records : r.token = mapping[s] /\ r.token = ws.presented /\ r.sid = s}

(* device_proof: the session's account, or the one its refresh token restores. *)
Proof ==
    /\ open /\ ws # None /\ ~ ws.proved /\ At("socket", "idle")
    /\ ws' = [ws EXCEPT !.proved = TRUE]
    /\ \/ /\ session[ws.sid] # None
          /\ Serve("socket", Busy(ws.sid, session[ws.sid], "trust"))
          /\ UNCHANGED <<session, auto, trusted>>
       \/ /\ session[ws.sid] = None
          /\ \E r \in Restorable(ws.sid) :
               /\ session' = [session EXCEPT ![r.sid] = r.account]
               /\ auto' = auto \ {r.sid}
               /\ trusted' = trusted \cup {r.account}
               /\ Serve("socket", Busy(r.sid, r.account, "trust"))
       \/ /\ session[ws.sid] = None /\ Restorable(ws.sid) = {}
          /\ UNCHANGED <<session, auto, trusted, task>>
    /\ clash' = Clashes("handlers", ~ Idle)
    /\ UNCHANGED <<agentVars, mail, mapping, records, sids, tokens, faults>>

(* The agent's hello, at first and then every few seconds until it is bound.  *)
TellsIdentity == ~ suppressed /\ bound = None

(* agent_hello with the identity of the League client, sent unless suppressed: *)
(* the automatic login, if no other account is pinned.                        *)
AutoLogin ==
    /\ open /\ TellsIdentity /\ ws # None
    /\ ws.proved /\ ws.bound = None /\ At("socket", "idle")
    /\ mem.pin \in {None, Main}
    /\ session' = [session EXCEPT ![ws.sid] = Main]
    /\ auto' = auto \cup {ws.sid}
    /\ trusted' = IF mem.pin = Main THEN trusted \cup {Main} ELSE trusted
    /\ Serve("socket", Busy(ws.sid, Main, "trust"))
    /\ clash' = Clashes("handlers", ~ Idle)
    /\ UNCHANGED <<agentVars, ws, mail, mapping, records, sids, tokens, faults>>

(* /auth/callback, of a user who logs in with any account.                    *)
Callback(a) ==
    /\ ws # None /\ open /\ At("callback", "idle")
    /\ session' = [session EXCEPT ![ws.sid] = a]
    /\ auto' = auto \ {ws.sid}
    /\ trusted' = trusted \cup {a}
    /\ Serve("callback", Busy(ws.sid, a, "ensure"))
    /\ clash' = Clashes("handlers", ~ Idle)
    /\ UNCHANGED <<agentVars, ws, mail, mapping, records, sids, tokens, faults>>

(* _session_trust_level: a device only known by an automatic login gets no    *)
(* token; one known by a login of the user is enrolled.                       *)
Trust(h) ==
    /\ At(h, "trust")
    /\ IF task[h].account \notin trusted /\ task[h].sid \in auto
       THEN Serve(h, [task[h] EXCEPT !.pc = "bind", !.trusted = FALSE]) /\ UNCHANGED trusted
       ELSE Go(h, "ensure") /\ trusted' = trusted \cup {task[h].account}
    /\ UNCHANGED <<agentVars, ws, mail, session, auto, mapping, records, sids, tokens, faults, clash>>

Unbound(s) == ws # None /\ ws.sid = s /\ ws.bound = None

AnyToken(presented, stored) == presented # None
IsCurrent(presented, stored) == presented # None /\ presented = stored

(* _try_bind_discord up to _ensure_refresh_token: a new token unless the one  *)
(* presented is the mapped one.                                               *)
Ensure(h) ==
    /\ At(h, "ensure")
    /\ \/ ~ Unbound(task[h].sid) /\ Serve(h, Done)
       \/ /\ Unbound(task[h].sid)
          /\ Go(h, IF IsCurrent(ws.presented, mapping[task[h].sid]) THEN "bind" ELSE "replace")
    /\ clash' = Clashes("issue", task'[h].pc = "replace" /\ Issuing # {})
    /\ UNCHANGED <<agentVars, ws, mail, redisVars, sids, tokens, faults>>

OldKept(h) == records
WithoutOld(h) == {r \in records : r.token # mapping[task[h].sid]}

(* _issue_refresh_token: drop the old record, write the new one, map it.      *)
Replace(h) ==
    /\ At(h, "replace") /\ tokens < MaxTokens
    /\ tokens' = tokens + 1
    /\ records' = WithoutOld(h)
    /\ Serve(h, [task[h] EXCEPT !.pc = "record", !.token = tokens'])
    /\ UNCHANGED <<agentVars, ws, mail, session, auto, mapping, trusted, sids, faults, clash>>

Record(h) ==
    /\ At(h, "record")
    /\ records' = records \cup {[token |-> task[h].token, sid |-> task[h].sid,
                                 account |-> task[h].account]}
    /\ Go(h, "map")
    /\ UNCHANGED <<agentVars, ws, mail, session, auto, mapping, trusted, sids, tokens, faults, clash>>

Map(h) ==
    /\ At(h, "map")
    /\ mapping' = [mapping EXCEPT ![task[h].sid] = task[h].token]
    /\ ws' = IF ws # None /\ ws.sid = task[h].sid
             THEN [ws EXCEPT !.presented = task[h].token] ELSE ws
    /\ Go(h, "bind")
    /\ UNCHANGED <<agentVars, mail, session, auto, records, trusted, sids, tokens, faults, clash>>

(* bind_discord: only one of two handlers finds the session unbound, and only *)
(* its token is sent.                                                         *)
Bind(h) ==
    /\ At(h, "bind")
    /\ IF Unbound(task[h].sid)
       THEN /\ ws' = [ws EXCEPT !.bound = task[h].account]
            /\ mail' = IF ~ open THEN {} ELSE
                 {[account |-> task[h].account, trusted |-> task[h].trusted, token |-> task[h].token]}
       ELSE UNCHANGED <<ws, mail>>
    /\ Serve(h, Done)
    /\ UNCHANGED <<agentVars, redisVars, sids, tokens, faults, clash>>

(* The TTL of a session's keys runs out.                                      *)
Expire(s) ==
    /\ session[s] # None /\ Fault
    /\ session' = [session EXCEPT ![s] = None]
    /\ auto' = auto \ {s}
    /\ UNCHANGED <<agentVars, ws, mail, mapping, records, trusted, task, sids, tokens, clash>>

RelayRestarts ==
    /\ Fault
    /\ clash' = Clashes("issue", Issuing # {})
    /\ task' = [h \in Handlers |-> Done] /\ ws' = None /\ Shut
    /\ UNCHANGED <<file, mem, suppressed, logout, redisVars, sids, tokens>>

Next ==
    \/ \E u \in BOOLEAN : Start(u)
    \/ Connect \/ Disconnect \/ Unregister \/ RejectBound \/ AcceptBound
    \/ LogoutBegins \/ Revoke \/ LogoutStops \/ LogoutRemoves \/ LogoutSuppresses \/ AppDies
    \/ Proof \/ AutoLogin \/ \E a \in Accounts : Callback(a)
    \/ \E h \in Handlers :
         Trust(h) \/ Ensure(h) \/ Replace(h) \/ Record(h) \/ Map(h) \/ Bind(h)
    \/ \E s \in 1..MaxSids : Expire(s)
    \/ RelayRestarts

Spec == Init /\ [][Next]_vars

-----------------------------------------------------------------------------
Tokens == 1..MaxTokens \cup {None}
Saved == [sid : 1..MaxSids, token : Tokens, pin : Accounts \cup {None}]
Sockets ==
    [sid : 1..MaxSids, presented : Tokens, proved : BOOLEAN, bound : Accounts \cup {None}]
Notices == [account : Accounts, trusted : BOOLEAN, token : Tokens]
Tasks ==
    [pc : {"idle", "trust", "ensure", "replace", "record", "map", "bind"}, sid : 0..MaxSids,
     account : Accounts \cup {None}, trusted : BOOLEAN, token : Tokens]

(* Every variable has its type.                                               *)
TypeOK ==
    /\ file \in Saved \cup {None} /\ mem \in Saved \cup {None}
    /\ bound \in [account : Accounts, trusted : BOOLEAN] \cup {None} /\ suppressed \in BOOLEAN
    /\ logout \in {"no", "revoke", "stop", "remove", "suppress"}
    /\ open \in BOOLEAN
    /\ ws \in Sockets \cup {None}
    /\ mail \subseteq Notices /\ Cardinality(mail) <= 1
    /\ session \in [1..MaxSids -> Accounts \cup {None}]
    /\ auto \subseteq 1..MaxSids
    /\ mapping \in [1..MaxSids -> Tokens]
    /\ records \subseteq [token : 1..MaxTokens, sid : 1..MaxSids, account : Accounts]
    /\ trusted \subseteq Accounts
    /\ task \in [Handlers -> Tasks]
    /\ sids \in 0..MaxSids /\ tokens \in 0..MaxTokens
    /\ faults \in 0..MaxFaults /\ clash \subseteq {"handlers", "issue", "moved"}

(* Every record of the Relay, none of which ever expires, is the one its      *)
(* session is mapped to (app.py: "revocation/rotation removes these keys       *)
(* explicitly"), whatever connection or session was lost, as long as no two    *)
(* handlers issued at once and none was cut by a restart or a revocation.      *)
RecordsCurrent == Idle /\ "issue" \notin clash => \A r \in records : mapping[r.sid] = r.token

(* A token the agent holds restores its own session and the account it is     *)
(* pinned to, never another one, whoever logged in on that session meanwhile. *)
HeldIsPinned ==
    mem # None /\ mem.token # None =>
       \A r \in records : r.token = mem.token => r.sid = mem.sid /\ r.account = mem.pin

(* A bound agent of a trusted device holds the token the Relay knows, so its  *)
(* login outlives the session key; a rotation lost with its connection is     *)
(* made up for by the next bind.  An agent that comes back with an older token *)
(* while a handler still means its last connection is bound without: only the  *)
(* bind after that one gives it a token again (_try_bind_discord, 761-771).    *)
BoundHoldsCurrent ==
    bound # None /\ bound.trusted /\ Idle /\ mail = {} /\ logout = "no" /\ clash = {}
    => mem.token # None /\ mapping[mem.sid] = mem.token
===============================================================================
