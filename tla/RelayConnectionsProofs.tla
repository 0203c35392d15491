------------------------ MODULE RelayConnectionsProofs ------------------------
(***************************************************************************)
(* Proofs that the safety properties of RelayConnections hold for every    *)
(* number of sockets, sessions, users and requests.                        *)
(***************************************************************************)
EXTENDS RelayConnections, TLAPS

LEMMA InitTypeOK == Init => TypeOK
  BY NoneIsNew DEF Init, TypeOK, PCs, NoBind, HttpBind, IdleCmd, Cmd, CmdPhases

\* The values of the tables after a drop are again tables.
LEMMA DropTypes ==
    ASSUME TypeOK, NEW w \in Sockets \cup {None}
    PROVE  /\ ByUserWithout(w) \in [Users -> Sockets \cup {None}]
           /\ WaitingWithout(w) \in [Sessions -> Sockets \cup {None}]
           /\ ActiveWithout(w) \in [Sessions -> Sockets \cup {None}]
           /\ Cleared(wsUser, w) \in [Sockets -> Users \cup {None}]
           /\ Cleared(wsSession, w) \in [Sockets -> Sessions \cup {None}]
           /\ Cleared(wsWaiting, w) \in [Sockets -> Sessions \cup {None}]
           /\ CacheWithout(agentInfo, w) \in [Users -> Sockets \cup {None}]
           /\ CacheWithout(snapshot, w) \in [Users -> Sockets \cup {None}]
  BY NoneIsNew DEF TypeOK, ByUserWithout, WaitingWithout, ActiveWithout, Cleared, CacheWithout

LEMMA CancelledTypes ==
    ASSUME TypeOK, NEW w \in Sockets \cup {None}
    PROVE  /\ Cancelled(w) \in [Reqs -> Cmd]
           /\ \A r \in Reqs : /\ Cancelled(w)[r].user = cmd[r].user
                              /\ Cancelled(w)[r].target = cmd[r].target
                              /\ Cancelled(w)[r].phase = cmd[r].phase
                              /\ Cancelled(w)[r].by = cmd[r].by
                              /\ Cancelled(w)[r].fut = "open" <=>
                                    cmd[r].fut = "open" /\ cmd[r].user # UserOf(w)
                              /\ Cancelled(w)[r].fut = "result" <=> cmd[r].fut = "result"
  <1>1. ASSUME NEW r \in Reqs
        PROVE  /\ cmd[r] \in Cmd
               /\ [cmd[r] EXCEPT !.fut = "cancelled"] \in Cmd
    <2>1. cmd[r] \in Cmd
      BY DEF TypeOK
    <2>2. [cmd[r] EXCEPT !.fut = "cancelled"] \in Cmd
      BY <2>1 DEF Cmd
    <2> QED
      BY <2>1, <2>2
  <1>2. ASSUME NEW r \in Reqs, cmd[r].fut = "open"
        PROVE  cmd[r].user # None
    BY <1>2, NoneIsNew DEF TypeOK
  <1> QED
    BY <1>1, <1>2 DEF Cancelled, Cmd

\* UNCHANGED keeps types.
LEMMA StutterTypeOK == TypeOK /\ UNCHANGED vars => TypeOK'
  BY DEF TypeOK, vars, registry, caches, handlers

LEMMA DropTablesTypes ==
    ASSUME TypeOK, NEW w \in Sockets \cup {None}, DropTables(w)
    PROVE  /\ active' \in [Sessions -> Sockets \cup {None}]
           /\ waiting' \in [Sessions -> Sockets \cup {None}]
           /\ byUser' \in [Users -> Sockets \cup {None}]
           /\ wsUser' \in [Sockets -> Users \cup {None}]
           /\ wsSession' \in [Sockets -> Sessions \cup {None}]
           /\ wsWaiting' \in [Sockets -> Sessions \cup {None}]
           /\ challenge' \subseteq Sockets /\ fresh' \subseteq Sockets /\ pendingInfo' \subseteq Sockets
           /\ agentInfo' \in [Users -> Sockets \cup {None}]
           /\ snapshot' \in [Users -> Sockets \cup {None}]
  BY DropTypes DEF DropTables, TypeOK

\* The part of TypeOK that a bind can change.
BindTypes ==
    /\ active \in [Sessions -> Sockets \cup {None}]
    /\ waiting \in [Sessions -> Sockets \cup {None}]
    /\ byUser \in [Users -> Sockets \cup {None}]
    /\ wsUser \in [Sockets -> Users \cup {None}]
    /\ wsSession \in [Sockets -> Sessions \cup {None}]
    /\ wsWaiting \in [Sockets -> Sessions \cup {None}]
    /\ challenge \subseteq Sockets /\ fresh \subseteq Sockets /\ pendingInfo \subseteq Sockets
    /\ agentInfo \in [Users -> Sockets \cup {None}]
    /\ snapshot \in [Users -> Sockets \cup {None}]
    /\ status \in [Users -> {"unknown", "online", "offline"}]
    /\ cmd \in [Reqs -> Cmd]
    /\ \A r \in Reqs : cmd[r].fut = "open" => cmd[r].user \in Users

LEMMA BindKeepsTypes ==
    ASSUME TypeOK, NEW s \in Sessions, NEW d \in Users, NEW t \in BOOLEAN, BindDiscord(s, d, t)
    PROVE  BindTypes'
  <1> DEFINE ws == waiting[s]
  <1>0. ws \in Sockets \cup {None}
    BY DEF TypeOK
  <1>1. CASE ws = None
    BY <1>1 DEF TypeOK, BindTypes, BindDiscord, registry, caches
  <1>2. CASE ws # None /\ KeepsOther(ws, s, d, t)
    <2>1. RejectBind(ws, s) /\ ws \in Sockets
      BY <1>0, <1>2 DEF BindDiscord
    <2> HIDE DEF ws
    <2>2. Cancelled(ws) \in [Reqs -> Cmd]
          /\ \A r \in Reqs : Cancelled(ws)[r].fut = "open" => Cancelled(ws)[r].user \in Users
      BY <1>0, CancelledTypes DEF TypeOK
    <2> QED
      BY <2>1, <2>2, DropTypes DEF RejectBind, BindTypes, TypeOK
  <1>3. CASE ws # None /\ ~KeepsOther(ws, s, d, t)
    <2> DEFINE prev == IF byUser[d] = ws THEN None ELSE byUser[d]
    <2>1. AcceptBind(ws, s, d) /\ ws \in Sockets /\ prev \in Sockets \cup {None}
      BY <1>0, <1>3 DEF BindDiscord, TypeOK
    <2> HIDE DEF ws
    <2>3. /\ active' = ActiveWithout(prev)
          /\ waiting' = [WaitingWithout(prev) EXCEPT ![s] = None]
          /\ byUser' = [ByUserWithout(prev) EXCEPT ![d] = ws]
          /\ wsUser' = [Cleared(wsUser, prev) EXCEPT ![ws] = d]
          /\ wsSession' = Cleared(wsSession, prev)
          /\ wsWaiting' = [Cleared(wsWaiting, prev) EXCEPT ![ws] = None]
          /\ snapshot' = CacheWithout(snapshot, prev)
          /\ cmd' = Cancelled(prev)
          /\ agentInfo' \in {CacheWithout(agentInfo, prev),
                             [CacheWithout(agentInfo, prev) EXCEPT ![d] = ws]}
      BY <2>1 DEF AcceptBind
    <2>4. status' \in [Users -> {"unknown", "online", "offline"}]
      BY <2>1 DEF AcceptBind, ConnectedStatus, TypeOK
    <2>6. challenge' \subseteq Sockets /\ fresh' \subseteq Sockets /\ pendingInfo' \subseteq Sockets
      BY <2>1 DEF AcceptBind, TypeOK
    <2> HIDE DEF prev
    <2>2. Cancelled(prev) \in [Reqs -> Cmd]
          /\ \A r \in Reqs : Cancelled(prev)[r].fut = "open" => Cancelled(prev)[r].user \in Users
      BY <2>1, CancelledTypes DEF TypeOK
    <2> QED
      BY <2>1, <2>2, <2>3, <2>4, <2>6, DropTypes DEF BindTypes
  <1> QED
    BY <1>1, <1>2, <1>3

LEMMA UnregisterTypes ==
    ASSUME TypeOK, NEW w \in Sockets \cup {None}, UnregisterTables(w)
    PROVE  status' \in [Users -> {"unknown", "online", "offline"}]
  BY DEF UnregisterTables, TypeOK

LEMMA HeardTypes == ASSUME TypeOK, NEW w \in Sockets PROVE Heard(w) \subseteq Sockets
  BY DEF Heard, TypeOK

\* A handler that starts a bind.
LEMMA StartBindTypes ==
    ASSUME TypeOK, NEW w \in Sockets, pc[w] # "free", NEW d \in Users, NEW t \in BOOLEAN,
           NEW p \in {"setupBind", "loopBind"},
           bind' = [bind EXCEPT ![w] = [user |-> d, takeover |-> t]],
           pc' = [pc EXCEPT ![w] = p]
    PROVE  /\ pc' \in [Sockets -> PCs]
           /\ bind' \in [Sockets -> [user : Users \cup {None}, takeover : BOOLEAN]]
           /\ \A x \in Sockets : /\ pc'[x] # "free" => pc[x] # "free"
                                 /\ pc'[x] \in {"setupBind", "loopBind"} => bind'[x].user \in Users
  <1>1. [user |-> d, takeover |-> t] \in [user : Users \cup {None}, takeover : BOOLEAN]
    OBVIOUS
  <1>2. bind' \in [Sockets -> [user : Users \cup {None}, takeover : BOOLEAN]]
    BY <1>1 DEF TypeOK
  <1>3. pc' \in [Sockets -> PCs]
    BY DEF TypeOK, PCs
  <1>4. ASSUME NEW x \in Sockets
        PROVE  /\ pc'[x] # "free" => pc[x] # "free"
               /\ pc'[x] \in {"setupBind", "loopBind"} => bind'[x].user \in Users
    BY DEF TypeOK
  <1> QED
    BY <1>2, <1>3, <1>4

\* One step per action of the agent handler.
LEMMA HandlerTypeOK ==
    ASSUME TypeOK, NEW w \in Sockets, Handler(w)
    PROVE  TypeOK'
  <1>1. ASSUME NEW s \in Sessions, Attach(w, s) PROVE TypeOK'
    <2> DEFINE old == IF active[s] = w THEN None ELSE active[s]
    <2>1. old \in Sockets \cup {None}
      BY DEF TypeOK
    <2>2. /\ active' = [ActiveWithout(old) EXCEPT ![s] = w]
          /\ waiting' = [WaitingWithout(old) EXCEPT ![s] = w]
          /\ byUser' = ByUserWithout(old)
          /\ wsUser' = Cleared(wsUser, old)
          /\ wsSession' = [Cleared(wsSession, old) EXCEPT ![w] = s]
          /\ wsWaiting' = [Cleared(wsWaiting, old) EXCEPT ![w] = s]
          /\ agentInfo' = CacheWithout(agentInfo, old)
          /\ snapshot' = CacheWithout(snapshot, old)
          /\ cmd' = Cancelled(old)
      BY <1>1 DEF Attach
    <2>3. /\ challenge' \subseteq Sockets /\ fresh' \subseteq Sockets /\ pendingInfo' \subseteq Sockets
          /\ status' = status /\ bind' = bind /\ httpBinds' = httpBinds
          /\ pc' = [pc EXCEPT ![w] = "attached"]
          /\ local' = [local EXCEPT ![w] = s]
      BY <1>1 DEF Attach, TypeOK
    <2> HIDE DEF old
    <2>4. /\ cmd' \in [Reqs -> Cmd]
          /\ \A r \in Reqs : cmd'[r].fut = "open" => cmd'[r].user \in Users
      BY <2>1, <2>2, CancelledTypes DEF TypeOK
    <2> QED
      BY <2>1, <2>2, <2>3, <2>4, DropTypes DEF TypeOK, PCs
  <1>2. CASE SetupChallenge(w)
    BY <1>2 DEF SetupChallenge, TypeOK, PCs, registry
  <1>3. CASE SetupNoChallenge(w)
    BY <1>3 DEF SetupNoChallenge, TypeOK, PCs, registry, caches
  <1>4. CASE SetupBind(w)
    BY <1>4 DEF SetupBind, TypeOK, PCs, registry, caches
  <1>5. CASE SetupEnd(w)
    BY <1>5 DEF SetupEnd, TypeOK, PCs, registry, caches
  <1>6. CASE HandlerBind(w)
    <2>1. local[w] \in Sessions /\ bind[w].user \in Users /\ bind[w].takeover \in BOOLEAN
      BY <1>6 DEF HandlerBind, TypeOK
    <2>2. BindTypes'
      BY <1>6, <2>1, BindKeepsTypes DEF HandlerBind
    <2>3. /\ pc' \in [Sockets -> PCs]
          /\ bind' \in [Sockets -> [user : Users \cup {None}, takeover : BOOLEAN]]
          /\ local' = local /\ httpBinds' = httpBinds
          /\ \A x \in Sockets : /\ pc'[x] # "free" => pc[x] # "free"
                                /\ pc'[x] \in {"setupBind", "loopBind"} =>
                                      pc[x] \in {"setupBind", "loopBind"} /\ bind'[x] = bind[x]
      BY <1>6 DEF HandlerBind, TypeOK, PCs, NoBind
    <2> QED
      BY <2>2, <2>3 DEF BindTypes, TypeOK
  <1>7. CASE HandlerBindFails(w)
    BY <1>7 DEF HandlerBindFails, TypeOK, PCs, registry, caches, NoBind
  <1>8. CASE Ping(w)
    BY <1>8 DEF Ping, Heard, TypeOK, registry, handlers
  <1>9. CASE Hello(w)
    <2>1. wsUser[w] # None => wsUser[w] \in Users
      BY DEF TypeOK
    <2>2. fresh' \subseteq Sockets
      BY <1>9, HeardTypes DEF Hello
    <2>3. /\ pendingInfo' \subseteq Sockets
          /\ agentInfo' \in [Users -> Sockets \cup {None}]
          /\ status' \in [Users -> {"unknown", "online", "offline"}]
      <3>1. CASE wsUser[w] = None
        BY <1>9, <3>1 DEF Hello, TypeOK
      <3>2. CASE wsUser[w] # None
        BY <1>9, <2>1, <3>2 DEF Hello, ConnectedStatus, TypeOK
      <3> QED BY <3>1, <3>2
    <2>4. CASE UNCHANGED <<pc, bind>>
      BY <1>9, <2>2, <2>3, <2>4 DEF Hello, TypeOK, registry
    <2>5. CASE \E d \in Users : /\ bind' = [bind EXCEPT ![w] = [user |-> d, takeover |-> FALSE]]
                                /\ pc' = [pc EXCEPT ![w] = "loopBind"]
      <3>1. pc[w] # "free"
        BY <1>9 DEF Hello, Receives
      <3> QED
        BY <1>9, <2>2, <2>3, <2>5, <3>1, StartBindTypes DEF Hello, TypeOK, registry
    <2> QED
      BY <1>9, <2>4, <2>5 DEF Hello
  <1>10. CASE DeviceProof(w)
    <2>1. fresh' \subseteq Sockets
      BY <1>10, HeardTypes DEF DeviceProof
    <2>2. CASE UNCHANGED <<pc, bind>>
      BY <1>10, <2>1, <2>2 DEF DeviceProof, TypeOK, registry
    <2>3. CASE \E d \in Users : /\ bind' = [bind EXCEPT ![w] = [user |-> d, takeover |-> FALSE]]
                                /\ pc' = [pc EXCEPT ![w] = "loopBind"]
      <3>1. pc[w] # "free"
        BY <1>10 DEF DeviceProof, Receives
      <3> QED
        BY <1>10, <2>1, <2>3, <3>1, StartBindTypes DEF DeviceProof, TypeOK, registry
    <2> QED
      BY <1>10, <2>2, <2>3 DEF DeviceProof
  <1>11. CASE OAuthLink(w)
    <2>1. fresh' \subseteq Sockets
      BY <1>11, HeardTypes DEF OAuthLink
    <2>2. pc[w] # "free"
      BY <1>11 DEF OAuthLink, Receives
    <2> QED
      BY <1>11, <2>1, <2>2, StartBindTypes DEF OAuthLink, TypeOK, registry
  <1>12. CASE Update(w)
    <2>1. fresh' \subseteq Sockets
      BY <1>12, HeardTypes DEF Update
    <2>2. wsUser[w] \in Users
      BY <1>12 DEF Update, TypeOK
    <2> QED
      BY <1>12, <2>1, <2>2 DEF Update, TypeOK, registry, handlers
  <1>13. ASSUME NEW r \in Reqs, CommandResult(w, r) PROVE TypeOK'
    <2>1. fresh' \subseteq Sockets
      BY <1>13, HeardTypes DEF CommandResult
    <2>2. cmd[r] \in Cmd /\ cmd'[r] = [cmd[r] EXCEPT !.fut = "result", !.by = w]
      BY <1>13 DEF CommandResult, TypeOK
    <2>3. cmd'[r] \in Cmd /\ cmd'[r].fut = "result"
      BY <2>2 DEF Cmd
    <2>4. /\ cmd' \in [Reqs -> Cmd]
          /\ \A q \in Reqs : cmd'[q].fut = "open" => cmd'[q].user \in Users
      BY <1>13, <2>3 DEF CommandResult, TypeOK
    <2> QED
      BY <1>13, <2>1, <2>4 DEF CommandResult, TypeOK, registry, handlers
  <1>14. CASE HandlerEnd(w)
    <2>1. /\ DropTables(w) /\ cmd' = Cancelled(w) /\ UnregisterTables(w)
      BY <1>14 DEF HandlerEnd, UnregisterTables
    <2>2. /\ cmd' \in [Reqs -> Cmd]
          /\ \A r \in Reqs : cmd'[r].fut = "open" => cmd'[r].user \in Users
      <3>1. w \in Sockets \cup {None}
        OBVIOUS
      <3> QED
        BY <2>1, <3>1, CancelledTypes DEF TypeOK
    <2>3. /\ pc' \in [Sockets -> PCs] /\ local' \in [Sockets -> Sessions \cup {None}]
          /\ bind' \in [Sockets -> [user : Users \cup {None}, takeover : BOOLEAN]]
          /\ httpBinds' = httpBinds
          /\ \A x \in Sockets : /\ pc'[x] # "free" => pc[x] # "free" /\ local'[x] = local[x]
                                /\ pc'[x] \in {"setupBind", "loopBind"} =>
                                      pc[x] \in {"setupBind", "loopBind"} /\ bind'[x] = bind[x]
      BY <1>14 DEF HandlerEnd, TypeOK, PCs, NoBind
    <2> QED
      BY <2>1, <2>2, <2>3, DropTablesTypes, UnregisterTypes DEF TypeOK
  <1>15. CASE Collect(w)
    BY <1>15 DEF Collect, TypeOK, PCs, registry, caches
  <1> QED
    BY <1>1, <1>2, <1>3, <1>4, <1>5, <1>6, <1>7, <1>8, <1>9, <1>10, <1>11, <1>12,
       <1>13, <1>14, <1>15 DEF Handler

\* One step per action of the HTTP requests.
LEMMA HttpTypeOK == ASSUME TypeOK, Http PROVE TypeOK'
  <1>1. ASSUME NEW s \in Sessions, NEW d \in Users, NEW t \in BOOLEAN, HttpBindStart(s, d, t)
        PROVE  TypeOK'
    <2>1. [session |-> s, user |-> d, takeover |-> t] \in HttpBind
      BY DEF HttpBind
    <2> QED
      BY <1>1, <2>1 DEF HttpBindStart, TypeOK, registry, caches, handlers
  <1>2. ASSUME NEW b \in httpBinds, HttpBindEnd(b) PROVE TypeOK'
    <2>1. b.session \in Sessions /\ b.user \in Users /\ b.takeover \in BOOLEAN
      BY DEF TypeOK, HttpBind
    <2>2. BindTypes'
      <3>1. CASE BindDiscord(b.session, b.user, b.takeover)
        BY <2>1, <3>1, BindKeepsTypes
      <3>2. CASE UNCHANGED <<registry, caches, cmd>>
        BY <3>2 DEF BindTypes, TypeOK, registry, caches
      <3> QED BY <1>2, <3>1, <3>2 DEF HttpBindEnd
    <2> QED
      BY <1>2, <2>2 DEF HttpBindEnd, BindTypes, TypeOK, handlers
  <1>3. ASSUME NEW r \in Reqs, NEW d \in Users, IssueCommand(r, d) PROVE TypeOK'
    <2>1. byUser[d] \in Sockets \cup {None}
      BY DEF TypeOK
    <2>2. cmd'[r] \in Cmd /\ (cmd'[r].fut = "open" => cmd'[r].user \in Users)
      BY <1>3, <2>1 DEF IssueCommand, TypeOK, Cmd, CmdPhases
    <2>3. \A q \in Reqs : q # r => cmd'[q] = cmd[q]
      BY <1>3 DEF IssueCommand, TypeOK
    <2>4. cmd' \in [Reqs -> Cmd]
      BY <1>3, <2>2, <2>3 DEF IssueCommand, TypeOK
    <2> QED
      BY <1>3, <2>2, <2>3, <2>4 DEF IssueCommand, TypeOK, registry, caches, handlers
  <1>4. ASSUME NEW r \in Reqs, CommandSent(r) \/ CommandAnswered(r) \/ CommandTimeout(r)
        PROVE  TypeOK'
    <2>1. cmd[r] \in Cmd
      BY DEF TypeOK
    <2>2. cmd'[r] \in Cmd /\ cmd'[r].user = cmd[r].user
          /\ (cmd'[r].fut = "open" => cmd[r].fut = "open")
      <3>1. CASE CommandSent(r)
        <4>1. cmd'[r] = [cmd[r] EXCEPT !.phase = "waiting"]
          BY <3>1 DEF CommandSent, TypeOK
        <4> QED BY <2>1, <4>1 DEF Cmd, CmdPhases
      <3>2. CASE CommandAnswered(r)
        <4>1. \E p \in {"ok", "disconnected"} : cmd'[r] = [cmd[r] EXCEPT !.phase = p]
          BY <3>2 DEF CommandAnswered, TypeOK
        <4> QED BY <2>1, <4>1 DEF Cmd, CmdPhases
      <3>3. CASE CommandTimeout(r)
        <4>1. cmd'[r] = [cmd[r] EXCEPT !.phase = "timeout", !.fut = "cancelled"]
          BY <3>3 DEF CommandTimeout, TypeOK
        <4> QED BY <2>1, <4>1 DEF Cmd, CmdPhases
      <3> QED BY <1>4, <3>1, <3>2, <3>3
    <2>3. \A q \in Reqs : q # r => cmd'[q] = cmd[q]
      BY <1>4 DEF CommandSent, CommandAnswered, CommandTimeout, TypeOK
    <2>4. cmd' \in [Reqs -> Cmd]
      BY <1>4, <2>2, <2>3 DEF CommandSent, CommandAnswered, CommandTimeout, TypeOK
    <2> QED
      BY <1>4, <2>2, <2>3, <2>4
      DEF CommandSent, CommandAnswered, CommandTimeout, TypeOK, registry, caches, handlers
  <1>5. ASSUME NEW r \in Reqs, CommandSendFails(r) PROVE TypeOK'
    <2> DEFINE tgt == cmd[r].target
    <2>1. tgt \in Sockets \cup {None} /\ cmd[r] \in Cmd
      BY DEF TypeOK, Cmd
    <2>2. /\ DropTables(tgt) /\ UnregisterTables(tgt)
          /\ cmd' = [Cancelled(tgt) EXCEPT
                       ![r].phase = "failed",
                       ![r].fut = IF cmd[r].fut = "open" THEN "cancelled" ELSE @]
      BY <1>5 DEF CommandSendFails, UnregisterTables
    <2>3. UNCHANGED <<handlers, httpBinds>>
      BY <1>5 DEF CommandSendFails
    <2> HIDE DEF tgt
    <2>4. Cancelled(tgt) \in [Reqs -> Cmd]
          /\ \A q \in Reqs : Cancelled(tgt)[q].fut = "open" => cmd[q].fut = "open"
                             /\ Cancelled(tgt)[q].user = cmd[q].user
      BY <2>1, CancelledTypes
    <2>5. /\ cmd'[r] = [Cancelled(tgt)[r] EXCEPT !.phase = "failed",
                          !.fut = IF cmd[r].fut = "open" THEN "cancelled" ELSE @]
          /\ \A q \in Reqs : q # r => cmd'[q] = Cancelled(tgt)[q]
      BY <2>2, <2>4
    <2>6. cmd'[r] \in Cmd /\ cmd'[r].fut # "open"
      BY <2>4, <2>5 DEF Cmd, CmdPhases
    <2>7. /\ cmd' \in [Reqs -> Cmd]
          /\ \A q \in Reqs : cmd'[q].fut = "open" => cmd'[q].user \in Users
      BY <2>2, <2>4, <2>5, <2>6 DEF TypeOK
    <2> QED
      BY <2>1, <2>2, <2>3, <2>7, DropTablesTypes, UnregisterTypes DEF TypeOK, handlers
  <1> QED
    BY <1>1, <1>2, <1>3, <1>4, <1>5 DEF Http

LEMMA NextTypeOK == TypeOK /\ [Next]_vars => TypeOK'
  <1> SUFFICES ASSUME TypeOK, [Next]_vars PROVE TypeOK'
    OBVIOUS
  <1>1. ASSUME NEW w \in Sockets, GoStale(w) PROVE TypeOK'
    BY <1>1 DEF GoStale, TypeOK, registry, handlers
  <1> QED
    BY <1>1, HandlerTypeOK, HttpTypeOK, StutterTypeOK DEF Next, Environment

\* Every table maps what its name says, in every reachable state: in particular
\* a handler past attach_session has a session and a handler that binds a user.
THEOREM TypeCorrect == Spec => []TypeOK
  BY InitTypeOK, NextTypeOK, PTL DEF Spec

-------------------------------------------------------------------------------
(* The registry's tables agree.  Dropping a socket forgets it everywhere: the  *)
(* "is ws" tests of _drop_ws_locked are right because the tables agree before. *)

Forgets(w) ==
    /\ \A d \in Users : ByUserWithout(w)[d] = IF byUser[d] = w THEN None ELSE byUser[d]
    /\ \A s \in Sessions : WaitingWithout(w)[s] = IF waiting[s] = w THEN None ELSE waiting[s]
    /\ \A s \in Sessions : ActiveWithout(w)[s] = IF active[s] = w THEN None ELSE active[s]
    /\ \A x \in Sockets : /\ Cleared(wsUser, w)[x] = IF x = w THEN None ELSE wsUser[x]
                          /\ Cleared(wsSession, w)[x] = IF x = w THEN None ELSE wsSession[x]
                          /\ Cleared(wsWaiting, w)[x] = IF x = w THEN None ELSE wsWaiting[x]

LEMMA DropForgets ==
    ASSUME TypeOK, UserTables, SessionTables, NEW w \in Sockets \cup {None}
    PROVE  Forgets(w)
  <1>1. \A d \in Users : ByUserWithout(w)[d] = IF byUser[d] = w THEN None ELSE byUser[d]
    BY NoneIsNew DEF TypeOK, UserTables, ByUserWithout, UserOf
  <1>2. \A s \in Sessions : WaitingWithout(w)[s] = IF waiting[s] = w THEN None ELSE waiting[s]
    BY NoneIsNew DEF TypeOK, SessionTables, WaitingWithout, WaitsFor
  <1> QED
    BY <1>1, <1>2 DEF Forgets, ActiveWithout, Cleared

\* A step that only forgets a socket keeps the tables in agreement.
LEMMA DropKeepsTables ==
    ASSUME TypeOK, UserTables, SessionTables, NEW w \in Sockets \cup {None},
           byUser' = ByUserWithout(w), waiting' = WaitingWithout(w), active' = ActiveWithout(w),
           wsUser' = Cleared(wsUser, w), wsSession' = Cleared(wsSession, w),
           wsWaiting' = Cleared(wsWaiting, w)
    PROVE  UserTables' /\ SessionTables'
  <1>1. Forgets(w)
    BY DropForgets
  <1>2. UserTables'
    BY <1>1, NoneIsNew DEF Forgets, TypeOK, UserTables
  <1>3. \A s \in Sessions : active'[s] # None => wsSession'[active'[s]] = s
    BY <1>1, NoneIsNew DEF Forgets, TypeOK, SessionTables
  <1>4. \A x \in Sockets : wsSession'[x] # None => active'[wsSession'[x]] = x
    BY <1>1, NoneIsNew DEF Forgets, TypeOK, SessionTables
  <1>5. \A s \in Sessions : waiting'[s] # None => wsWaiting'[waiting'[s]] = s
    BY <1>1, NoneIsNew DEF Forgets, TypeOK, SessionTables
  <1>6. \A x \in Sockets : wsWaiting'[x] # None =>
          waiting'[wsWaiting'[x]] = x /\ wsSession'[x] = wsWaiting'[x] /\ wsUser'[x] = None
    BY <1>1, NoneIsNew DEF Forgets, TypeOK, SessionTables
  <1>7. \A x \in Sockets : wsUser'[x] # None => wsSession'[x] # None
    BY <1>1, NoneIsNew DEF Forgets, TypeOK, SessionTables
  <1> QED
    BY <1>2, <1>3, <1>4, <1>5, <1>6, <1>7 DEF SessionTables

LEMMA AttachKeepsTables ==
    ASSUME TypeOK, RegistryInv, NEW w \in Sockets, NEW s \in Sessions, Attach(w, s)
    PROVE  UserTables' /\ SessionTables'
  <1> DEFINE old == IF active[s] = w THEN None ELSE active[s]
  <1>1. old \in Sockets \cup {None} /\ pc[w] = "free"
    BY DEF TypeOK, Attach
  <1>2. wsUser[w] = None /\ wsSession[w] = None /\ wsWaiting[w] = None
    BY <1>1 DEF RegistryInv, FreeIds
  <1>3. old = active[s] /\ old # w
    BY <1>1, <1>2, NoneIsNew DEF RegistryInv, SessionTables, TypeOK
  <1>4. /\ active' = [ActiveWithout(old) EXCEPT ![s] = w]
        /\ waiting' = [WaitingWithout(old) EXCEPT ![s] = w]
        /\ byUser' = ByUserWithout(old)
        /\ wsUser' = Cleared(wsUser, old)
        /\ wsSession' = [Cleared(wsSession, old) EXCEPT ![w] = s]
        /\ wsWaiting' = [Cleared(wsWaiting, old) EXCEPT ![w] = s]
    BY DEF Attach
  <1> HIDE DEF old
  <1>5. Forgets(old)
    BY <1>1, DropForgets DEF RegistryInv
  <1>6. /\ \A q \in Sessions : active'[q] = IF q = s THEN w ELSE IF active[q] = old THEN None ELSE active[q]
        /\ \A q \in Sessions : waiting'[q] = IF q = s THEN w ELSE IF waiting[q] = old THEN None ELSE waiting[q]
        /\ \A d \in Users : byUser'[d] = IF byUser[d] = old THEN None ELSE byUser[d]
        /\ \A x \in Sockets : /\ wsUser'[x] = IF x = old THEN None ELSE wsUser[x]
                              /\ wsSession'[x] = IF x = w THEN s ELSE IF x = old THEN None ELSE wsSession[x]
                              /\ wsWaiting'[x] = IF x = w THEN s ELSE IF x = old THEN None ELSE wsWaiting[x]
    BY <1>1, <1>4, <1>5, DropTypes DEF Forgets
  <1>7. UserTables'
    BY <1>1, <1>6, NoneIsNew DEF TypeOK, RegistryInv, UserTables
  <1>8. \A q \in Sessions : active'[q] # None => wsSession'[active'[q]] = q
    BY <1>2, <1>3, <1>6, NoneIsNew DEF TypeOK, RegistryInv, SessionTables
  <1>9. \A x \in Sockets : wsSession'[x] # None => active'[wsSession'[x]] = x
    BY <1>2, <1>3, <1>6, NoneIsNew DEF TypeOK, RegistryInv, SessionTables
  <1>10. \A q \in Sessions : waiting'[q] # None => wsWaiting'[waiting'[q]] = q
    BY <1>2, <1>3, <1>6, NoneIsNew DEF TypeOK, RegistryInv, SessionTables
  <1>11. \A x \in Sockets : wsWaiting'[x] # None =>
           waiting'[wsWaiting'[x]] = x /\ wsSession'[x] = wsWaiting'[x] /\ wsUser'[x] = None
    BY <1>2, <1>3, <1>6, NoneIsNew DEF TypeOK, RegistryInv, SessionTables
  <1>12. \A x \in Sockets : wsUser'[x] # None => wsSession'[x] # None
    BY <1>2, <1>3, <1>6, NoneIsNew DEF TypeOK, RegistryInv, SessionTables
  <1> QED
    BY <1>7, <1>8, <1>9, <1>10, <1>11, <1>12 DEF SessionTables

LEMMA BindKeepsTables ==
    ASSUME TypeOK, RegistryInv,
           NEW s \in Sessions, NEW d \in Users, NEW t \in BOOLEAN, BindDiscord(s, d, t)
    PROVE  UserTables' /\ SessionTables'
  <1> DEFINE ws == waiting[s]
  <1>0. ws \in Sockets \cup {None}
    BY DEF TypeOK
  <1>1. CASE ws = None
    BY <1>1 DEF BindDiscord, RegistryInv, UserTables, SessionTables, registry
  <1>2. CASE ws # None /\ KeepsOther(ws, s, d, t)
    <2>1. RejectBind(ws, s) /\ ws \in Sockets
      BY <1>0, <1>2 DEF BindDiscord
    <2>2. WaitingWithout(ws) = [waiting EXCEPT ![s] = None]
      BY <1>2, <2>1 DEF WaitingWithout, WaitsFor, TypeOK, RegistryInv, SessionTables
    <2> HIDE DEF ws
    <2> QED
      BY <2>1, <2>2, DropKeepsTables DEF RejectBind, RegistryInv
  <1>3. CASE ws # None /\ ~KeepsOther(ws, s, d, t)
    <2> DEFINE prev == IF byUser[d] = ws THEN None ELSE byUser[d]
    <2>1. AcceptBind(ws, s, d) /\ ws \in Sockets /\ prev \in Sockets \cup {None}
      BY <1>0, <1>3 DEF BindDiscord, TypeOK
    <2>2. /\ wsWaiting[ws] = s /\ wsUser[ws] = None /\ wsSession[ws] = s /\ active[s] = ws
          /\ waiting[s] = ws
      BY <1>3, <2>1, NoneIsNew DEF TypeOK, RegistryInv, SessionTables
    <2>3. prev = byUser[d] /\ prev # ws
      BY <2>1, <2>2, NoneIsNew DEF TypeOK, RegistryInv, UserTables
    <2>4. /\ active' = ActiveWithout(prev)
          /\ waiting' = [WaitingWithout(prev) EXCEPT ![s] = None]
          /\ byUser' = [ByUserWithout(prev) EXCEPT ![d] = ws]
          /\ wsUser' = [Cleared(wsUser, prev) EXCEPT ![ws] = d]
          /\ wsSession' = Cleared(wsSession, prev)
          /\ wsWaiting' = [Cleared(wsWaiting, prev) EXCEPT ![ws] = None]
      BY <2>1 DEF AcceptBind
    <2> HIDE DEF ws, prev
    <2>5. Forgets(prev)
      BY <2>1, DropForgets DEF RegistryInv
    <2>6. /\ \A q \in Sessions :
               /\ active'[q] = IF active[q] = prev THEN None ELSE active[q]
               /\ waiting'[q] = IF q = s \/ waiting[q] = prev THEN None ELSE waiting[q]
          /\ \A e \in Users : byUser'[e] = IF e = d THEN ws ELSE IF byUser[e] = prev THEN None ELSE byUser[e]
          /\ \A x \in Sockets :
               /\ wsUser'[x] = IF x = ws THEN d ELSE IF x = prev THEN None ELSE wsUser[x]
               /\ wsSession'[x] = IF x = prev THEN None ELSE wsSession[x]
               /\ wsWaiting'[x] = IF x = ws \/ x = prev THEN None ELSE wsWaiting[x]
      BY <2>1, <2>4, <2>5, DropTypes DEF Forgets
    <2>7. UserTables'
      <3>1. ASSUME NEW e \in Users, byUser'[e] # None PROVE wsUser'[byUser'[e]] = e
        <4>1. CASE e = d
          BY <2>1, <2>6, <4>1
        <4>2. CASE e # d
          <5>1. byUser'[e] = byUser[e] /\ byUser[e] # prev /\ byUser[e] \in Sockets
            BY <2>6, <3>1, <4>2 DEF TypeOK
          <5>2. wsUser[byUser[e]] = e /\ byUser[e] # ws
            BY <2>2, <5>1, NoneIsNew DEF RegistryInv, UserTables
          <5> QED BY <2>6, <5>1, <5>2
        <4> QED BY <4>1, <4>2
      <3>2. ASSUME NEW x \in Sockets, wsUser'[x] # None PROVE byUser'[wsUser'[x]] = x
        <4>1. CASE x = ws
          BY <2>6, <4>1
        <4>2. CASE x # ws
          <5>1. wsUser'[x] = wsUser[x] /\ x # prev /\ wsUser[x] \in Users
            BY <2>6, <3>2, <4>2 DEF TypeOK
          <5>2. byUser[wsUser[x]] = x /\ wsUser[x] # d
            BY <2>3, <5>1, NoneIsNew DEF RegistryInv, UserTables
          <5> QED BY <2>6, <5>1, <5>2
        <4> QED BY <4>1, <4>2
      <3> QED BY <3>1, <3>2 DEF UserTables
    <2>8. \A q \in Sessions : active'[q] # None => wsSession'[active'[q]] = q
      BY <2>2, <2>3, <2>6, NoneIsNew DEF TypeOK, RegistryInv, SessionTables
    <2>9. \A x \in Sockets : wsSession'[x] # None => active'[wsSession'[x]] = x
      BY <2>2, <2>3, <2>6, NoneIsNew DEF TypeOK, RegistryInv, SessionTables
    <2>10. \A q \in Sessions : waiting'[q] # None => wsWaiting'[waiting'[q]] = q
      BY <2>2, <2>3, <2>6, NoneIsNew DEF TypeOK, RegistryInv, SessionTables
    <2>11. \A x \in Sockets : wsWaiting'[x] # None =>
             waiting'[wsWaiting'[x]] = x /\ wsSession'[x] = wsWaiting'[x] /\ wsUser'[x] = None
      BY <2>2, <2>3, <2>6, NoneIsNew DEF TypeOK, RegistryInv, SessionTables
    <2>12. \A x \in Sockets : wsUser'[x] # None => wsSession'[x] # None
      BY <2>2, <2>3, <2>6, NoneIsNew DEF TypeOK, RegistryInv, SessionTables
    <2> QED
      BY <2>7, <2>8, <2>9, <2>10, <2>11, <2>12 DEF SessionTables
  <1> QED
    BY <1>1, <1>2, <1>3

\* The sockets the registry knows.
Known == {w \in Sockets : wsUser[w] # None \/ wsSession[w] # None \/ wsWaiting[w] # None}

\* Neither a drop nor a bind makes the registry know a socket it did not know.
LEMMA BindKeepsKnown ==
    ASSUME TypeOK, RegistryInv,
           NEW s \in Sessions, NEW d \in Users, NEW t \in BOOLEAN, BindDiscord(s, d, t)
    PROVE  Known' \subseteq Known
  <1> DEFINE ws == waiting[s]
  <1>1. CASE ws = None
    BY <1>1 DEF BindDiscord, Known, registry
  <1>2. CASE ws # None
    <2>1. ws \in Sockets /\ wsWaiting[ws] # None
      BY <1>2, NoneIsNew DEF TypeOK, RegistryInv, SessionTables
    <2>2. RejectBind(ws, s) \/ AcceptBind(ws, s, d)
      BY <1>2 DEF BindDiscord
    <2> HIDE DEF ws
    <2>3. CASE RejectBind(ws, s)
      BY <2>1, <2>3 DEF RejectBind, Known, Cleared
    <2>4. CASE AcceptBind(ws, s, d)
      <3> DEFINE prev == IF byUser[d] = ws THEN None ELSE byUser[d]
      <3>1. /\ wsUser' = [Cleared(wsUser, prev) EXCEPT ![ws] = d]
            /\ wsSession' = Cleared(wsSession, prev)
            /\ wsWaiting' = [Cleared(wsWaiting, prev) EXCEPT ![ws] = None]
        BY <2>4 DEF AcceptBind
      <3> QED
        BY <2>1, <3>1 DEF Known, Cleared
    <2> QED
      BY <2>2, <2>3, <2>4
  <1> QED
    BY <1>1, <1>2

LEMMA FreeIdsKnown == FreeIds <=> \A w \in Known : pc[w] # "free"
  BY DEF FreeIds, Known

\* A step that leaves the registry alone and ends no connection.
QuietStep == UNCHANGED registry /\ \A w \in Sockets : pc'[w] = "free" => pc[w] = "free"

LEMMA QuietKeepsRegistry == ASSUME RegistryInv, QuietStep PROVE RegistryInv'
  <1>1. UserTables' /\ SessionTables'
    BY DEF QuietStep, RegistryInv, UserTables, SessionTables, registry
  <1>2. FreeIds'
    BY DEF QuietStep, RegistryInv, FreeIds, registry
  <1> QED
    BY <1>1, <1>2 DEF RegistryInv

\* Every handler action but these four is quiet.
LEMMA HandlerQuiet ==
    ASSUME TypeOK, NEW w \in Sockets, Handler(w),
           ~ \E s \in Sessions : Attach(w, s), ~HandlerBind(w), ~HandlerEnd(w), ~Collect(w)
    PROVE  QuietStep
  <1>1. CASE SetupChallenge(w) \/ SetupNoChallenge(w) \/ SetupBind(w) \/ SetupEnd(w) \/ HandlerBindFails(w)
    BY <1>1 DEF SetupChallenge, SetupNoChallenge, SetupBind, SetupEnd, HandlerBindFails, TypeOK,
       QuietStep
  <1>2. CASE Ping(w) \/ Hello(w) \/ DeviceProof(w) \/ OAuthLink(w) \/ Update(w)
    BY <1>2 DEF Ping, Hello, DeviceProof, OAuthLink, Update, TypeOK, QuietStep, handlers
  <1>3. CASE \E r \in Reqs : CommandResult(w, r)
    BY <1>3 DEF CommandResult, QuietStep, handlers
  <1> QED
    BY <1>1, <1>2, <1>3 DEF Handler

LEMMA HandlerRegistry ==
    ASSUME TypeOK, RegistryInv, NEW w \in Sockets, Handler(w) PROVE RegistryInv'
  <1>1. ASSUME NEW s \in Sessions, Attach(w, s) PROVE RegistryInv'
    <2>1. UserTables' /\ SessionTables'
      BY <1>1, AttachKeepsTables
    <2>2. Known' \subseteq Known \cup {w} /\ pc' = [pc EXCEPT ![w] = "attached"]
      <3> DEFINE old == IF active[s] = w THEN None ELSE active[s]
      <3>1. /\ wsUser' = Cleared(wsUser, old)
            /\ wsSession' = [Cleared(wsSession, old) EXCEPT ![w] = s]
            /\ wsWaiting' = [Cleared(wsWaiting, old) EXCEPT ![w] = s]
            /\ pc' = [pc EXCEPT ![w] = "attached"]
        BY <1>1 DEF Attach
      <3> QED
        BY <3>1 DEF Known, Cleared
    <2>3. FreeIds'
      BY <2>2 DEF RegistryInv, FreeIds, Known, TypeOK
    <2> QED
      BY <2>1, <2>3 DEF RegistryInv
  <1>2. CASE HandlerBind(w)
    <2>1. local[w] \in Sessions /\ bind[w].user \in Users /\ bind[w].takeover \in BOOLEAN
      BY <1>2 DEF HandlerBind, TypeOK
    <2>2. BindDiscord(local[w], bind[w].user, bind[w].takeover)
      BY <1>2 DEF HandlerBind
    <2>3. UserTables' /\ SessionTables' /\ Known' \subseteq Known
      BY <2>1, <2>2, BindKeepsTables, BindKeepsKnown
    <2>4. \A x \in Sockets : pc'[x] = "free" => pc[x] = "free"
      BY <1>2 DEF HandlerBind, TypeOK
    <2>5. FreeIds'
      BY <2>3, <2>4 DEF RegistryInv, FreeIds, Known
    <2> QED
      BY <2>3, <2>5 DEF RegistryInv
  <1>3. CASE HandlerEnd(w)
    <2>1. DropTables(w) /\ pc' = [pc EXCEPT ![w] = "free"]
      BY <1>3 DEF HandlerEnd, UnregisterTables
    <2>2. UserTables' /\ SessionTables'
      BY <2>1, DropKeepsTables DEF DropTables, RegistryInv
    <2>3. Known' \subseteq Known \ {w}
      BY <2>1 DEF DropTables, Known, Cleared
    <2>4. FreeIds'
      BY <2>1, <2>3 DEF RegistryInv, FreeIds, Known, TypeOK
    <2> QED
      BY <2>2, <2>4 DEF RegistryInv
  <1>4. CASE Collect(w)
    <2>1. w \notin Known
      BY <1>4 DEF Collect, Referenced, Known, TypeOK, RegistryInv, UserTables, SessionTables
    <2>2. UNCHANGED registry /\ pc' = [pc EXCEPT ![w] = "free"]
      BY <1>4 DEF Collect
    <2>3. UserTables' /\ SessionTables'
      BY <2>2 DEF RegistryInv, UserTables, SessionTables, registry
    <2>4. FreeIds'
      BY <2>1, <2>2 DEF RegistryInv, FreeIds, Known, TypeOK, registry
    <2> QED
      BY <2>3, <2>4 DEF RegistryInv
  <1> QED
    BY <1>1, <1>2, <1>3, <1>4, HandlerQuiet, QuietKeepsRegistry

LEMMA HttpRegistry == ASSUME TypeOK, RegistryInv, Http PROVE RegistryInv'
  <1>1. ASSUME NEW b \in httpBinds, HttpBindEnd(b) PROVE RegistryInv'
    <2>1. b.session \in Sessions /\ b.user \in Users /\ b.takeover \in BOOLEAN
      BY DEF TypeOK, HttpBind
    <2>2. CASE BindDiscord(b.session, b.user, b.takeover)
      <3>1. UserTables' /\ SessionTables' /\ Known' \subseteq Known
        BY <2>1, <2>2, BindKeepsTables, BindKeepsKnown
      <3>2. FreeIds'
        BY <1>1, <3>1 DEF HttpBindEnd, handlers, RegistryInv, FreeIds, Known
      <3> QED
        BY <3>1, <3>2 DEF RegistryInv
    <2>3. CASE UNCHANGED <<registry, caches, cmd>>
      BY <1>1, <2>3, QuietKeepsRegistry DEF HttpBindEnd, handlers, QuietStep
    <2> QED
      BY <1>1, <2>2, <2>3 DEF HttpBindEnd
  <1>2. ASSUME NEW r \in Reqs, CommandSendFails(r) PROVE RegistryInv'
    <2> DEFINE tgt == cmd[r].target
    <2>1. tgt \in Sockets \cup {None}
      BY DEF TypeOK, Cmd
    <2>2. DropTables(tgt) /\ pc' = pc
      BY <1>2 DEF CommandSendFails, UnregisterTables, handlers
    <2> HIDE DEF tgt
    <2>3. UserTables' /\ SessionTables'
      BY <2>1, <2>2, DropKeepsTables DEF DropTables, RegistryInv
    <2>4. Known' \subseteq Known
      BY <2>2 DEF DropTables, Known, Cleared
    <2>5. FreeIds'
      BY <2>2, <2>4 DEF RegistryInv, FreeIds, Known
    <2> QED
      BY <2>3, <2>5 DEF RegistryInv
  <1>3. CASE QuietStep
    BY <1>3, QuietKeepsRegistry
  <1>4. ASSUME NEW r \in Reqs, NEW d \in Users, IssueCommand(r, d) PROVE QuietStep
    BY <1>4 DEF IssueCommand, QuietStep, handlers
  <1>5. ASSUME NEW r \in Reqs, CommandSent(r) \/ CommandAnswered(r) \/ CommandTimeout(r)
        PROVE  QuietStep
    BY <1>5 DEF CommandSent, CommandAnswered, CommandTimeout, QuietStep, handlers
  <1>6. ASSUME NEW s \in Sessions, NEW d \in Users, NEW t \in BOOLEAN, HttpBindStart(s, d, t)
        PROVE  QuietStep
    BY <1>6 DEF HttpBindStart, QuietStep, handlers
  <1> QED
    BY <1>1, <1>2, <1>3, <1>4, <1>5, <1>6 DEF Http

LEMMA NextRegistry == TypeOK /\ RegistryInv /\ [Next]_vars => RegistryInv'
  <1> SUFFICES ASSUME TypeOK, RegistryInv, [Next]_vars PROVE RegistryInv'
    OBVIOUS
  <1>1. ASSUME NEW w \in Sockets, GoStale(w) PROVE QuietStep
    BY <1>1 DEF GoStale, QuietStep, handlers
  <1>2. CASE UNCHANGED vars
    BY <1>2, QuietKeepsRegistry DEF QuietStep, vars, handlers
  <1> QED
    BY <1>1, <1>2, HandlerRegistry, HttpRegistry, QuietKeepsRegistry DEF Next, Environment

\* The tables of ConnectionManager agree with each other in every reachable
\* state, for any number of sockets, sessions, users and requests.
THEOREM RegistryConsistent == Spec => []RegistryInv
  <1>1. Init => RegistryInv
    BY NoneIsNew DEF Init, RegistryInv, UserTables, SessionTables, FreeIds
  <1> QED
    BY <1>1, TypeCorrect, NextRegistry, PTL DEF Spec

-------------------------------------------------------------------------------
(* Caches, commands and the reported status follow the routes.  The induction  *)
(* needs LoopInfo, which implies InfoNotInherited: only a handler in its loop  *)
(* stores a hello.                                                             *)

LoopInfo == \A w \in pendingInfo : pc[w] \in {"loop", "loopBind"}

Linked == CacheOwned /\ WaiterHasTarget /\ ResultFromTarget /\ OfflineMeansGone /\ LoopInfo

\* After the drop of w its user has no route and every other user keeps its own.
LEMMA DropRoutes ==
    ASSUME TypeOK, RegistryInv, NEW w \in Sockets \cup {None}, NEW d \in Users
    PROVE  ByUserWithout(w)[d] = IF d = UserOf(w) THEN None ELSE byUser[d]
  BY NoneIsNew DEF ByUserWithout, UserOf, TypeOK, RegistryInv, UserTables

LEMMA DropKeepsCaches ==
    ASSUME TypeOK, RegistryInv, CacheOwned, NEW w \in Sockets \cup {None},
           byUser' = ByUserWithout(w), agentInfo' = CacheWithout(agentInfo, w),
           snapshot' = CacheWithout(snapshot, w)
    PROVE  CacheOwned'
  BY DropRoutes DEF CacheOwned, CacheWithout

\* What holds of the commands once the socket w has been dropped and the
\* commands of its user have been cancelled.
LEMMA DropKeepsWaiters ==
    ASSUME TypeOK, RegistryInv, WaiterHasTarget, ResultFromTarget, NEW w \in Sockets \cup {None},
           NEW r \in Reqs
    PROVE  /\ Cancelled(w)[r].fut = "open" =>
                 /\ Cancelled(w)[r].target # None
                 /\ Cancelled(w)[r].user \in Users \ {UserOf(w)}
                 /\ ByUserWithout(w)[Cancelled(w)[r].user] = Cancelled(w)[r].target
           /\ Cancelled(w)[r].fut = "result" => Cancelled(w)[r].by = Cancelled(w)[r].target
  <1>1. /\ Cancelled(w)[r].user = cmd[r].user
        /\ Cancelled(w)[r].target = cmd[r].target
        /\ Cancelled(w)[r].by = cmd[r].by
        /\ Cancelled(w)[r].fut = "open" <=> cmd[r].fut = "open" /\ cmd[r].user # UserOf(w)
        /\ Cancelled(w)[r].fut = "result" <=> cmd[r].fut = "result"
    BY CancelledTypes
  <1>2. cmd[r].fut = "open" => cmd[r].user \in Users
    BY DEF TypeOK
  <1>3. cmd[r].fut = "open" /\ cmd[r].user # UserOf(w) =>
           ByUserWithout(w)[cmd[r].user] = byUser[cmd[r].user]
    BY <1>2, DropRoutes
  <1> QED
    BY <1>1, <1>2, <1>3 DEF WaiterHasTarget, ResultFromTarget

LEMMA DropKeepsStatus ==
    ASSUME TypeOK, RegistryInv, OfflineMeansGone, NEW w \in Sockets \cup {None},
           byUser' = ByUserWithout(w),
           \/ status' = status
           \/ status' = [d \in Users |-> IF d = UserOf(w) /\ byUser[d] = w THEN "offline" ELSE status[d]]
    PROVE  OfflineMeansGone'
  BY DropRoutes DEF OfflineMeansGone

LEMMA AttachLinked ==
    ASSUME TypeOK, RegistryInv, Linked, NEW w \in Sockets, NEW s \in Sessions, Attach(w, s)
    PROVE  Linked'
  <1> DEFINE old == IF active[s] = w THEN None ELSE active[s]
  <1>1. old \in Sockets \cup {None}
    BY DEF TypeOK
  <1>2. /\ byUser' = ByUserWithout(old) /\ cmd' = Cancelled(old) /\ status' = status
        /\ agentInfo' = CacheWithout(agentInfo, old) /\ snapshot' = CacheWithout(snapshot, old)
        /\ pendingInfo' \subseteq pendingInfo /\ pc' = [pc EXCEPT ![w] = "attached"]
        /\ pc[w] = "free"
    BY DEF Attach
  <1> HIDE DEF old
  <1>3. CacheOwned' /\ OfflineMeansGone'
    BY <1>1, <1>2, DropKeepsCaches, DropKeepsStatus DEF Linked
  <1>4. WaiterHasTarget' /\ ResultFromTarget'
    BY <1>1, <1>2, DropKeepsWaiters DEF Linked, WaiterHasTarget, ResultFromTarget
  <1>5. LoopInfo'
    BY <1>2 DEF Linked, LoopInfo, TypeOK
  <1> QED
    BY <1>3, <1>4, <1>5 DEF Linked

\* A bind, whoever made it: LoopInfo is about the handlers and is left out.
LEMMA BindLinked ==
    ASSUME TypeOK, RegistryInv, Linked,
           NEW s \in Sessions, NEW d \in Users, NEW t \in BOOLEAN, BindDiscord(s, d, t)
    PROVE  /\ CacheOwned' /\ WaiterHasTarget' /\ ResultFromTarget' /\ OfflineMeansGone'
           /\ pendingInfo' \subseteq pendingInfo
  <1> DEFINE ws == waiting[s]
  <1>0. ws \in Sockets \cup {None}
    BY DEF TypeOK
  <1>1. CASE ws = None
    BY <1>1 DEF BindDiscord, registry, caches, Linked, CacheOwned, WaiterHasTarget,
       ResultFromTarget, OfflineMeansGone
  <1>2. CASE ws # None /\ KeepsOther(ws, s, d, t)
    <2>1. RejectBind(ws, s)
      BY <1>2 DEF BindDiscord
    <2> HIDE DEF ws
    <2>2. CacheOwned' /\ OfflineMeansGone'
      BY <1>0, <2>1, DropKeepsCaches, DropKeepsStatus DEF RejectBind, Linked
    <2>3. WaiterHasTarget' /\ ResultFromTarget'
      BY <1>0, <2>1, DropKeepsWaiters DEF RejectBind, Linked, WaiterHasTarget, ResultFromTarget
    <2> QED
      BY <2>1, <2>2, <2>3 DEF RejectBind
  <1>3. CASE ws # None /\ ~KeepsOther(ws, s, d, t)
    <2> DEFINE prev == IF byUser[d] = ws THEN None ELSE byUser[d]
    <2>1. AcceptBind(ws, s, d) /\ ws \in Sockets /\ prev \in Sockets \cup {None}
      BY <1>0, <1>3 DEF BindDiscord, TypeOK
    <2>2. wsUser[ws] = None
      BY <1>3, <2>1, NoneIsNew DEF TypeOK, RegistryInv, SessionTables
    <2>3. prev = byUser[d]
      BY <2>1, <2>2, NoneIsNew DEF TypeOK, RegistryInv, UserTables
    <2>4. /\ byUser' = [ByUserWithout(prev) EXCEPT ![d] = ws]
          /\ snapshot' = CacheWithout(snapshot, prev)
          /\ status' = [status EXCEPT ![d] = "online"]
          /\ cmd' = Cancelled(prev)
          /\ agentInfo' \in {CacheWithout(agentInfo, prev),
                             [CacheWithout(agentInfo, prev) EXCEPT ![d] = ws]}
          /\ pendingInfo' \subseteq pendingInfo
      BY <2>1 DEF AcceptBind, ConnectedStatus
    <2> HIDE DEF ws, prev
    <2>5. prev # None => UserOf(prev) = d
      BY <2>1, <2>3, NoneIsNew DEF UserOf, RegistryInv, UserTables
    <2>6. \A e \in Users : e # d => ByUserWithout(prev)[e] = byUser[e]
      BY <2>1, <2>3, <2>5, DropRoutes, NoneIsNew DEF UserOf, TypeOK
    <2>7. /\ byUser'[d] = ws
          /\ \A e \in Users : e # d => byUser'[e] = byUser[e]
      BY <2>1, <2>4, <2>6, DropTypes
    <2>8. CacheWithout(agentInfo, prev)[d] = None /\ CacheWithout(snapshot, prev)[d] = None
      BY <2>1, <2>3, <2>5, NoneIsNew DEF CacheWithout, UserOf, Linked, CacheOwned
    <2>9. \A e \in Users : e # d => CacheWithout(agentInfo, prev)[e] \in {None, agentInfo[e]}
                                  /\ CacheWithout(snapshot, prev)[e] \in {None, snapshot[e]}
      BY DEF CacheWithout
    <2>10. CacheOwned'
      <3>1. agentInfo'[d] \in {None, ws} /\ snapshot'[d] = None
        BY <2>1, <2>4, <2>8, DropTypes
      <3>2. \A e \in Users : e # d => agentInfo'[e] \in {None, agentInfo[e]}
                                    /\ snapshot'[e] \in {None, snapshot[e]}
        BY <2>1, <2>4, <2>9, DropTypes
      <3> QED
        BY <2>7, <3>1, <3>2 DEF Linked, CacheOwned
    <2>11. OfflineMeansGone'
      BY <2>4, <2>7 DEF Linked, OfflineMeansGone, TypeOK
    <2>12. ASSUME NEW r \in Reqs, cmd'[r].fut = "open"
           PROVE  cmd'[r].target # None /\ byUser'[cmd'[r].user] = cmd'[r].target
      <3>1. /\ cmd'[r].target # None
            /\ cmd'[r].user \in Users \ {UserOf(prev)}
            /\ ByUserWithout(prev)[cmd'[r].user] = cmd'[r].target
        BY <2>1, <2>4, <2>12, DropKeepsWaiters DEF Linked
      <3>2. cmd'[r].user # d
        BY <2>1, <2>3, <2>5, <2>6, <3>1, DropRoutes DEF UserOf
      <3> QED
        BY <2>6, <2>7, <3>1, <3>2
    <2>13. ResultFromTarget'
      BY <2>1, <2>4, DropKeepsWaiters DEF Linked, ResultFromTarget
    <2> QED
      BY <2>4, <2>10, <2>11, <2>12, <2>13 DEF WaiterHasTarget
  <1> QED
    BY <1>1, <1>2, <1>3

\* unregister_ws, from the handler's finally clause or after a failed send.
LEMMA UnregisterLinked ==
    ASSUME TypeOK, RegistryInv, Linked, NEW w \in Sockets \cup {None}, UnregisterTables(w)
    PROVE  CacheOwned' /\ OfflineMeansGone' /\ pendingInfo' = pendingInfo \ {w}
  BY DropKeepsCaches, DropKeepsStatus DEF UnregisterTables, DropTables, Linked

\* Steps that touch none of the linked tables.
LEMMA StutterLinked ==
    ASSUME Linked, UNCHANGED <<byUser, agentInfo, snapshot, status, cmd>>,
           pendingInfo' \subseteq pendingInfo,
           \A w \in pendingInfo : pc[w] \in {"loop", "loopBind"} => pc'[w] \in {"loop", "loopBind"}
    PROVE  Linked'
  BY DEF Linked, CacheOwned, WaiterHasTarget, ResultFromTarget, OfflineMeansGone, LoopInfo

\* One step per action of a handler.
LEMMA HandlerLinked ==
    ASSUME TypeOK, RegistryInv, Linked, NEW w \in Sockets, Handler(w) PROVE Linked'
  <1>1. ASSUME NEW s \in Sessions, Attach(w, s) PROVE Linked'
    BY <1>1, AttachLinked
  <1>2. CASE SetupChallenge(w) \/ SetupNoChallenge(w) \/ SetupBind(w) \/ SetupEnd(w) \/ Collect(w)
    <2>1. \A x \in pendingInfo : x # w
      BY <1>2 DEF SetupChallenge, SetupNoChallenge, SetupBind, SetupEnd, Collect, Linked, LoopInfo
    <2> QED
      BY <1>2, <2>1, StutterLinked
      DEF SetupChallenge, SetupNoChallenge, SetupBind, SetupEnd, Collect, registry, caches, TypeOK
  <1>3. CASE HandlerBind(w)
    <2>1. local[w] \in Sessions /\ bind[w].user \in Users /\ bind[w].takeover \in BOOLEAN
      BY <1>3 DEF HandlerBind, TypeOK
    <2>2. /\ CacheOwned' /\ WaiterHasTarget' /\ ResultFromTarget' /\ OfflineMeansGone'
          /\ pendingInfo' \subseteq pendingInfo
      BY <1>3, <2>1, BindLinked DEF HandlerBind
    <2>3. LoopInfo'
      BY <1>3, <2>2 DEF HandlerBind, Linked, LoopInfo, TypeOK
    <2> QED
      BY <2>2, <2>3 DEF Linked
  <1>4. CASE HandlerBindFails(w)
    <2>1. \A x \in pendingInfo : pc[x] \in {"loop", "loopBind"} => pc'[x] \in {"loop", "loopBind"}
      BY <1>4 DEF HandlerBindFails, TypeOK
    <2> QED
      BY <1>4, <2>1, StutterLinked DEF HandlerBindFails, registry, caches
  <1>5. CASE Ping(w)
    BY <1>5, StutterLinked DEF Ping, registry, handlers
  <1>6. CASE DeviceProof(w) \/ OAuthLink(w)
    <2>1. \A x \in pendingInfo : pc[x] \in {"loop", "loopBind"} => pc'[x] \in {"loop", "loopBind"}
      BY <1>6 DEF DeviceProof, OAuthLink, TypeOK
    <2> QED
      BY <1>6, <2>1, StutterLinked DEF DeviceProof, OAuthLink, registry
  <1>7. CASE Hello(w)
    <2>1. UNCHANGED <<byUser, cmd, snapshot>>
      BY <1>7 DEF Hello, registry
    <2>2. CacheOwned' /\ OfflineMeansGone'
      <3>1. CASE wsUser[w] = None
        BY <1>7, <2>1, <3>1 DEF Hello, Linked, CacheOwned, OfflineMeansGone
      <3>2. CASE wsUser[w] # None
        <4>1. wsUser[w] \in Users /\ byUser[wsUser[w]] = w
          BY <3>2 DEF TypeOK, RegistryInv, UserTables
        <4>2. /\ agentInfo' = [agentInfo EXCEPT ![wsUser[w]] = w]
              /\ status' = [status EXCEPT ![wsUser[w]] = "online"]
          BY <1>7, <3>2 DEF Hello, ConnectedStatus
        <4> QED
          BY <2>1, <4>1, <4>2 DEF Linked, CacheOwned, OfflineMeansGone, TypeOK
      <3> QED
        BY <3>1, <3>2
    <2>3. WaiterHasTarget' /\ ResultFromTarget'
      BY <2>1 DEF Linked, WaiterHasTarget, ResultFromTarget
    <2>4. LoopInfo'
      BY <1>7 DEF Hello, Receives, Linked, LoopInfo, TypeOK
    <2> QED
      BY <2>2, <2>3, <2>4 DEF Linked
  <1>8. CASE Update(w)
    <2>1. UNCHANGED <<byUser, cmd, agentInfo, pendingInfo, pc>> /\ wsUser[w] # None
      BY <1>8 DEF Update, registry, handlers
    <2>2. wsUser[w] \in Users /\ byUser[wsUser[w]] = w
      BY <2>1 DEF TypeOK, RegistryInv, UserTables
    <2>3. \/ status' = [status EXCEPT ![wsUser[w]] = "online"] /\ snapshot' = snapshot
          \/ snapshot' = [snapshot EXCEPT ![wsUser[w]] = w] /\ status' = status
      BY <1>8 DEF Update
    <2>4. CacheOwned' /\ OfflineMeansGone'
      BY <2>1, <2>2, <2>3 DEF Linked, CacheOwned, OfflineMeansGone, TypeOK
    <2> QED
      BY <2>1, <2>4 DEF Linked, WaiterHasTarget, ResultFromTarget, LoopInfo
  <1>9. ASSUME NEW r \in Reqs, CommandResult(w, r) PROVE Linked'
    <2>1. /\ UNCHANGED <<byUser, agentInfo, snapshot, status, pendingInfo, pc>>
          /\ cmd[r].user = wsUser[w] /\ cmd[r].fut = "open" /\ wsUser[w] # None
          /\ cmd' = [cmd EXCEPT ![r].fut = "result", ![r].by = w]
      BY <1>9 DEF CommandResult, registry, handlers
    <2>2. cmd[r].target = w
      BY <2>1 DEF Linked, WaiterHasTarget, RegistryInv, UserTables
    <2>3. /\ cmd'[r] = [cmd[r] EXCEPT !.fut = "result", !.by = w]
          /\ cmd[r] \in Cmd
          /\ \A q \in Reqs : q # r => cmd'[q] = cmd[q]
      BY <2>1 DEF TypeOK
    <2>4. cmd'[r].fut = "result" /\ cmd'[r].by = w /\ cmd'[r].target = w
      BY <2>2, <2>3 DEF Cmd
    <2>5. WaiterHasTarget' /\ ResultFromTarget'
      BY <2>1, <2>3, <2>4 DEF Linked, WaiterHasTarget, ResultFromTarget
    <2> QED
      BY <2>1, <2>5 DEF Linked, CacheOwned, OfflineMeansGone, LoopInfo
  <1>10. CASE HandlerEnd(w)
    <2>1. UnregisterTables(w) /\ cmd' = Cancelled(w) /\ pc' = [pc EXCEPT ![w] = "free"]
      BY <1>10 DEF HandlerEnd
    <2>2. CacheOwned' /\ OfflineMeansGone' /\ pendingInfo' = pendingInfo \ {w}
      BY <2>1, UnregisterLinked
    <2>3. byUser' = ByUserWithout(w)
      BY <2>1 DEF UnregisterTables, DropTables
    <2>4. WaiterHasTarget' /\ ResultFromTarget'
      BY <2>1, <2>3, DropKeepsWaiters DEF Linked, WaiterHasTarget, ResultFromTarget
    <2>5. LoopInfo'
      BY <2>1, <2>2 DEF Linked, LoopInfo, TypeOK
    <2> QED
      BY <2>2, <2>4, <2>5 DEF Linked
  <1> QED
    BY <1>1, <1>2, <1>3, <1>4, <1>5, <1>6, <1>7, <1>8, <1>9, <1>10 DEF Handler

LEMMA HttpLinked == ASSUME TypeOK, RegistryInv, Linked, Http PROVE Linked'
  <1>1. ASSUME NEW s \in Sessions, NEW d \in Users, NEW t \in BOOLEAN, HttpBindStart(s, d, t)
        PROVE  Linked'
    BY <1>1, StutterLinked DEF HttpBindStart, registry, caches, handlers
  <1>2. ASSUME NEW b \in httpBinds, HttpBindEnd(b) PROVE Linked'
    <2>1. b.session \in Sessions /\ b.user \in Users /\ b.takeover \in BOOLEAN
      BY DEF TypeOK, HttpBind
    <2>2. CASE BindDiscord(b.session, b.user, b.takeover)
      BY <1>2, <2>1, <2>2, BindLinked DEF HttpBindEnd, handlers, Linked, LoopInfo
    <2>3. CASE UNCHANGED <<registry, caches, cmd>>
      BY <1>2, <2>3, StutterLinked DEF HttpBindEnd, registry, caches, handlers
    <2> QED
      BY <1>2, <2>2, <2>3 DEF HttpBindEnd
  <1>3. ASSUME NEW r \in Reqs,
               \A q \in Reqs : q # r => cmd'[q] = cmd[q],
               cmd'[r].fut = "open" => /\ cmd'[r].target # None
                                       /\ byUser[cmd'[r].user] = cmd'[r].target,
               cmd'[r].fut = "result" => cmd'[r].by = cmd'[r].target,
               UNCHANGED <<registry, caches, handlers>>
        PROVE  Linked'
    BY <1>3 DEF registry, caches, handlers, Linked, CacheOwned, OfflineMeansGone, LoopInfo,
       WaiterHasTarget, ResultFromTarget
  <1>4. ASSUME NEW r \in Reqs, NEW d \in Users, IssueCommand(r, d) PROVE Linked'
    <2>1. /\ cmd'[r] = IF byUser[d] # None /\ byUser[d] \in fresh
                       THEN [phase |-> "sending", user |-> d, target |-> byUser[d],
                             fut |-> "open", by |-> None]
                       ELSE [phase |-> "failed", user |-> d, target |-> None,
                             fut |-> "cancelled", by |-> None]
          /\ \A q \in Reqs : q # r => cmd'[q] = cmd[q]
          /\ UNCHANGED <<registry, caches, handlers>>
      BY <1>4 DEF IssueCommand, TypeOK
    <2> QED
      BY <1>3, <2>1
  <1>5. ASSUME NEW r \in Reqs, CommandSent(r) \/ CommandAnswered(r) \/ CommandTimeout(r)
        PROVE  Linked'
    <2>1. /\ \/ \E p \in CmdPhases : cmd'[r] = [cmd[r] EXCEPT !.phase = p]
             \/ cmd'[r] = [cmd[r] EXCEPT !.phase = "timeout", !.fut = "cancelled"]
          /\ \A q \in Reqs : q # r => cmd'[q] = cmd[q]
          /\ UNCHANGED <<registry, caches, handlers>>
      BY <1>5 DEF CommandSent, CommandAnswered, CommandTimeout, TypeOK, CmdPhases
    <2>2. cmd[r] \in Cmd
      BY DEF TypeOK
    <2>3. /\ cmd'[r].user = cmd[r].user /\ cmd'[r].target = cmd[r].target
          /\ cmd'[r].by = cmd[r].by /\ cmd'[r].fut \in {cmd[r].fut, "cancelled"}
      BY <2>1, <2>2 DEF Cmd
    <2> QED
      BY <1>3, <2>1, <2>3 DEF Linked, WaiterHasTarget, ResultFromTarget
  <1>6. ASSUME NEW r \in Reqs, CommandSendFails(r) PROVE Linked'
    <2> DEFINE tgt == cmd[r].target
    <2>1. tgt \in Sockets \cup {None}
      BY DEF TypeOK, Cmd
    <2>2. /\ UnregisterTables(tgt) /\ pc' = pc /\ byUser' = ByUserWithout(tgt)
          /\ cmd' = [Cancelled(tgt) EXCEPT
                       ![r].phase = "failed",
                       ![r].fut = IF cmd[r].fut = "open" THEN "cancelled" ELSE @]
      BY <1>6 DEF CommandSendFails, handlers, UnregisterTables, DropTables
    <2> HIDE DEF tgt
    <2>3. CacheOwned' /\ OfflineMeansGone' /\ pendingInfo' = pendingInfo \ {tgt}
      BY <2>1, <2>2, UnregisterLinked
    <2>4. Cancelled(tgt) \in [Reqs -> Cmd]
      BY <2>1, CancelledTypes
    <2>5. /\ cmd'[r] = [Cancelled(tgt)[r] EXCEPT !.phase = "failed",
                          !.fut = IF cmd[r].fut = "open" THEN "cancelled" ELSE @]
          /\ \A q \in Reqs : q # r => cmd'[q] = Cancelled(tgt)[q]
      BY <2>2, <2>4
    <2>6. /\ cmd'[r].fut # "open"
          /\ cmd'[r].fut = "result" => Cancelled(tgt)[r].fut = "result"
          /\ cmd'[r].by = Cancelled(tgt)[r].by /\ cmd'[r].target = Cancelled(tgt)[r].target
      <3>1. Cancelled(tgt)[r] \in Cmd
        BY <2>4
      <3>2. Cancelled(tgt)[r].fut = "open" => cmd[r].fut = "open"
        BY <2>1, CancelledTypes
      <3> QED
        BY <2>5, <3>1, <3>2 DEF Cmd
    <2>7. ASSUME NEW q \in Reqs
          PROVE  /\ cmd'[q].fut = "open" => /\ cmd'[q].target # None
                                           /\ byUser'[cmd'[q].user] = cmd'[q].target
                 /\ cmd'[q].fut = "result" => cmd'[q].by = cmd'[q].target
      <3>1. /\ Cancelled(tgt)[q].fut = "open" =>
                  /\ Cancelled(tgt)[q].target # None
                  /\ ByUserWithout(tgt)[Cancelled(tgt)[q].user] = Cancelled(tgt)[q].target
            /\ Cancelled(tgt)[q].fut = "result" => Cancelled(tgt)[q].by = Cancelled(tgt)[q].target
        BY <2>1, DropKeepsWaiters DEF Linked
      <3>2. CASE q = r
        BY <2>6, <3>1, <3>2
      <3>3. CASE q # r
        BY <2>2, <2>5, <3>1, <3>3
      <3> QED
        BY <3>2, <3>3
    <2> QED
      BY <2>2, <2>3, <2>7 DEF Linked, LoopInfo, WaiterHasTarget, ResultFromTarget
  <1> QED
    BY <1>1, <1>2, <1>4, <1>5, <1>6 DEF Http

LEMMA NextLinked == TypeOK /\ RegistryInv /\ Linked /\ [Next]_vars => Linked'
  <1> SUFFICES ASSUME TypeOK, RegistryInv, Linked, [Next]_vars PROVE Linked'
    OBVIOUS
  <1>1. ASSUME NEW w \in Sockets, GoStale(w) PROVE Linked'
    BY <1>1, StutterLinked DEF GoStale, registry, handlers
  <1>2. CASE UNCHANGED vars
    BY <1>2, StutterLinked DEF vars, registry, caches, handlers
  <1> QED
    BY <1>1, <1>2, HandlerLinked, HttpLinked DEF Next, Environment

LEMMA LinkedAlways == Spec => []Linked
  <1>1. Init => Linked
    BY DEF Init, Linked, CacheOwned, WaiterHasTarget, ResultFromTarget, OfflineMeansGone, LoopInfo,
       IdleCmd
  <1> QED
    BY <1>1, TypeCorrect, RegistryConsistent, NextLinked, PTL DEF Spec

\* What is cached for a user was reported by the user's current connection.
THEOREM CachesOwned == Spec => []CacheOwned
  BY LinkedAlways, PTL DEF Linked

\* A request still waiting waits for the connection its command went to, ...
THEOREM WaitersHaveTargets == Spec => []WaiterHasTarget
  BY LinkedAlways, PTL DEF Linked

\* ... and is answered by no other.
THEOREM ResultsFromTargets == Spec => []ResultFromTarget
  BY LinkedAlways, PTL DEF Linked

\* No user with a connection is remembered as offline.
THEOREM OfflineUsersAreGone == Spec => []OfflineMeansGone
  BY LinkedAlways, PTL DEF Linked

\* A new connection inherits no stored hello.
THEOREM HelloNotInherited == Spec => []InfoNotInherited
  <1>1. Linked => InfoNotInherited
    BY DEF Linked, LoopInfo, InfoNotInherited
  <1> QED
    BY <1>1, LinkedAlways, PTL

\* What the Relay says of a user comes from the connection he has.
THEOREM SaidOfTheOwner == Spec => []SaidOfOwner
  BY CachesOwned, OfflineUsersAreGone, HelloNotInherited, PTL DEF SaidOfOwner

\* A command waits for, and is answered by, the connection it was sent to.
THEOREM AnswersAreSafe == Spec => []AnswersSafe
  BY WaitersHaveTargets, ResultsFromTargets, PTL DEF AnswersSafe

-------------------------------------------------------------------------------
(* A connection heard from recently loses its user only to an explicit login. *)

\* The user of a connection heard from recently is given to another connection.
Displaced(d) == byUser[d] # None /\ byUser[d] \in fresh /\ byUser'[d] \notin {None, byUser[d]}

\* Dropping a socket gives nobody a connection.
LEMMA DropDisplacesNobody ==
    ASSUME NEW w, byUser' = ByUserWithout(w), NEW d \in Users
    PROVE  ~Displaced(d)
  BY DEF ByUserWithout, Displaced

\* A saved session that binds displaces nobody: bind_discord turns it away, unless
\* the user's connection is of the same session.  That one would be the socket that
\* waits, since the tables agree.
LEMMA SavedBindDisplacesNobody ==
    ASSUME TypeOK, RegistryInv, NEW s \in Sessions, NEW u \in Users, NEW t \in BOOLEAN,
           BindDiscord(s, u, t), NEW d \in Users, Displaced(d)
    PROVE  t
  <1> DEFINE w == waiting[s]
  <1>1. CASE w = None
    BY <1>1 DEF BindDiscord, registry, Displaced
  <1>2. CASE w # None /\ KeepsOther(w, s, u, t)
    <2>1. byUser' = ByUserWithout(w)
      BY <1>2 DEF BindDiscord, RejectBind
    <2> QED
      BY <2>1, DropDisplacesNobody
  <1>3. CASE w # None /\ ~KeepsOther(w, s, u, t)
    <2>1. AcceptBind(w, s, u)
      BY <1>3 DEF BindDiscord
    <2> DEFINE prev == IF byUser[u] = w THEN None ELSE byUser[u]
    <2>2. byUser' = [ByUserWithout(prev) EXCEPT ![u] = w]
      BY <2>1 DEF AcceptBind
    <2>3. d = u /\ byUser[u] # w
      <3> HIDE DEF prev, w
      <3> QED
        BY <2>2 DEF ByUserWithout, Displaced
    <2>4. byUser[u] \in Sockets /\ byUser[u] \in fresh /\ w \in Sockets
      BY <1>3, <2>3 DEF TypeOK, Displaced
    <2>5. wsSession[byUser[u]] # s
      BY <1>3, <2>3, <2>4, NoneIsNew DEF RegistryInv, SessionTables
    <2>6. byUser[u] # None
      BY <2>3 DEF Displaced
    <2> HIDE DEF w
    <2> QED
      BY <1>3, <2>3, <2>4, <2>5, <2>6, Zenon DEF KeepsOther
  <1> QED
    BY <1>1, <1>2, <1>3

\* An explicit login was under way and is over.
ByLogin ==
    \/ \E b \in httpBinds \ httpBinds' : b.takeover
    \/ \E w \in Sockets : bind[w].takeover /\ bind'[w] # bind[w]

LEMMA HandlerDisplaces ==
    ASSUME TypeOK, RegistryInv, NEW w \in Sockets, Handler(w), NEW d \in Users, Displaced(d)
    PROVE  ByLogin
  <1>1. ASSUME NEW s \in Sessions, Attach(w, s)
        PROVE  FALSE
    BY <1>1, DropDisplacesNobody DEF Attach
  <1>2. CASE HandlerBind(w)
    <2>1. /\ pc[w] \in {"setupBind", "loopBind"} /\ bind' = [bind EXCEPT ![w] = NoBind]
          /\ BindDiscord(local[w], bind[w].user, bind[w].takeover)
      BY <1>2 DEF HandlerBind
    <2>2. local[w] \in Sessions /\ bind[w].user \in Users /\ bind[w].takeover \in BOOLEAN
      <3>1. local[w] \in Sessions /\ bind[w].user \in Users
        BY <2>1 DEF TypeOK
      <3>2. bind[w] \in [user : Users \cup {None}, takeover : BOOLEAN]
        BY DEF TypeOK
      <3>3. bind[w].takeover \in BOOLEAN
        BY <3>2
      <3> QED
        BY <3>1, <3>3
    <2>3. bind[w].takeover
      BY <2>1, <2>2, SavedBindDisplacesNobody
    <2>4. bind'[w] = NoBind
      BY <2>1 DEF TypeOK
    <2>5. ~NoBind.takeover
      BY DEF NoBind
    <2>6. bind'[w] # bind[w]
      BY <2>3, <2>4, <2>5, Zenon
    <2> QED
      BY <2>3, <2>6, Zenon DEF ByLogin
  <1>3. CASE HandlerEnd(w)
    BY <1>3, DropDisplacesNobody DEF HandlerEnd, UnregisterTables, DropTables
  <1>4. CASE \/ SetupChallenge(w) \/ SetupNoChallenge(w) \/ SetupBind(w) \/ SetupEnd(w)
             \/ HandlerBindFails(w) \/ Ping(w) \/ Hello(w) \/ DeviceProof(w) \/ OAuthLink(w)
             \/ Update(w) \/ (\E r \in Reqs : CommandResult(w, r)) \/ Collect(w)
    <2>1. byUser' = byUser
      BY <1>4 DEF SetupChallenge, SetupNoChallenge, SetupBind, SetupEnd, HandlerBindFails, Ping, Hello,
                  DeviceProof, OAuthLink, Update, CommandResult, Collect, registry
    <2> QED
      BY <2>1 DEF Displaced
  <1> QED
    BY <1>1, <1>2, <1>3, <1>4 DEF Handler

LEMMA HttpDisplaces ==
    ASSUME TypeOK, RegistryInv, Http, NEW d \in Users, Displaced(d)
    PROVE  ByLogin
  <1>1. ASSUME NEW b \in httpBinds, HttpBindEnd(b)
        PROVE  ByLogin
    <2>1. b \in HttpBind /\ b \in httpBinds \ httpBinds'
      BY <1>1 DEF HttpBindEnd, TypeOK
    <2>2. b.session \in Sessions /\ b.user \in Users /\ b.takeover \in BOOLEAN
      BY <2>1 DEF HttpBind
    <2>3. BindDiscord(b.session, b.user, b.takeover)
      BY <1>1 DEF HttpBindEnd, registry, Displaced
    <2>4. b.takeover
      BY <2>2, <2>3, SavedBindDisplacesNobody
    <2> QED
      BY <2>1, <2>4, Zenon DEF ByLogin
  <1>2. ASSUME NEW r \in Reqs, CommandSendFails(r)
        PROVE  FALSE
    BY <1>2, DropDisplacesNobody DEF CommandSendFails, UnregisterTables, DropTables
  <1>3. CASE \/ \E s \in Sessions, u \in Users, t \in BOOLEAN : HttpBindStart(s, u, t)
             \/ \E r \in Reqs : \/ \E u \in Users : IssueCommand(r, u)
                                \/ CommandSent(r) \/ CommandAnswered(r) \/ CommandTimeout(r)
    <2>1. byUser' = byUser
      BY <1>3 DEF HttpBindStart, IssueCommand, CommandSent, CommandAnswered, CommandTimeout, registry
    <2> QED
      BY <2>1 DEF Displaced
  <1> QED
    BY <1>1, <1>2, <1>3 DEF Http

\* A connection heard from recently loses its user to another one only through an
\* explicit login, however a bind of a saved session was started and however long
\* ago: bind_discord decides with the tables as they are when it runs.
THEOREM HealthyConnectionsAreKept == Spec => HealthyKept
  <1>1. ASSUME TypeOK, RegistryInv, Next, NEW d \in Users, Displaced(d)
        PROVE  ByLogin
    <2>1. ASSUME NEW w \in Sockets, GoStale(w) PROVE FALSE
      BY <1>1, <2>1 DEF GoStale, registry, Displaced
    <2> QED
      BY <1>1, <2>1, HandlerDisplaces, HttpDisplaces DEF Next, Environment
  <1>2. TypeOK /\ RegistryInv /\ [Next]_vars =>
          [\A d \in Users : Displaced(d) => ByLogin]_vars
    BY <1>1
  <1>3. TypeOK /\ RegistryInv /\ [Next]_vars =>
          [\A d \in Users :
             byUser[d] # None /\ byUser[d] \in fresh /\ byUser'[d] \notin {None, byUser[d]}
             => \/ \E b \in httpBinds \ httpBinds' : b.takeover
                \/ \E w \in Sockets : bind[w].takeover /\ bind'[w] # bind[w]]_vars
    BY <1>2 DEF Displaced, ByLogin
  <1> QED
    BY <1>3, TypeCorrect, RegistryConsistent, PTL DEF Spec, HealthyKept
==============================================================================
