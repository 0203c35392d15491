------------------------------ MODULE MCAgentLink ------------------------------
(* TLC instance of five parts of the agent's link to the Relay that share no  *)
(* state with one another in the models: the session and its tokens, the live *)
(* journal, the heartbeat, the signed commands and what the Bot is told of    *)
(* the client. A behaviour runs one of them, so the run explores each part    *)
(* completely without their product.                                          *)
EXTENDS Naturals, Sequences

CONSTANTS Accounts, Main, None, MaxSids, MaxTokens, MaxFaults,
          MaxEvents, MaxCrashes, MaxFailures,
          Interval, Timeout, Stale, MaxHold, MaxTicks,
          Envelopes, Skew, MaxNonces, MaxRequests, MaxTime, MaxDrops,
          Room, MaxWire, MaxChanges, MaxLost

ASSUME MainIsAccount == Main \in Accounts /\ None \notin Accounts
ASSUME JournalBoundsAreNats == MaxEvents \in Nat /\ MaxCrashes \in Nat /\ MaxFailures \in Nat
ASSUME SessionBoundsAreNats == MaxSids \in Nat /\ MaxTokens \in Nat /\ MaxFaults \in Nat
ASSUME NoneIsNothing == None \notin Seq(Nat) /\ None \notin Nat

(* The task is due less often than a ping times out, and the Relay waits for   *)
(* longer than both together: 25, 10 and 180 seconds.                         *)
ASSUME TimeoutsAreNested ==
    /\ Interval \in Nat /\ Timeout \in Nat /\ Stale \in Nat /\ MaxHold \in Nat /\ MaxTicks \in Nat
    /\ 0 < Timeout /\ Timeout < Interval /\ Interval + Timeout <= Stale

(* The bot signs every envelope with a nonce of its own.                      *)
ASSUME CommandBoundsAreNats ==
    /\ Skew \in Nat /\ MaxNonces \in Nat \ {0} /\ MaxRequests \in Nat
    /\ MaxTime \in Nat /\ MaxDrops \in Nat
ASSUME EnvelopesAreSigned ==
    /\ Envelopes # {}
    /\ \A e \in Envelopes :
          /\ e.kind \in {"plain", "launch", "lcu"}
          /\ e.expires \in 0..MaxTime
          /\ e.nonce \notin {"free", "lockfile"}
          /\ \A f \in Envelopes : e.nonce = f.nonce => e = f

(* The channel of nudges has a capacity.                                       *)
ASSUME ClientBoundsAreNats ==
    /\ Room \in Nat \ {0}
    /\ MaxWire \in Nat /\ MaxChanges \in Nat /\ MaxLost \in Nat

(* Signed commands: one for the League client that asks for trust, a launch,  *)
(* one made out to another device and one that outlives the others.           *)
Envelope(n, k, safe, mine, expires, key_) ==
    [nonce |-> n, kind |-> k, safe |-> safe, mine |-> mine, expires |-> expires, key |-> key_]
SignedEnvelopes ==
    {Envelope("n1", "lcu", FALSE, TRUE, 1, 1), Envelope("n2", "launch", TRUE, TRUE, 2, 1),
     Envelope("n3", "plain", TRUE, FALSE, 1, 2), Envelope("n4", "plain", TRUE, TRUE, 3, 2)}

VARIABLES
    part,
    file, mem, bound, suppressed, logout, open, ws, mail, session, auto, mapping, records,
    trusted, task, sids, tokens, faults, clash,
    phase, pending, tracked, dirty, resync, waiting, write, journal, temps, promised, crashes,
    failures,
    clock, since, ping, awaiting, pings, pongs, failed, alive, silent, cut, asleep, slept, late,
    early,
    now, serverKey, key, link, drops, asked, requests, answers, command, nonces, lock, disk,
    ran, forgotten,
    client, wire, socket, nudges, conn, cached, poller, poll, batch, told, changes, lost,
    answered, missed, forgot

sessionVars ==
    <<file, mem, bound, suppressed, logout, open, ws, mail, session, auto, mapping, records,
      trusted, task, sids, tokens, faults, clash>>
journalVars ==
    <<phase, pending, tracked, dirty, resync, waiting, write, journal, temps, promised, crashes,
      failures>>
heartbeatVars ==
    <<clock, since, ping, awaiting, pings, pongs, failed, alive, silent, cut, asleep, slept,
      late, early>>
commandVars ==
    <<now, serverKey, key, link, drops, asked, requests, answers, command, nonces, lock, disk,
      ran, forgotten>>

clientVars ==
    <<client, wire, socket, nudges, conn, cached, poller, poll, batch, told, changes, lost,
      answered, missed, forgot>>

Credentials == INSTANCE SessionCredentials
Journal == INSTANCE LiveJournal WITH file <- journal, faults <- failures, MaxFaults <- MaxFailures
Beat == INSTANCE Heartbeat
Orders == INSTANCE Commands WITH task <- command

Snapshots == INSTANCE LcuSnapshots WITH
    faults <- lost, MaxFaults <- MaxLost, forgotten <- forgot

ASSUME NoneIsNoSession == None \notin Credentials!Saved /\ None \notin Credentials!Sockets

(* The variables of a part that does not run have one value.                  *)
SessionIdle ==
    /\ file = None /\ mem = None /\ bound = None /\ suppressed = None /\ logout = None
    /\ open = None /\ ws = None /\ mail = None /\ session = None /\ auto = None
    /\ mapping = None /\ records = None /\ trusted = None /\ task = None /\ sids = None
    /\ tokens = None /\ faults = None /\ clash = None
JournalIdle ==
    /\ phase = None /\ pending = None /\ tracked = None /\ dirty = None /\ resync = None
    /\ waiting = None /\ write = None /\ journal = None /\ temps = None /\ promised = None
    /\ crashes = None /\ failures = None
HeartbeatIdle ==
    /\ clock = None /\ since = None /\ ping = None /\ awaiting = None /\ pings = None
    /\ pongs = None /\ failed = None /\ alive = None /\ silent = None /\ cut = None
    /\ asleep = None /\ slept = None /\ late = None /\ early = None
CommandsIdle ==
    /\ now = None /\ serverKey = None /\ key = None /\ link = None /\ drops = None
    /\ asked = None /\ requests = None /\ answers = None /\ command = None /\ nonces = None
    /\ lock = None /\ disk = None /\ ran = None /\ forgotten = None
ClientIdle ==
    /\ client = None /\ wire = None /\ socket = None /\ nudges = None /\ conn = None
    /\ cached = None /\ poller = None /\ poll = None /\ batch = None /\ told = None
    /\ changes = None /\ lost = None /\ answered = None /\ missed = None /\ forgot = None

Init ==
    /\ part \in {"session", "journal", "heartbeat", "commands", "client"}
    /\ IF part = "session" THEN Credentials!Init ELSE SessionIdle
    /\ IF part = "journal" THEN Journal!Init ELSE JournalIdle
    /\ IF part = "heartbeat" THEN Beat!Init ELSE HeartbeatIdle
    /\ IF part = "commands" THEN Orders!Init ELSE CommandsIdle
    /\ IF part = "client" THEN Snapshots!Init ELSE ClientIdle

SessionNext ==
    part = "session" /\ Credentials!Next
    /\ UNCHANGED <<part, journalVars, heartbeatVars, commandVars, clientVars>>
JournalNext ==
    part = "journal" /\ Journal!Next
    /\ UNCHANGED <<part, sessionVars, heartbeatVars, commandVars, clientVars>>
HeartbeatNext ==
    part = "heartbeat" /\ Beat!Next
    /\ UNCHANGED <<part, sessionVars, journalVars, commandVars, clientVars>>
CommandsNext ==
    part = "commands" /\ Orders!Next
    /\ UNCHANGED <<part, sessionVars, journalVars, heartbeatVars, clientVars>>
ClientNext ==
    part = "client" /\ Snapshots!Next
    /\ UNCHANGED <<part, sessionVars, journalVars, heartbeatVars, commandVars>>

Next == SessionNext \/ JournalNext \/ HeartbeatNext \/ CommandsNext \/ ClientNext
Spec ==
    Init /\ [][Next]_<<part, sessionVars, journalVars, heartbeatVars, commandVars, clientVars>>

(* What happens after a token was issued against another issue, a revocation  *)
(* or a restart, where the properties claim nothing any more, is not explored; *)
(* two handlers at once are explored with one session. Each property below     *)
(* includes the type invariant of its part.                                   *)
Explored ==
    part = "session" =>
    /\ "issue" \notin clash
    /\ "handlers" \in clash => sids <= 1 /\ faults <= 1

(* The Relay keeps one refresh record per session, the one it maps the        *)
(* session to, what the agent holds is pinned to its account, and a device    *)
(* that was told its session is bound holds the current token (RecordsCurrent, *)
(* HeldIsPinned and BoundHoldsCurrent of SessionCredentials).                 *)
SessionSafe ==
    part = "session" =>
        /\ Credentials!TypeOK
        /\ Credentials!RecordsCurrent /\ Credentials!HeldIsPinned /\ Credentials!BoundHoldsCurrent

(* A live event that was accepted stays pending until it is acknowledged,     *)
(* through crashes, and the file says what is pending (PromisedPending and    *)
(* SavedIsPending of LiveJournal).                                            *)
JournalSafe ==
    part = "journal" =>
        Journal!TypeOK /\ Journal!PromisedPending /\ Journal!SavedIsPending

(* A pong timeout is a late pong, an agent the Relay gives up was cut off, and *)
(* a dead link is noticed in time (AlarmTrue, GivenUpIsCut and Noticed of     *)
(* Heartbeat).                                                                *)
HeartbeatSafe ==
    part = "heartbeat" =>
        Beat!TypeOK /\ Beat!AlarmTrue /\ Beat!GivenUpIsCut /\ Beat!Noticed

(* A signed command is carried out once, every request is answered once, and  *)
(* only a task that uses the client holds its lock (RunsOnce, AnsweredOnce    *)
(* and LockKept of Commands).                                                 *)
CommandsSafe ==
    part = "commands" =>
        Orders!TypeOK /\ Orders!RunsOnce /\ Orders!AnsweredOnce /\ Orders!LockKept

(* The Bot knows the client when the poller rests with nothing pending, and a *)
(* client found gone takes its status back (BotKnowsClient and GoneIsTold of  *)
(* LcuSnapshots).                                                             *)
ClientSafe ==
    part = "client" =>
        Snapshots!TypeOK /\ Snapshots!BotKnowsClient /\ Snapshots!GoneIsTold
===============================================================================
