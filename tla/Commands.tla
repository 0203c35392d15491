-------------------------------- MODULE Commands -------------------------------
(* Commands the Relay sends to the agent: the arm of the connection loop that  *)
(* runs one at a time (supervisor.rs), handle_incoming, the verification of    *)
(* the envelope the bot signed (command_auth.rs) and the gate of the disk      *)
(* operations (blocking_io.rs), which an operation holds until it is over,     *)
(* even when its caller has given up or was aborted with its connection.       *)
EXTENDS Naturals, FiniteSets

CONSTANTS
    Envelopes,    \* signed commands: [nonce, kind, safe, mine, expires, key]
    Skew,         \* MAX_CLOCK_SKEW_MS
    MaxNonces,    \* MAX_NONCES
    MaxRequests,  \* bound: requests the Relay forwards, an envelope any number of times
    MaxTime,      \* bound: the clock
    MaxDrops      \* bound: connections lost

VARIABLES
    now,       \* the clock
    serverKey, \* the key the server signs with and publishes
    key,       \* key_cache, 0 for none or too old
    link,      \* the connection: "closed", "open", "new_device" or "trusted"
    drops,
    asked,     \* requests that came on this connection
    requests,  \* number of requests so far
    answers,   \* how often each request was answered
    task,      \* the one command task of the connection
    nonces,    \* nonce_cache
    lock,      \* command_lock: nobody, the command task, a command of the UI
    disk,      \* the gate COMMAND_DISK_IO: what runs behind it
    ran,       \* how often the command of each nonce was carried out
    forgotten  \* history: nonces dropped to make room

vars == <<now, serverKey, key, link, drops, asked, requests, answers, task, nonces, lock,
          disk, ran, forgotten>>

Requests == 1..MaxRequests
Nonces == {e.nonce : e \in Envelopes}
Earliest == CHOOSE e \in Envelopes : TRUE
NoTask == [pc |-> "none", req |-> 0, env |-> Earliest, trust |-> "open", at |-> 0]

Init ==
    /\ now = 0 /\ serverKey = 1 /\ key = 0
    /\ link = "closed" /\ drops = 0 /\ asked = {} /\ requests = 0
    /\ answers = [r \in Requests |-> 0]
    /\ task = NoTask /\ nonces = {} /\ lock = "free" /\ disk = "free"
    /\ ran = [n \in Nonces |-> 0] /\ forgotten = {}

-----------------------------------------------------------------------------
(* The rest of the agent and the world.                                       *)

Tick ==
    /\ now < MaxTime
    /\ now' = now + 1
    /\ UNCHANGED <<serverKey, key, link, drops, asked, requests, answers, task, nonces, lock, disk, ran, forgotten>>

RotateKey ==
    /\ serverKey = 1
    /\ serverKey' = 2
    /\ UNCHANGED <<now, key, link, drops, asked, requests, answers, task, nonces, lock, disk, ran, forgotten>>

(* KEY_CACHE_TTL is over.                                                     *)
KeyExpires ==
    /\ key # 0
    /\ key' = 0
    /\ UNCHANGED <<now, serverKey, link, drops, asked, requests, answers, task, nonces, lock, disk, ran, forgotten>>

Open ==
    /\ link = "closed"
    /\ link' = "open" /\ asked' = {}
    /\ UNCHANGED <<now, serverKey, key, drops, requests, answers, task, nonces, lock, disk, ran, forgotten>>

(* session_bound, with the trust of this device.                              *)
Bind(trust) ==
    /\ link \notin {"closed", trust}
    /\ link' = trust
    /\ UNCHANGED <<now, serverKey, key, drops, asked, requests, answers, task, nonces, lock, disk, ran, forgotten>>

(* connect_once returns: its JoinSet aborts the task, which lets go of the    *)
(* lock; what runs behind the gate goes on.                                   *)
Close ==
    /\ link # "closed" /\ drops < MaxDrops
    /\ link' = "closed" /\ drops' = drops + 1
    /\ task' = NoTask
    /\ lock' = IF lock = "task" THEN "free" ELSE lock
    /\ UNCHANGED <<now, serverKey, key, asked, requests, answers, nonces, disk, ran, forgotten>>

(* save_config, the overlay's switches, apply_beta_update_now, the recording  *)
(* watcher: they wait for the lock as long as it takes.                       *)
UiLocks ==
    /\ lock = "free"
    /\ lock' = "ui"
    /\ UNCHANGED <<now, serverKey, key, link, drops, asked, requests, answers, task, nonces, disk, ran, forgotten>>
UiUnlocks ==
    /\ lock = "ui"
    /\ lock' = "free"
    /\ UNCHANGED <<now, serverKey, key, link, drops, asked, requests, answers, task, nonces, disk, ran, forgotten>>

-----------------------------------------------------------------------------
(* The loop: a command while another runs is answered at once.                *)

Refused == [answers EXCEPT ![requests'] = @ + 1]

Receive(e) ==
    /\ link # "closed"
    /\ requests < MaxRequests
    /\ requests' = requests + 1
    /\ asked' = asked \cup {requests'}
    /\ IF task.pc # "none"
       THEN answers' = Refused /\ UNCHANGED task
       ELSE /\ task' = [pc |-> "authorize", req |-> requests', env |-> e, trust |-> link,
                        at |-> 0]
            /\ UNCHANGED answers
    /\ UNCHANGED <<now, serverKey, key, link, drops, nonces, lock, disk, ran, forgotten>>

At(pc) == task.pc = pc
GoTo(pc) == task' = [task EXCEPT !.pc = pc]

(* The answer is sent; with it the task is over.                              *)
Answer ==
    /\ At("answer")
    /\ answers' = [answers EXCEPT ![task.req] = @ + 1]
    /\ task' = NoTask
    /\ UNCHANGED <<now, serverKey, key, link, drops, asked, requests, nonces, lock, disk, ran, forgotten>>

(* command_is_authorized, of what the connection was bound as when it came.   *)
Authorize ==
    /\ At("authorize")
    /\ GoTo(IF task.trust = "trusted" \/ (task.trust = "new_device" /\ task.env.safe)
            THEN "verify" ELSE "answer")
    /\ UNCHANGED <<now, serverKey, key, link, drops, asked, requests, answers, nonces, lock, disk, ran, forgotten>>

-----------------------------------------------------------------------------
(* verify_command: the clock is read before the key is fetched.               *)

TimeValid(e, t) == t <= e.expires + Skew

Check ==
    /\ At("verify")
    /\ task' = IF task.env.mine /\ TimeValid(task.env, now)
               THEN [task EXCEPT !.pc = "key", !.at = now]
               ELSE [task EXCEPT !.pc = "answer"]
    /\ UNCHANGED <<now, serverKey, key, link, drops, asked, requests, answers, nonces, lock, disk, ran, forgotten>>

CommandKey ==
    /\ At("key") /\ key = 0
    /\ \/ key' = serverKey /\ UNCHANGED task
       \/ GoTo("answer") /\ UNCHANGED key
    /\ UNCHANGED <<now, serverKey, link, drops, asked, requests, answers, nonces, lock, disk, ran, forgotten>>

RetainedNoSkew(cache, t) == {n \in cache : n.expires >= t}

(* claim_nonce: the entries whose commands can still come.                    *)
Retained(cache, t) == {n \in cache : n.expires + Skew >= t}

NoRoomMade(cache) == {}

(* The one that expires first makes room in a full cache.                     *)
Oldest(cache) ==
    IF Cardinality(cache) < MaxNonces THEN {}
    ELSE {CHOOSE n \in cache : \A m \in cache : n.expires <= m.expires}

Known(cache) == {n.nonce : n \in cache}

Claim ==
    /\ At("key") /\ key # 0
    /\ LET cache == Retained(nonces, task.at)
           new == [nonce |-> task.env.nonce, expires |-> task.env.expires]
       IN  IF key # task.env.key
           THEN GoTo("answer") /\ UNCHANGED <<nonces, forgotten>>
           ELSE IF task.env.nonce \in Known(cache)
           THEN GoTo("answer") /\ nonces' = cache /\ UNCHANGED forgotten
           ELSE /\ GoTo(task.env.kind)
                /\ nonces' = (cache \ Oldest(cache)) \cup {new}
                /\ forgotten' = forgotten \cup Known(Oldest(cache))
    /\ UNCHANGED <<now, serverKey, key, link, drops, asked, requests, answers, lock, disk, ran>>

-----------------------------------------------------------------------------
(* The command itself.                                                        *)

Carried(n) == ran' = [ran EXCEPT ![n] = @ + 1]

(* web_input and ping touch nothing else; an unknown action fails.            *)
Plain ==
    /\ At("plain")
    /\ Carried(task.env.nonce)
    /\ GoTo("answer")
    /\ UNCHANGED <<now, serverKey, key, link, drops, asked, requests, answers, nonces, lock, disk, forgotten>>

(* BlockingIo::run: refused while an operation runs, whoever began it.        *)
Launch ==
    /\ At("launch")
    /\ IF disk = "free"
       THEN GoTo("launching") /\ disk' = task.env.nonce
       ELSE GoTo("answer") /\ UNCHANGED disk
    /\ UNCHANGED <<now, serverKey, key, link, drops, asked, requests, answers, nonces, lock, ran, forgotten>>

(* The lock: two seconds, then the command fails.                             *)
TakeLock ==
    /\ At("lcu") /\ lock = "free"
    /\ lock' = "task" /\ GoTo("client")
    /\ UNCHANGED <<now, serverKey, key, link, drops, asked, requests, answers, nonces, disk, ran, forgotten>>
LockTimeout ==
    /\ At("lcu") /\ lock = "ui"
    /\ GoTo("answer")
    /\ UNCHANGED <<now, serverKey, key, link, drops, asked, requests, answers, nonces, lock, disk, ran, forgotten>>

OpenClient ==
    /\ At("client")
    /\ IF disk = "free"
       THEN GoTo("opening") /\ disk' = "lockfile" /\ UNCHANGED lock
       ELSE GoTo("answer") /\ lock' = "free" /\ UNCHANGED disk
    /\ UNCHANGED <<now, serverKey, key, link, drops, asked, requests, answers, nonces, ran, forgotten>>

(* The operation behind the gate ends; its caller may have gone.              *)
Waiting == At("launching") \/ At("opening")

DiskDone ==
    /\ disk # "free"
    /\ disk' = "free"
    /\ IF disk # "lockfile" THEN Carried(disk) ELSE UNCHANGED ran
    /\ \/ ~ Waiting /\ UNCHANGED <<task, lock>>
       \/ At("launching") /\ GoTo("answer") /\ UNCHANGED lock
       \/ At("opening") /\ GoTo("act") /\ UNCHANGED lock
       \/ At("opening") /\ GoTo("answer") /\ lock' = "free"
    /\ UNCHANGED <<now, serverKey, key, link, drops, asked, requests, answers, nonces, forgotten>>

DiskTimeout ==
    /\ Waiting
    /\ GoTo("answer")
    /\ lock' = IF lock = "task" THEN "free" ELSE lock
    /\ UNCHANGED <<now, serverKey, key, link, drops, asked, requests, answers, nonces, disk, ran, forgotten>>

(* execute_action, under the lock: its requests, then its result.             *)
Act ==
    /\ At("act")
    /\ Carried(task.env.nonce)
    /\ GoTo("acting")
    /\ UNCHANGED <<now, serverKey, key, link, drops, asked, requests, answers, nonces, lock, disk, forgotten>>
Acted ==
    /\ At("acting")
    /\ GoTo("answer") /\ lock' = "free"
    /\ UNCHANGED <<now, serverKey, key, link, drops, asked, requests, answers, nonces, disk, ran, forgotten>>

Next ==
    \/ Tick \/ RotateKey \/ KeyExpires
    \/ Open \/ Close \/ \E t \in {"new_device", "trusted"} : Bind(t)
    \/ UiLocks \/ UiUnlocks
    \/ \E e \in Envelopes : Receive(e)
    \/ Answer \/ Authorize \/ Check \/ CommandKey \/ Claim
    \/ Plain \/ Launch \/ TakeLock \/ LockTimeout \/ OpenClient
    \/ DiskDone \/ DiskTimeout \/ Act \/ Acted

Spec == Init /\ [][Next]_vars

-----------------------------------------------------------------------------
Steps == {"none", "authorize", "verify", "key", "plain", "launch", "launching", "lcu", "client",
          "opening", "act", "acting", "answer"}

(* Every variable has its type.                                               *)
TypeOK ==
    /\ now \in 0..MaxTime /\ serverKey \in {1, 2} /\ key \in 0..2
    /\ link \in {"closed", "open", "new_device", "trusted"} /\ drops \in 0..MaxDrops
    /\ asked \subseteq Requests /\ requests \in 0..MaxRequests
    /\ answers \in [Requests -> 0..2]
    /\ task \in [pc : Steps, req : 0..MaxRequests, env : Envelopes,
               trust : {"open", "new_device", "trusted"}, at : 0..MaxTime]
    /\ nonces \subseteq [nonce : Nonces, expires : 0..MaxTime]
    /\ Cardinality(nonces) <= MaxNonces
    /\ lock \in {"free", "task", "ui"}
    /\ disk \in {"free", "lockfile"} \cup Nonces
    /\ ran \in [Nonces -> 0..MaxRequests] /\ forgotten \subseteq Nonces

(* A command is carried out at most once, however often and late the Relay    *)
(* forwards it, over reconnects, timeouts and key rotations: the clock that   *)
(* admitted it is older than the one its nonce is claimed with elsewhere.     *)
(* Only a nonce that had to make room is free again (claim_nonce).            *)
RunsOnce == \A n \in Nonces : n \notin forgotten => ran[n] <= 1

(* On a connection that still stands every request but the one in progress    *)
(* was answered exactly once, and none is answered twice, so that the waiter  *)
(* of the Relay is neither left alone nor answered for another request.       *)
AnsweredOnce ==
    /\ \A r \in Requests : answers[r] <= 1
    /\ link # "closed" => \A r \in asked : answers[r] = 1 <=> task.req # r

(* No command touches the client while the UI holds the lock, and the lock is *)
(* never left behind: a task that is gone does not hold it.                   *)
LockKept == lock = "task" <=> task.pc \in {"client", "opening", "act", "acting"}
===============================================================================
