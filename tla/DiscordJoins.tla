------------------------------ MODULE DiscordJoins ------------------------------
(* "Ask to Join" (discord_presence.rs): a request of a Discord user waits in   *)
(* the agent until the Relay has told the user's Riot ID and the player is in  *)
(* a lobby; the agent then has the League client invite the user. Closing the  *)
(* request at Discord changes nothing in the agent, and a failure to do so is  *)
(* only reported.                                                              *)
EXTENDS Naturals, FiniteSets

CONSTANTS
    Users,      \* Discord users who ask
    RiotIds,    \* Riot IDs the Relay may tell
    None,
    MaxAsks,    \* bound: requests
    MaxAnswers, \* bound: answers of the Relay under way
    MaxLost     \* bound: answers of the League client that are lost

VARIABLES
    lobby,     \* the League client is in the phase "Lobby"
    inbox,     \* join_request_receiver
    lookups,   \* the lookups the Relay is asked for
    answers,   \* join_resolution_receiver: [user, status, id] records
    pending,   \* pending_join_requests
    task,      \* [pc, batch]: the loop of the task and invite_ids
    asks,      \* how many requests there were
    \* history
    taken,     \* requests of a user that entered the map
    invited,   \* invitations the League client sent to a user
    lost       \* ... of which the agent was not told

vars == <<lobby, inbox, lookups, answers, pending, task, asks, taken, invited, lost>>

(* A due time is "never" (none was set), "later" or "now".                    *)
Times == {"never", "later", "now"}
Request == [id : RiotIds \cup {None}, looked : Times, tried : Times, old : BOOLEAN]
Idle == [pc |-> "idle", batch |-> {}]

Init ==
    /\ lobby \in BOOLEAN /\ inbox = {} /\ lookups = {} /\ answers = {}
    /\ pending = [u \in Users |-> None]
    /\ task = Idle /\ asks = 0
    /\ taken = [u \in Users |-> 0]
    /\ invited = [u \in Users |-> 0] /\ lost = [u \in Users |-> 0]

world == <<lobby, asks>>
history == <<taken, invited, lost>>
Waiting(u) == pending[u] # None
Queued == {u \in Users : Waiting(u)}

-----------------------------------------------------------------------------
(* Discord, League, the Relay and the clock.                                  *)

Ask(u) ==
    /\ asks < MaxAsks /\ u \notin inbox
    /\ asks' = asks + 1 /\ inbox' = inbox \cup {u}
    /\ UNCHANGED <<lobby, lookups, answers, pending, task, history>>

PhaseChanges ==
    /\ lobby' = ~ lobby
    /\ UNCHANGED <<asks, inbox, lookups, answers, pending, task, history>>

(* The Relay answers a lookup, or it gets lost on the way.                    *)
RelayAnswers(u, status, id) ==
    /\ u \in lookups /\ lookups' = lookups \ {u}
    /\ (status = "resolved") = (id # None)
    /\ Cardinality(answers) < MaxAnswers
    /\ answers' = answers \cup {[user |-> u, status |-> status, id |-> id]}
    /\ UNCHANGED <<world, inbox, pending, task, history>>
LookupLost(u) ==
    /\ u \in lookups /\ lookups' = lookups \ {u}
    /\ UNCHANGED <<world, inbox, answers, pending, task, history>>

Later(u, r) == pending' = [pending EXCEPT ![u] = r]

TimePasses(u) ==
    /\ Waiting(u)
    /\ \/ pending[u].looked = "later" /\ Later(u, [pending[u] EXCEPT !.looked = "now"])
       \/ pending[u].tried = "later" /\ Later(u, [pending[u] EXCEPT !.tried = "now"])
       \/ ~ pending[u].old /\ Later(u, [pending[u] EXCEPT !.old = TRUE])
    /\ UNCHANGED <<world, inbox, lookups, answers, task, history>>

-----------------------------------------------------------------------------
(* What the task takes in, in the loop or while it waits.                     *)

(* A user who waits already is not queued again; a new one is looked up.      *)
QueueRequest(u) ==
    /\ task.pc = "idle" /\ u \in inbox
    /\ inbox' = inbox \ {u}
    /\ IF Waiting(u) THEN UNCHANGED <<lookups, pending, taken>>
       ELSE /\ pending' = [pending EXCEPT ![u] =
                   [id |-> None, looked |-> "later", tried |-> "never", old |-> FALSE]]
            /\ lookups' = lookups \cup {u}
            /\ taken' = [taken EXCEPT ![u] = @ + 1]
    /\ UNCHANGED <<world, answers, task, invited, lost>>

Forget(users) == pending' = [u \in Users |-> IF u \in users THEN None ELSE pending[u]]

(* An answer for a request that is gone changes nothing; another Riot ID may  *)
(* be invited at once, and an answer without one takes the old one away.      *)
ApplyResolution(a) ==
    /\ task.pc = "idle" /\ a \in answers
    /\ answers' = answers \ {a}
    /\ IF ~ Waiting(a.user) THEN UNCHANGED pending
       ELSE IF a.status = "nickname_missing" THEN Forget({a.user})
       ELSE Later(a.user, [pending[a.user] EXCEPT
                !.id = a.id, !.tried = IF a.id # None THEN "never" ELSE @])
    /\ UNCHANGED <<world, inbox, lookups, task, history>>

RetryLookups ==
    LET due == {u \in Queued : pending[u].id = None /\ pending[u].looked = "now"}
    IN  /\ task.pc = "idle" /\ due # {}
        /\ pending' = [u \in Users |-> IF u \in due THEN [pending[u] EXCEPT !.looked = "later"]
                                       ELSE pending[u]]
        /\ lookups' = lookups \cup due
    /\ UNCHANGED <<world, inbox, answers, task, history>>

-----------------------------------------------------------------------------
(* flush_pending_join_requests.                                               *)

Expired == {u \in Queued : pending[u].old}
InviteDue(u) == pending[u].id # None /\ pending[u].tried # "later"

(* What is too old is forgotten before the invitations are collected.         *)
CollectBefore == {u \in Queued : InviteDue(u)}
Collect == {u \in Queued \ Expired : InviteDue(u)}

Flush ==
    /\ task.pc = "idle" /\ Expired \cup Collect # {}
    /\ Forget(Expired)
    /\ task' = IF Collect = {} THEN Idle ELSE [pc |-> "phase", batch |-> Collect]
    /\ UNCHANGED <<world, inbox, lookups, answers, history>>

(* The client is asked for the phase; without a lobby, or an answer, nothing  *)
(* is sent.                                                                   *)
ReadPhase(answered) ==
    /\ task.pc = "phase"
    /\ task' = IF lobby /\ answered THEN [task EXCEPT !.pc = "invite"] ELSE Idle
    /\ UNCHANGED <<world, inbox, lookups, answers, pending, history>>

Rest(u) == IF task.batch = {u} THEN Idle ELSE [task EXCEPT !.batch = @ \ {u}]

ForgetInvited(u) == Forget({u})
KeepInvited(u) == pending' = [pending EXCEPT ![u].tried = "later"]

(* The invitation is sent and the request done with.                          *)
InviteSent(u) == ForgetInvited(u)

Invite(u) ==
    /\ task.pc = "invite" /\ u \in task.batch
    /\ invited' = [invited EXCEPT ![u] = @ + 1]
    /\ InviteSent(u)
    /\ task' = Rest(u)
    /\ UNCHANGED <<world, inbox, lookups, answers, taken, lost>>

(* It is refused, or the answer to it is lost: another try in 15 seconds.     *)
InviteFails(u, sent) ==
    /\ task.pc = "invite" /\ u \in task.batch
    /\ sent => lost[u] < MaxLost
    /\ lost' = [lost EXCEPT ![u] = IF sent THEN @ + 1 ELSE @]
    /\ invited' = [invited EXCEPT ![u] = IF sent THEN @ + 1 ELSE @]
    /\ Later(u, [pending[u] EXCEPT !.tried = "later"])
    /\ task' = Rest(u)
    /\ UNCHANGED <<world, inbox, lookups, answers, taken>>

Statuses == {"resolved", "nickname_missing", "not_found"}

Next ==
    \/ PhaseChanges
    \/ \E u \in Users :
        \/ Ask(u) \/ LookupLost(u) \/ TimePasses(u) \/ QueueRequest(u)
        \/ \E s \in Statuses, id \in RiotIds \cup {None} : RelayAnswers(u, s, id)
        \/ Invite(u) \/ \E sent \in BOOLEAN : InviteFails(u, sent)
    \/ \E a \in answers : ApplyResolution(a)
    \/ RetryLookups \/ Flush \/ \E answered \in BOOLEAN : ReadPhase(answered)

Spec == Init /\ [][Next]_vars

-----------------------------------------------------------------------------
(* Every variable has its type.                                               *)
TypeOK ==
    /\ lobby \in BOOLEAN /\ asks \in 0..MaxAsks
    /\ inbox \subseteq Users /\ lookups \subseteq Users
    /\ answers \subseteq [user : Users, status : Statuses, id : RiotIds \cup {None}]
    /\ pending \in [Users -> Request \cup {None}]
    /\ task.pc \in {"idle", "phase", "invite"} /\ task.batch \subseteq Users

(* A request is answered by one invitation: further ones are of requests made *)
(* again, or of invitations whose answer the agent never got.                 *)
InvitedOnce == \A u \in Users : invited[u] <= taken[u] + lost[u]

(* A request that is about to be invited is one that still waits, and was not *)
(* given up for its age in the same pass, and its Riot ID is known.           *)
InvitesWaiting ==
    \A u \in task.batch : Waiting(u) /\ pending[u].id # None
===============================================================================
