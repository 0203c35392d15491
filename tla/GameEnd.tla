-------------------------------- MODULE GameEnd --------------------------------
(***************************************************************************)
(* What the agent does when a game ends: the poller of one Relay           *)
(* connection (lcu/events.rs) recovers the result from the League client   *)
(* and asks the Relay whether the replay is wanted; when it is, it has the *)
(* client download the replay, finds the file (lcu/rofl.rs) and hands it   *)
(* to an upload task of the supervisor (relay/supervisor.rs), which sends  *)
(* it to the Relay (relay/app.py) and deletes it afterwards if the agent   *)
(* alone had it downloaded.                                                *)
(*                                                                         *)
(* Games are numbered in the order they start; 0 is no game. A replay file *)
(* is named after its game, and its version (mtime) grows with every       *)
(* write. Timers are choices: a retry is due or not, a grace period over   *)
(* or not. The players of all games are the same, as they are in a series  *)
(* between two teams. A client that is closed and opened is one step: the  *)
(* polls between do no more than the first one after it, forget.           *)
(***************************************************************************)
EXTENDS Naturals, Sequences

CONSTANTS
    MaxGame,    \* bound: games played
    Needed,     \* games whose replay the API wants
    MaxWrites,  \* bound: times a replay file is written
    MaxFaults,  \* bound: disconnects, crashes, client restarts, failed requests
    MaxTasks,   \* bound: tasks of one kind at a time
    BatchCap,   \* capacity of the channel from the poller to the supervisor
    None        \* no phase, no file

ASSUME BoundsAreNats == MaxGame \in Nat /\ MaxWrites \in Nat /\ MaxFaults \in Nat /\ MaxTasks \in Nat
ASSUME NeededAreGames == Needed \subseteq 1..MaxGame
ASSUME BatchCapIsPositive == BatchCap \in Nat \ {0}

Games == 1..MaxGame
GameIds == 0..MaxGame
\* "Lobby" also stands for None, "ChampSelect" for Matchmaking and GameStart,
\* "EndOfGame" for PreEndOfGame and WaitingForStats (is_eog_phase).
Phases == {"Lobby", "ChampSelect", "InProgress", "EndOfGame"}
Versions == 1..MaxWrites

\* A replay file: who had it downloaded ("shared": both at once), its mtime, whether
\* it is all there.
FileStates == [by : {"agent", "user", "shared"}, version : Versions, complete : BOOLEAN]

ASSUME NoneIsNew == None \notin Phases /\ None \notin FileStates

VARIABLES
    phase,       \* gameflow phase of the League client
    game,        \* games started so far, the number of the latest
    client,      \* identity of the running client
    up,          \* the agent has a connection to the Relay, hence a poller
    poller,      \* LcuEventPoller
    checked,     \* answer of the precheck a poll is about to act on, or "no"
    held,        \* the events that poll has so far
    batches,     \* channel from the poller to the supervisor
    preflights,  \* tasks asking the Relay whether a replay is wanted
    uploads,     \* upload tasks
    outbox,      \* results given to the durable outbox
    disk,        \* the replay file of each game
    writes,      \* writes so far, the version of the latest
    downloading, \* games whose replay the client was asked to download
    stored,      \* replays the API has stored: the game they were sent as, file, version
    faults

pollerVars == <<poller, checked, held, batches>>
taskVars == <<preflights, uploads, outbox>>
worldVars == <<phase, game, client>>
fileVars == <<disk, writes>>
vars == <<worldVars, up, pollerVars, taskVars, fileVars, downloading, stored, faults>>

Fault == faults < MaxFaults /\ faults' = faults + 1

Ended(g) == g < game \/ (g = game /\ phase # "InProgress")

-----------------------------------------------------------------------------
(* The poller, field by field: what it remembers of the game that ended.     *)

Pollers == [ident : 0..(MaxFaults + 1), seen : Phases \cup {None}, eogSent : BOOLEAN,
            recovering : BOOLEAN, expected : GameIds, hint : GameIds, roster : BOOLEAN,
            requested : GameIds, resolved : GameIds, authorized : GameIds,
            downloaded : GameIds, owned : GameIds, fileReady : GameIds, sent : GameIds]

Fresh == [ident |-> 0, seen |-> None, eogSent |-> FALSE, recovering |-> FALSE,
          expected |-> 0, hint |-> 0, roster |-> FALSE, requested |-> 0, resolved |-> 0,
          authorized |-> 0, downloaded |-> 0, owned |-> 0, fileReady |-> 0, sent |-> 0]

\* A client that is gone or is another process leaves nothing to remember.
Observe(p) == IF p.ident = client THEN p ELSE [Fresh EXCEPT !.ident = client]

\* A game that starts forgets the one before it; one that ends starts a recovery.
EnterPhase(p) ==
    LET q == IF phase = "InProgress" /\ p.seen # "InProgress"
             THEN [Fresh EXCEPT !.ident = p.ident] ELSE p
    IN  [q EXCEPT !.seen = phase, !.recovering = @ \/ phase = "EndOfGame"]

\* should_attempt_eog_recovery but for its timers.
ShouldAttempt(p) ==
    /\ ~p.eogSent
    /\ phase = "EndOfGame" \/ (phase = "Lobby" /\ p.recovering /\ p.expected # 0)

(* What the client may answer about a game that is over: its stats block, of  *)
(* this game or still of the one before, complete or not, the game of its     *)
(* session, and the latest game of its history. 0 is an error.                *)
Answers ==
    LET over == {g \in {game - 1, game} \cap Games : Ended(g)}
    IN  [block : over \cup {0}, full : BOOLEAN, session : {0, game}, recent : over \cup {0}]

PayloadGame(p, a) ==
    IF a.block # 0 THEN a.block ELSE IF p.expected # 0 THEN p.expected ELSE a.session

Awaited(p, a) == IF p.expected # 0 THEN p.expected ELSE PayloadGame(p, a)

\* Fault for a mutant: a result in the history counts, whatever its game.
EvidenceOfAnyMatch(p, a) ==
    IF a.block # 0 /\ a.full /\ a.block = Awaited(p, a) THEN a.block ELSE a.recent

\* eog_result_evidence_source: the game the answers prove a result of, 0 if none.
Evidence(p, a) ==
    IF a.block # 0 /\ a.full /\ a.block = Awaited(p, a) THEN a.block
    ELSE IF a.recent = Awaited(p, a) THEN a.recent ELSE 0

EogAttempt(p, a) ==
    LET id == PayloadGame(p, a)
        isNew == id # 0 /\ p.resolved # id /\ p.hint # id
        q == [p EXCEPT !.expected = IF @ = 0 THEN id ELSE @, !.eogSent = Evidence(p, a) # 0]
    IN  IF isNew
        THEN [q EXCEPT !.hint = id, !.roster = a.block # 0 /\ a.full, !.requested = 0,
                       !.resolved = 0, !.authorized = 0, !.downloaded = 0, !.owned = 0,
                       !.fileReady = 0]
        ELSE q

ResultEvents(p, a) ==
    IF Evidence(p, a) = 0 THEN {}
    ELSE {[kind |-> "result", game |-> Evidence(p, a)]}

\* What a poll makes of the recovery, an attempt being due or not.
Recoveries(p) ==
    {<<p, {}>>} \cup
    IF ShouldAttempt(p) THEN {<<EogAttempt(p, a), ResultEvents(p, a)>> : a \in Answers} ELSE {}

\* The recovery ends when its grace period does, or when another game begins.
EndRecovery(p, old) ==
    IF ~p.eogSent /\ p.recovering /\ (old \/ phase = "ChampSelect")
    THEN [p EXCEPT !.recovering = FALSE, !.expected = 0] ELSE p

-----------------------------------------------------------------------------
(* Finding the replay.                                                       *)

OnDisk(g) == disk[g] # None

\* find_existing_replay_path: a file that bears the game's id, complete or not.
Precheck(g) == (IF OnDisk(g) THEN {"existing"} ELSE {"clear"}) \cup {"unsure"}

\* find_matching_replay: the file with the game's id, else one with its players, of
\* which only the recent ones count; Collect may find none, so time is left out.
Matching(p) ==
    IF OnDisk(p.hint) THEN {p.hint}
    ELSE IF p.roster THEN {f \in Games : OnDisk(f) /\ disk[f].complete} ELSE {}

\* collect_replay_file, then collect_replay_bundle once the file was handed over.
Collect(p) ==
    LET found == {f \in Matching(p) : disk[f].complete}
        ready(f) == [kind |-> "ready", game |-> p.hint, file |-> f, version |-> disk[f].version,
                     delete |-> p.owned = p.hint]
    IN  {<<p, {}>>} \cup
        IF p.fileReady # p.hint
        THEN {<<[p EXCEPT !.fileReady = p.hint], {ready(f)}>> : f \in found}
        ELSE {<<[p EXCEPT !.sent = p.hint], {}>> : f \in found}

GiveUp(p) ==
    [p EXCEPT !.hint = 0, !.roster = FALSE, !.requested = 0, !.authorized = 0,
              !.fileReady = 0, !.downloaded = 0, !.owned = 0]

\* The replay is given up when its grace period is over.
Expire(p, old) == IF old /\ p.hint # 0 /\ p.sent # p.hint THEN GiveUp(p) ELSE p

\* The outcomes of a poll's replay stage up to the request for a download:
\* the poller, the events, and what is left to act on.
ReplayStage(p) ==
    IF p.hint = 0 \/ p.sent = p.hint THEN {<<p, {}, "no">>}
    ELSE IF p.authorized # p.hint
    THEN IF p.requested = p.hint THEN {<<p, {}, "no">>}
         ELSE {<<[p EXCEPT !.requested = p.hint], {[kind |-> "candidate", game |-> p.hint]}, "no">>}
    ELSE IF p.downloaded = p.hint THEN {<<o[1], o[2], "no">> : o \in Collect(p)}
    ELSE UNION {IF c = "existing"
                THEN {<<o[1], o[2], "no">> :
                        o \in Collect([p EXCEPT !.downloaded = p.hint, !.owned = 0])}
                ELSE {<<p, {}, c>>} : c \in Precheck(p.hint)}

\* Fault for a mutant: a precheck without an answer counts as none found.
OwnedAlways(c, g) == g

\* The download was accepted: whose file it is, hence whether it may be deleted.
Owned(c, g) == IF c = "clear" THEN g ELSE 0

\* A worker that waits for room does nothing else: its batch counts as sent.
Send(events) == batches' = IF events = {} THEN batches ELSE Append(batches, events)

\* Fault for a mutant: the channel has no capacity.
RoomAlways == TRUE

Room == Len(batches) < BatchCap

-----------------------------------------------------------------------------
(* The worker of the poller.                                                 *)

\* A poll, up to the request for a download.
Poll ==
    /\ up /\ checked = "no" /\ Room
    /\ \E r \in Recoveries(EnterPhase(Observe(poller))), eogOld, replayOld \in BOOLEAN :
       \E o \in ReplayStage(EndRecovery(r[1], eogOld)) :
         /\ checked' = o[3]
         /\ IF o[3] = "no"
            THEN /\ poller' = Expire(o[1], replayOld)
                 /\ Send(r[2] \cup o[2])
                 /\ held' = {}
            ELSE /\ poller' = o[1]
                 /\ held' = r[2]
                 /\ UNCHANGED batches
    /\ UNCHANGED <<worldVars, up, taskVars, fileVars, downloading, stored, faults>>

\* The rest of that poll: the client is asked for the replay, or the request
\* fails, and the file is looked for.
RequestDownload ==
    /\ checked # "no"
    /\ \E accepted, replayOld \in BOOLEAN :
         LET g == poller.hint
             p == IF accepted
                  THEN [poller EXCEPT !.downloaded = g, !.owned = Owned(checked, g)] ELSE poller
         IN  /\ accepted => client = poller.ident
             /\ downloading' = IF accepted THEN downloading \cup {g} ELSE downloading
             /\ \E o \in Collect(p) :
                  /\ poller' = Expire(o[1], replayOld)
                  /\ Send(held \cup o[2])
    /\ checked' = "no" /\ held' = {}
    /\ UNCHANGED <<worldVars, up, taskVars, fileVars, stored, faults>>

\* Fault for a mutant: a failed check is not repeated.
NotRepeated(p, g, answer) ==
    IF answer = "retry" \/ p.hint # g THEN p
    ELSE IF answer = "yes" THEN [p EXCEPT !.resolved = g, !.authorized = g]
    ELSE [GiveUp(p) EXCEPT !.resolved = g]

\* Fault for a mutant: an answer counts for whatever replay is awaited.
DecidedForCurrent(p, g, answer) ==
    CASE answer = "yes" -> [p EXCEPT !.resolved = p.hint, !.authorized = p.hint]
      [] answer = "no" -> [GiveUp(p) EXCEPT !.resolved = g]
      [] OTHER -> [p EXCEPT !.requested = 0]

\* set_rofl_upload_decision and retry_rofl_upload_check.
Decided(p, g, answer) ==
    IF p.hint # g THEN p
    ELSE CASE answer = "yes" -> [p EXCEPT !.resolved = g, !.authorized = g]
           [] answer = "no" -> [GiveUp(p) EXCEPT !.resolved = g]
           [] OTHER -> IF p.authorized = g THEN p ELSE [p EXCEPT !.requested = 0]

\* The worker takes an answer; the poll that follows is a step of its own.
TakeDecision(t) ==
    /\ up /\ checked = "no" /\ Room
    /\ t.answer # "asking"
    /\ preflights' = preflights \ {t}
    /\ poller' = Decided(poller, t.game, t.answer)
    /\ UNCHANGED <<worldVars, up, checked, held, batches, uploads, outbox, fileVars, downloading,
                   stored, faults>>

-----------------------------------------------------------------------------
(* The supervisor and its tasks.                                             *)

FreeIds(tasks) == {n \in 1..MaxTasks : \A t \in tasks : t.id # n}
NewId(tasks) == CHOOSE n \in FreeIds(tasks) : TRUE

\* replay_upload_request: only a file that bears the game's id may be deleted.
UploadTask(e) ==
    [id |-> NewId(uploads), game |-> e.game, file |-> e.file, version |-> e.version,
     delete |-> e.delete /\ e.file = e.game, state |-> "sending", asOf |-> 0]

\* The supervisor handles a batch: at most one event of each kind.
Deliver ==
    /\ up /\ batches # <<>>
    /\ LET of(kind) == {e \in Head(batches) : e.kind = kind}
       IN  /\ of("candidate") # {} => FreeIds(preflights) # {}
           /\ of("ready") # {} => FreeIds(uploads) # {}
           /\ outbox' = outbox \cup of("result")
           /\ preflights' = preflights \cup
                {[id |-> NewId(preflights), game |-> e.game, answer |-> "asking"] :
                   e \in of("candidate")}
           /\ uploads' = uploads \cup {UploadTask(e) : e \in of("ready")}
    /\ batches' = Tail(batches)
    /\ UNCHANGED <<worldVars, up, poller, checked, held, fileVars, downloading, stored, faults>>

\* The Relay tells the task whether the replay is wanted. It answers no as well
\* when the API does not answer it; "retry" is what the task makes of an error.
Preflight(t) ==
    /\ t.answer = "asking"
    /\ \E answer \in {"yes", "no", "retry"} :
         /\ answer = "yes" => t.game \in Needed
         /\ IF answer = "yes" \/ (answer = "no" /\ t.game \notin Needed)
            THEN UNCHANGED faults ELSE Fault
         /\ preflights' = (preflights \ {t}) \cup {[t EXCEPT !.answer = answer]}
    /\ UNCHANGED <<worldVars, up, pollerVars, uploads, outbox, fileVars, downloading, stored>>

\* upload_replay_file: the file is sent as it is now if it is still whole.
Upload(t) ==
    /\ t.state = "sending"
    /\ OnDisk(t.file) /\ disk[t.file].complete
    /\ t.game \in Needed
    /\ stored' = stored \cup {[game |-> t.game, file |-> t.file, version |-> disk[t.file].version]}
    /\ uploads' = (uploads \ {t}) \cup
                    (IF t.delete THEN {[t EXCEPT !.state = "watching"]} ELSE {})
    /\ UNCHANGED <<worldVars, up, pollerVars, preflights, outbox, fileVars, downloading, faults>>

\* The file is gone or changed, the replay is not wanted (409), or all attempts fail.
UploadEnds(t) ==
    /\ t.state = "sending"
    /\ IF t.game \notin Needed \/ ~OnDisk(t.file) \/ disk[t.file].version # t.version
       THEN UNCHANGED faults ELSE Fault
    /\ uploads' = uploads \ {t}
    /\ UNCHANGED <<worldVars, up, pollerVars, preflights, outbox, fileVars, downloading,
                   stored>>

\* Fault for a mutant: the name of the file is enough.
DeletableByName(t) == OnDisk(t.file) /\ disk[t.file].complete

\* delete_uploaded_auto_replay after its delay: the file must be the one uploaded.
Deletable(t) == OnDisk(t.file) /\ disk[t.file].complete /\ disk[t.file].version = t.version

\* It awaits the file's metadata, and has found what it looks for; asOf, which the
\* code has no word for, is the latest write so far.
CheckUploaded(t) ==
    /\ t.state = "watching"
    /\ Deletable(t)
    /\ uploads' = (uploads \ {t}) \cup {[t EXCEPT !.state = "deleting", !.asOf = writes]}
    /\ UNCHANGED <<worldVars, up, pollerVars, preflights, outbox, fileVars, downloading, stored,
                   faults>>

\* It then awaits the removal of whatever bears that name by now.
DeleteUploaded(t) ==
    /\ t.state = "deleting"
    /\ disk' = [disk EXCEPT ![t.file] = None]
    /\ uploads' = uploads \ {t}
    /\ UNCHANGED <<worldVars, up, pollerVars, preflights, outbox, writes, downloading, stored,
                   faults>>

\* The file is not the one uploaded, or was opened, or the client shows a replay,
\* or a game process has started, or the removal fails: it stays.
KeepUploaded(t) ==
    /\ t.state \in {"watching", "deleting"}
    /\ uploads' = uploads \ {t}
    /\ UNCHANGED <<worldVars, up, pollerVars, preflights, outbox, fileVars, downloading,
                   stored, faults>>

\* The connection to the Relay ends, and with it the poller, its channel and
\* whoever waits for an answer; uploads go on.
Disconnect ==
    /\ up /\ Fault
    /\ up' = FALSE
    /\ poller' = Fresh /\ checked' = "no" /\ held' = {} /\ batches' = <<>>
    /\ preflights' = {}
    /\ UNCHANGED <<worldVars, uploads, outbox, fileVars, downloading, stored>>

\* The agent is killed: uploads stop too.
Crash ==
    /\ Fault
    /\ up' = FALSE
    /\ poller' = Fresh /\ checked' = "no" /\ held' = {} /\ batches' = <<>>
    /\ preflights' = {} /\ uploads' = {}
    /\ UNCHANGED <<worldVars, outbox, fileVars, downloading, stored>>

Connect ==
    /\ ~up /\ up' = TRUE
    /\ UNCHANGED <<worldVars, pollerVars, taskVars, fileVars, downloading, stored,
                   faults>>

-----------------------------------------------------------------------------
(* The League client, the player and the file system.                        *)

Follows(a, b) ==
    \/ a = "Lobby" /\ b = "ChampSelect"
    \/ a = "ChampSelect" /\ b \in {"Lobby", "InProgress"}
    \/ a = "InProgress" /\ b = "EndOfGame"
    \/ a = "EndOfGame" /\ b = "Lobby"

ChangePhase(next) ==
    /\ Follows(phase, next)
    /\ phase' = next
    /\ game' = IF next = "InProgress" THEN game + 1 ELSE game
    /\ game' \in GameIds
    /\ UNCHANGED <<client, up, pollerVars, taskVars, fileVars, downloading, stored,
                   faults>>

\* The client is closed, which ends its downloads, and opened as another process.
RestartClient ==
    /\ Fault
    /\ client' = client + 1
    /\ downloading' = {}
    /\ UNCHANGED <<phase, game, up, pollerVars, taskVars, fileVars, stored>>

\* A file is written, as the next version.
Write(f, by, complete) ==
    /\ writes < MaxWrites /\ writes' = writes + 1
    /\ disk' = [disk EXCEPT ![f] = [by |-> by, version |-> writes', complete |-> complete]]
    /\ UNCHANGED <<worldVars, up, pollerVars, taskVars, stored, faults>>

\* A download of the agent's: the file appears, and is complete later.
StartDownload(g) ==
    /\ g \in downloading /\ ~OnDisk(g)
    /\ Write(g, "agent", FALSE)
    /\ UNCHANGED downloading

FinishDownload(g) ==
    /\ g \in downloading
    /\ OnDisk(g) /\ ~disk[g].complete
    /\ disk' = [disk EXCEPT ![g].complete = TRUE]
    /\ downloading' = downloading \ {g}
    /\ UNCHANGED <<worldVars, up, pollerVars, taskVars, writes, stored, faults>>

\* Whose file a download of the player's is: while the agent, having found none,
\* has its own under way, nothing tells the two apart.
By(g) ==
    IF up /\ poller.fileReady # g /\ (poller.owned = g \/ (checked = "clear" /\ poller.hint = g))
    THEN "shared" ELSE "user"

\* The player downloads a replay, anew if the file is there.
UserDownload(g) ==
    /\ Ended(g) /\ g \in Games
    /\ Write(g, By(g), TRUE)
    /\ UNCHANGED downloading

-----------------------------------------------------------------------------
Init ==
    /\ phase = "Lobby" /\ game = 0 /\ client = 1
    /\ up = TRUE
    /\ poller = Fresh /\ checked = "no" /\ held = {} /\ batches = <<>>
    /\ preflights = {} /\ uploads = {} /\ outbox = {}
    /\ disk = [g \in Games |-> None] /\ writes = 0
    /\ downloading = {}
    /\ stored = {}
    /\ faults = 0

Agent ==
    \/ Poll \/ RequestDownload \/ Deliver
    \/ Disconnect \/ Crash \/ Connect
    \/ \E t \in preflights : TakeDecision(t) \/ Preflight(t)
    \/ \E t \in uploads : Upload(t) \/ UploadEnds(t)
    \/ \E t \in uploads : CheckUploaded(t) \/ DeleteUploaded(t) \/ KeepUploaded(t)

World ==
    \/ \E next \in Phases : ChangePhase(next)
    \/ RestartClient
    \/ \E g \in Games : StartDownload(g) \/ FinishDownload(g) \/ UserDownload(g)

Next == Agent \/ World

Spec == Init /\ [][Next]_vars

-----------------------------------------------------------------------------
Results == [kind : {"result"}, game : Games]
Events ==
    Results \cup [kind : {"candidate"}, game : Games] \cup
    [kind : {"ready"}, game : Games, file : Games, version : Versions, delete : BOOLEAN]
PreflightTasks == [id : 1..MaxTasks, game : Games, answer : {"asking", "yes", "no", "retry"}]
UploadTasks == [id : 1..MaxTasks, game : Games, file : Games, version : Versions, delete : BOOLEAN,
                state : {"sending", "watching", "deleting"}, asOf : 0..MaxWrites]

(* Types: the poller remembers only games that exist, and the supervisor is   *)
(* never more than a channel's capacity of batches behind.                    *)
TypeOK ==
    /\ phase \in Phases /\ game \in GameIds /\ client \in 1..(MaxFaults + 1)
    /\ up \in BOOLEAN
    /\ poller \in Pollers /\ checked \in {"no", "clear", "unsure"} /\ held \subseteq Events
    /\ batches \in Seq(SUBSET Events) /\ Len(batches) <= BatchCap
    /\ preflights \subseteq PreflightTasks /\ uploads \subseteq UploadTasks
    /\ outbox \subseteq Results
    /\ disk \in [Games -> FileStates \cup {None}] /\ writes \in 0..MaxWrites
    /\ downloading \subseteq Games
    /\ stored \subseteq [game : Games, file : Games, version : Versions]
    /\ faults \in 0..MaxFaults

Pending == held \cup UNION {batches[i] : i \in DOMAIN batches}

(* A recovery that counts as done has a result of the game it was for, in the *)
(* durable outbox or on its way there, even when the client answered with     *)
(* stats or a history of another game.                                        *)
DoneMeansReported ==
    poller.eogSent => \E e \in outbox \cup Pending : e.kind = "result" /\ e.game = poller.expected

(* The client downloads a replay on the agent's behalf only if the API wants  *)
(* the replay of this very game, however late an answer about an earlier one  *)
(* arrives.                                                                  *)
DownloadsAreWanted ==
    downloading \cup {g \in Games : OnDisk(g) /\ disk[g].by = "agent"} \subseteq Needed

Deletes(g) == disk[g] # None /\ disk'[g] = None

\* The file was written while a deletion was between its check and its removal,
\* two awaits apart.
WrittenSinceTheCheck(g) ==
    \E t \in uploads \ uploads' :
        t.state = "deleting" /\ t.file = g /\ disk[g].version > t.asOf

(* A replay the player downloaded is not deleted: neither one that was there  *)
(* before the agent's download, nor one that took the place of the agent's,   *)
(* over reconnections and uploads that outlive their connection. The code     *)
(* cannot keep one that is written after the deletion has checked the file    *)
(* and before it removes it; nothing else is excepted.                        *)
PlayersFilesStay ==
    [][\A g \in Games : Deletes(g) /\ disk[g].by = "user" => WrittenSinceTheCheck(g)]_vars

(* What is deleted is stored: the very version, sent as its own game; but for *)
(* what is written between the check and the removal, as above.               *)
DeletedIsStored ==
    [][\A g \in Games : Deletes(g) =>
         \/ [game |-> g, file |-> g, version |-> disk[g].version] \in stored
         \/ WrittenSinceTheCheck(g)]_vars

(* A poller that waits to be told whether its replay is wanted will be: its   *)
(* question is on its way, or a task has it.                                  *)
QuestionsAreAnswered ==
    (up /\ poller.hint # 0 /\ poller.requested = poller.hint
        /\ poller.authorized # poller.hint /\ poller.sent # poller.hint)
    => \/ \E e \in Pending : e.kind = "candidate" /\ e.game = poller.hint
       \/ \E t \in preflights : t.game = poller.hint

(* What find_matching_replay is for: a replay is sent as the one of its own   *)
(* game. The code breaks this when an earlier game had the same players.      *)
SentAsItsGame == \A s \in stored : s.game = s.file
================================================================================
