# A verification development of YummiLCU

YummiLCU connects a running League of Legends client to a Discord bot and a
tournament API. It has an **agent** on the player's PC (Tauri, Rust:
`src/agent-tauri/src-tauri/src`), a **Relay** in the cloud (FastAPI, one asyncio
event loop: `src/relay`), a Game Bar widget (C#), a React interface, and two
services outside this repository: the **bot** and the **guild-match API**. The
specifications here model the parts where several of these run against each
other, TLC checks them on small instances, and TLAPS proves the main safety
properties for all values of the constants.

Paths below are relative to `src/`; `S` stands for
`agent-tauri/src-tauri/src/relay/supervisor.rs`.

## 1. Inventory

| Part | State it keeps | Operations | What is hard | What makes it correct |
| --- | --- | --- | --- | --- |
| Connection registry and agent handler (`relay/connections.py`, `relay/app.py` `ws_agent`) | tables session/socket/user, caches per user, futures of commands, participant status | attach, bind (socket, HTTP, OAuth), unregister, hello, command, result | handlers of a replaced and a new socket overlap; binds take several awaits; `id(ws)` is reused | tables agree; caches and commands belong to the present connection; no late cleanup hits the successor |
| Durable events (`S` `DurableReplayBuffer`, `relay/app.py` handlers of `match_eog`, `guild_match_eog`) | replay buffer, bot futures, API and archive | track, replay, ingest, forward to the bot, ACK | ACK loss, replays on two connections, bot answer against timeout, restarts | no ACK before storage; at-least-once; no endless replay |
| Live-game deltas (`lcu/events.rs`, `S`, `relay/app.py` `live_game_update`) | stream id and seq, buffer, stored base per stream, API block | full/delta frame, resend, resync, commit | gaps, duplicates, stale base across an await, two bounded channels waiting for each other | only captured states are rebuilt; no holes; convergence |
| Relay supervisor (`S` `RelaySupervisor`, `app.rs` watchdog, `commands/`) | generation, desired, JoinHandle, stop channel, state | start, stop, restart, revive, displace, finish | control unlocked between the halves of a start or stop; hung tasks | one task under control; no lost task; wanted means running |
| Heartbeat (`S` 1843-1990, `ws_agent` ping) | time of the unanswered ping, last activity | ping, pong, timeout, give up | the flag is set after the send; each side has its own deadline; a handler that is busy; sleep | no alarm for an answer in time; only a cut-off agent is given up; a dead link is noticed |
| Live journal on disk (`S` 537-703, `blocking_io.rs`) | file, temporary file, gate, pending events | load, write, sync, remove, rename | crash between two file operations; a write that goes on after its caller gave up | what was promised is pending again after a restart |
| Signed commands (`S`, `command_auth.rs`, `blocking_io.rs`) | nonces, key, client lock, disk gate | verify, claim, run, answer | expiry between check and use, a full cache, a task that outlives its caller | at most once; one answer each |
| Bot socket and subscriptions (`relay/app.py`, `connections.py`) | bot socket, watchers, grace timers | register, subscribe, forward | bot reconnect against forwards | every watcher served or told |
| Session credentials, OAuth (`relay/app.py`, `session/mod.rs`, `commands/agent.rs`) | session file, pin, refresh records and their mapping | issue, rotate, store, restore, revoke, log out | two handlers issue for one session; a connection or a write lost between issue and delivery | one record per session; a device told "bound" holds the current token; a pinned account stays |
| Tournament broadcast, EOG/ROFL ingest | queue of 64, workers | enqueue, drop, retry | full queue | bounded, in order per user |
| LCU client, event stream and poller (`lcu/`) | what is remembered of the game that ended, fingerprints, snapshots, event socket | poll, nudge, recover the result, ask for a download | a client that still shows the game before; answers that come late; nudges dropped by a full channel; a client that changes during a poll | a recovery that is done has reported its own game; the Bot learns what the client shows; a client that is gone is told |
| Replay collection (`lcu/events.rs`, `lcu/rofl.rs`, `S`, `relay/app.py`) | question, permission, owner and version of the file, upload tasks | ask the Relay, download, find, upload, delete | download against the player's own, rewritten files, uploads that outlive their connection | only wanted replays; nothing of the player's is deleted, nothing that is not stored |
| Game Bar bridge: mouse (`gamebar_bridge.rs`) | rectangles, block flag, shield, counted clicks | hook, poll, sync, shield | three threads; events the hook misses; a press whose release falls into another state | the application below gets the release of each press it got; a click counts for its own gesture |
| Game Bar bridge: snapshots (`gamebar_bridge.rs`, `state.rs`) | one snapshot and its watch channel | collect, push, clear, send | a collected snapshot written over one that was pushed into meanwhile | nothing pushed is lost; a waiting widget shows the newest |
| Overlay updates (`gamebar_bridge.rs`, `Update-YummiGameBar.ps1`) | installed package, staged ZIP, `state.json` | check, stage, apply, install, finalize | the script outlives the agent; answers of a CDN of another age | only what was asked for; never an older release |
| Overlay toggles (`commands/overlay.rs`, `gamebar_bridge.rs`) | preference, generation, Game Bar's own state | save, apply job, probe, enforce | slow traversals of the toolbar against a newer setting | the last setting wins |
| Recorder (`recording.rs`, `app.rs`, `commands/`) | current recording, automatic flag, game, watcher | start, stop, switch, watch | a stop leaves the mutex while the capture ends | the user's recordings are left alone; the switch leaves none of its own |
| Clip buffer (`recording.rs`) | ring of segments, protected set, export | write, prune, reserve, render | export reads what the ring prunes | files of an export stay; the disk stays bounded |
| Live SFU (`live_sfu.rs`, `recording.rs`) | lease, generation, publisher, capture | enable, renew, disable, publish | two threads start and stop one capture | no capture without a publisher or after the lease |
| Updater (`updater.rs`, `commands/update.rs`) | manifest, installed identity, script | check, gate, download, run, roll back | two checks, a script that outlives the agent, a copy that fails | identity file fits the build; no reinstall; never an older release over a newer |
| Main window (`tray.rs`, `commands/window.rs`) | window, hide id, watchdog, motion generation, sizes | open, hide, drag, throw, stabilize | watchdogs and physics threads that are late | a reopened window stays; a stopped motion does not come back; the kept size is the user's |
| Discord activity (`discord_presence.rs`) | client thread, READY flag, last activity | detect, ensure, send, retry | Discord quits and starts under it; the flag outlives a client | Discord shows what was published last or nothing |
| Discord joins (`discord_presence.rs`) | requests, lookups, queue | ask, resolve, retry, invite | answers late or lost; requests that ran out | one invitation per request, while it waits |
| Redis journals, configuration, React UI, installer, assets, vendored code | - | - | append-only, lookups, views | left aside |

`PROJECT.json` lists every component with its status, and under `hazards` what in
this code is hard to test, line by line, with the properties that cover it, or a note why none does.

The parts interact as follows. The supervisor task owns one connection to the
Relay, the poller worker and the replay buffer. Its messages reach the Relay's
handler coroutine of that socket, which routes by the registry (socket to
Discord id), calls the API, forwards to the bot, and answers with ACKs and
requests. HTTP requests of the browser login and of the bot reach the same
registry. A lost connection is noticed by each side on its own, so handlers of
two connections of one agent run at the same time: most of the hazards come from
this.

## 2. Plan

Order, most important behaviour first; finished ones are marked.

1. `RelayConnections`, `RelayConnectionsProofs` (done).
2. `AtLeastOnce` (abstract), `DurableEvents` (implements it),
   `DurableEventsProofs` (done).
3. `LiveDelta`, `LiveDeltaProofs` (done).
4. `RelaySupervisor`, `RelaySupervisorProofs` (done).
5. `GameEnd`, `GameEndProofs` (done).
6. `SessionCredentials`, `LiveJournal`, `Heartbeat`, `Commands`, `LcuSnapshots`,
   composed by `MCAgentLink`; `AgentLinkProofs` (done).
7. `Recording`, `ClipBuffer`, `LiveSfu`, `Updater`, `MainWindow`, composed by
   `MCAgentMedia`; `AgentMediaProofs` (done).
8. `GameBarInput`, `GameBarSnapshots`, `OverlayUpdate`, `OverlayControls`,
   `DiscordActivity`, `DiscordJoins`, composed by `MCAgentDesktop`;
   `AgentDesktopProofs` (done).
9. The tournament queue and the subscriptions of the bot.

The modules of 6 to 8 describe components that share no state with each other; each
of the three MC modules has a variable `part` that `Init` chooses and no step
changes, takes the steps of this part's module, and keeps the variables of the
others at a constant. One run then explores each of its parts in full. What the code
compares but a bound cannot say - the envelopes anyone may sign (`Envelopes` of
`MCAgentLink`), the releases a server may publish and an installer may carry
(`Targets` and `Shipped` of `MCAgentMedia`), what the player may be seen doing
(`Snapshots` of `MCAgentDesktop`) - is a constant of the MC module; the run gives it a
small set (`SignedEnvelopes`, `MCTargets`, `MCShipped`, `MCSnapshots`), the proofs leave
it open.

`Filtering` holds what `retain` and `filter` do to a list, for `LiveDelta` and
`GameBarSnapshots`: `Kept(b, S)`, a recursive function over the prefixes of `b`, and so
within reach of the proofs, where a recursive operator is not.

## 3. The modules and the code

**RelayConnections** - asyncio switches coroutines only at an await that
suspends, and no critical section of `ConnectionManager` suspends; each is one
action, and everything between two suspensions of a coroutine is one action of
this coroutine. `pc` says where a handler is: between `attach_session` and the
try statement (no finally clause), in a bind, in the receive loop. Sockets are
named by `id(ws)`; `Collect` lets Python free an object nothing refers to, and
`Attach` takes the id again. `CacheWithout`, `ByUserWithout` and so on are the
guarded pops of `_drop_ws_locked`; `AcceptBind`/`RejectBind` the two outcomes of
`bind_discord`. Caches carry the socket that wrote them instead of a payload.

**DurableEvents** - the agent's buffer, connection and replays (`Event`, `Tick`,
`AckReceived`, `Disconnect`, `AgentRestart`), one handler per connection whose
`phase` is the await it is in (Redis, API, bot, archive), the table `_pending_bot_eog`
(`entry`, with `fut` the state of each future), and the bot. `Receive` is the check of
the route, `Register` what comes after the awaits of Redis: the entry and the future.
Left out are live frames, which share the replay buffer with these events and can fill
it, so that an event is dropped earlier than here, and events too large to be sent. `BotTimeout` may
also happen when the answer is there: `wait_for` loses an answer that arrives in
the loop iteration of the timeout. **AtLeastOnce** is what the agent promises;
`pending <- Buffered` is the refinement mapping, `stored` and `lost` are
variables of both.

**LiveDelta** - a frame is a pair of stream and seq and stands for the state
captured with it; a delta applied to anything but its predecessor yields `Torn`.
`stream`, `seq` are `live_stream_id`, `live_seq` of the poller; `batches`,
`resyncs` the two channels; `stuck` the supervisor awaiting room in the second.
`Status` is `_prepare_live_game_frame`; between `Receive` and `Commit` the
handler awaits the API. `server_hello`/`session_bound` are part of `Connect`, and
saving the journal always succeeds at once.

**RelaySupervisor** - the two locked sections of `start_impl` are
`StartExplicit`/`StartIfDesired` and `Install`, with `Spawn` between them; `stop`
is `Stop`, `StopTimeout`, `Stopped`; `hard_revive_if_unhealthy` and
`restart_if_stale` are `Revive`. `at` is where each spawned task is: its
connection state, or ending, finished (control given back), done. `told` are
tasks whose stop channel was signalled or dropped, which wakes the receiver as
well. Elapsed times (90 s, 45 s, cooldown 60 s) are abstracted to "may happen".

**GameEnd** - `poller` is the part of `LcuEventPoller` that concerns a game that
ended. `Poll` is `poll` from the fingerprint of the client (`Observe`) through the
phase edge (`EnterPhase`), the recovery of the result (`EogAttempt`, whose `Answers`
are what the client may show, `Evidence` being `eog_result_evidence_source`) to the
replay stage (`ReplayStage`); a poll that asks the client for a download continues
in `RequestDownload`, since the client and the player go on between the precheck and
the answer. `Collect` is the search for the file and its handing over. `Deliver` is
the supervisor's handling of a batch, `Preflight` and `Upload`, `UploadEnds`,
`CheckUploaded`, `DeleteUploaded`, `KeepUploaded` the tasks it spawns, `TakeDecision` the worker's
taking of an answer. The deletion awaits the file's metadata (`CheckUploaded`, `S` 3608)
and then the removal (`DeleteUploaded`, 3652), and the player or the client may write the
file in between: the code then deletes what it has not looked at. `PlayersFilesStay` and
`DeletedIsStored` except exactly such a file (`WrittenSinceTheCheck`, told by the number
of the latest write at the check). Abstractions: timers (retry, grace period, deletion delay) are
choices; phases that no condition tells apart are one; there is one file name per
game, a version stands for its mtime and size; whatever makes the deletion task
leave a file alone (it was opened, a replay is shown, a game process runs) is
`KeepUploaded`, always possible; while a download of the agent's is under way, one of
the player's of the same replay is `"shared"`, because nothing in the system tells
them apart; all games have the same players, and a replay is never too old to be taken
for its players (the limit of half an hour in `rofl.rs` 359-365 only narrows what
`Matching` may choose from). The archive events of the end of game
and the poll's live-game, lobby and champion-select parts are left out.

**SessionCredentials** - `file`, `mem` are the session on disk and the one the
supervisor runs with, `bound` what this connection was told; `records` and `mapping`
are the Relay's refresh records and the token each session is mapped to. A handler
(of the WebSocket, of the callback) is at the await its `pc` names: `Trust`,
`Ensure`, `Replace`, `Record`, `Map`, `Bind` are the segments of `app.py` between
two awaits of Redis. Tokens are numbers, an account is what the OAuth exchange ends
with. `clash` is a history of what the code does not order: two handlers worked on
one session at once, or (`"moved"`) a handler that found its session's token current
binds the socket of a later connection. The agent presents the token of its file when
it connects; when saving a new one failed twice and the agent then restarts from the
older file, that handler tells the new socket "bound" without giving it a token
(`app.py` 761-771, `bind_discord`), so `BoundHoldsCurrent` claims nothing then.

**LiveJournal** - the steps of `write_live_pending` (`Create`, `Sync`, `RemoveOld`,
`Rename`) run behind the gate, also after `WriteTimesOut` let the loop go on;
`Crash` may come before each of them, and leaves a partly written file where the
code had not synchronised it. `Load` is `load_from_path` with its choice among the
temporary files.

**Heartbeat** - the only module with a clock: a tick is five seconds, `pings` and
`pongs` are queues of ages. `Due` and `Note` are the two halves of sending; `Handle`
the Relay's handler between two messages, which may be held up for `MaxHold` ticks;
`Noticed` bounds the silence of a link that is dead by `Interval + Timeout`;
`PassAsleep` is time on a computer that sleeps. `Pass` has as guards the deadlines
the timers of the code enforce.

**Commands** - one command at a time goes through `Receive`, `Check`, `Claim`
(nonce) and its kind's steps to `Answer`; `command` is where it is. An operation of
the disk holds the gate until `DiskDone`, also after `DiskTimeout` or a lost
connection; an attempt to open the client holds the lock. Signatures are right or
wrong by the key they name.

**LcuSnapshots** - `wire`, `nudges` are the events on their way from the client and
the bounded channel of the worker; a full channel drops a nudge. A poll is
`PollStart`, `Discover`, `Gameflow` and one `Ask` per question that is open in this
phase, and the client may change between any two. `told` is what the Bot has been
told. `BotKnowsClient` says that, with no poll, event or nudge left and no change of
the client that no nudge follows (`missed`), `told` is what the client shows, as far
as the questions of the last poll were answered (`answered`); what was told of an
earlier process or connection and is no longer remembered (`forgotten`) is excused.

**Recording** - `manager` is the recorder under its mutex; a stop is `Take`, and later
the end of the capture, with the mutex free in between. `watcher` is the loop of
`app.rs`: read, decide, act. `StartedUnheld` is a start whose metadata file cannot be
written: the capture runs, and nobody holds it. `stop[c].saw` tells which recordings had
been begun when `stop_auto_game_recording` read the flag: of those the watcher and the
switch take none of the user's, in any overlap of stops and starts; one that the user
begins between the flag and the take they do end, which `TakesAutomatic` excepts. **ClipBuffer** - `ring`, `protected`, `disk`; the export
is reserved under the mutex and rendered without it; one that cannot make its folder
leaves `exporting` set and its segments reserved, and the ring then grows behind them;
`BufferBounded` lets it exceed its bound only behind a reserved segment. **LiveSfu** - the control call
and the publisher task each have a `pc`; captures are numbered so that a capture
nobody owns any more can be told. **Updater** - a release is known by what the updater
compares (version, label, build, commit) and what was compiled into its binary;
`script[k]` is the batch file of a task, which goes on when the agent is gone. `torn`
is a history with three causes; the third is a check by an agent that the user started
between the two copies of a script: it weighs the new identity with the old binary,
the copy fails, the old identity is put back, and the release that runs is installed
once more (`NoReinstall` claims nothing of it).
**MainWindow** - commands of the page run one after another, each an action;
the physics threads (`threads`) and `sync_main_window_rotation_mode` (`sync`) are split
at each read and write of a static atomic. Angles and sizes are two-valued.

**GameBarInput** - `behind` says what the application below has been told, `button`
what the hand does, `async` what `GetAsyncKeyState` reports; the poll of 8 ms
is two actions (sample, count) because the hook and a sync may come in between.
**GameBarSnapshots** - `CollectClient` reads, `SetSnapshot` writes a second later;
messages and toasts are numbered by `stamp`. **OverlayUpdate** - the agent's task under
the one lock, and `scripts`, processes of their own, which nothing keeps from meeting the
checks or the reset of a later agent. Two histories say what the properties leave out: a
script that was at work when its agent exited (`left`), and (`outdated`) an agent that
exited with a newer release registered or deferred than `state.json` tells, or a button
that was given an older release than that; after each of them the code can put an older
release over a newer one. Plain restarts are covered: the memory of the newest target
goes with the agent, and `KeptNewer`, what `state.json` says, takes its place. **OverlayControls** - jobs and
probes (`Probers`) each look, act, and look again. **DiscordActivity** - the client
thread of the vendored library as this code uses it, the static READY flag, and
the task. A client has a channel of requests (`queue`) and one of answers (a number,
since `execute` takes the first and compares no nonce). A subscription or the closing of
a join request that times out leaves the client in place, and its late answer confirms
the next request (`late`); requests still queued when a connection ends are sent over the
next one. After such a timeout Discord may show the activity before; `ShownIsLast` then
says that what is shown is the last one as soon as the activities under way have come,
unless Discord refused one. **DiscordJoins** - per request its state in the agent, the lookup at the Relay
and the queue.

## 4. Runs

| Run | Shows | Bounds, and why they are enough |
| --- | --- | --- |
| `relay_connections` | type, table agreement, what is said of a user, command futures, takeovers | 2 sockets (a replaced and a new one, each reused), 2 sessions, 1 user over whom they compete, 1 command, 1 HTTP bind in flight |
| `durable_events` | no ACK before storage, futures match waiters, refinement of AtLeastOnce | 2 events (one for the bot), buffer of 1 so that it overflows, 2 overlapping handlers with 2 messages in flight between them (`InFlight`: one waits behind each handler, or two behind one), 2 faults |
| `durable_live` | every event leaves the buffer | 1 event, 2 connections, 1 fault |
| `live_delta` | faithful rebuild, delivered in order, nothing forgotten silently | 2 streams of 3 frames (a gap in the middle), buffer 2, channels of 1, resend limit 2 so that both answers to a missing base occur, 1 fault |
| `live_delta_converges` | the API ends with the latest state | 3 streams of 2 frames, 1 fault |
| `relay_supervisor` | control belongs to the current task, no lost task, unwanted tasks end, wanted agents run | 2 user commands and the watchdog, 3 generations (a start overtaken by a stop and by another start), 1 hang or panic |
| `game_end` | recoveries report their own game, only wanted replays, no question forgotten, only the agent's own download deleted and only the version the API stored, but for what is written between the check and the removal | 2 games, the first wanted (answers about it arrive in the second), 2 writes of its file (the agent's and the player's, in both orders), 2 tasks of a kind, 2 faults |
| `agent_link` | the five parts of section 2.6 | sessions: 2 accounts, 2 sessions, 2 tokens; journal: 2 events, 2 crashes, 1 failed write; heartbeat: the real intervals in ticks of 5 s, 45 ticks (more than both deadlines); commands: a nonce cache of 1, clock of 3 with a skew of 1; client: channel of 1, 2 events under way, 3 changes, 1 failure |
| `agent_media` | the five parts of section 2.7 | 2 recordings of 2 games (the one a stop was decided for and the one it finds), 2 captures of 6 segments with clips and a ring of 2, 3 control calls, 4 releases with 1 change and 1 failed copy, of the window 3 openings and closings, 2 commands and 2 drags, 5 in all (of the drags, those under way) |
| `agent_desktop` | the six parts of section 2.8 | 2 toasts and voice channels (lists at their limit), 2 releases of the overlay with stale answers, 2 settings against 2 jobs and a probe, 1 exit of the agent and 1 failure during the overlay's updates, 1 restart of Discord, 1 late answer (enough to confirm the next request), 2 users who share a Riot ID |
| `replay_of_its_game` | finding: the previous game's replay is uploaded | 2 games, 1 write |
| `friends_baseline` | finding: friends online at startup are announced | 1 friend |

In the three `agent_*` runs a property is the conjunction of what a component
promises (`SessionSafe` is `RecordsCurrent /\ HeldIsPinned /\ BoundHoldsCurrent` of
`SessionCredentials`, and so on, each with the part's `TypeOK`); `PROJECT.json`
has a mutant of the code for the named conjuncts, not just for the conjunction. The
same holds of `SaidOfOwner` and `AnswersSafe` of `RelayConnections` and
`DeliveredInOrder` of `LiveDelta`.

Some properties claim nothing after two calls have met in a way the code does not
order (a stop of a recording overtaken, two scripts, a late watchdog): a history variable
(`clash`, `torn`, `late`, `overlap`) records it, and `Explored`, a state constraint,
cuts what follows (the proofs do without it), except of a `clash`: what follows that
is explored, since `TakesAutomatic` speaks of it as well. The case itself is reached and is part of the model; a hazard
names it where it matters. `Explored` also keeps two handlers of one session apart
from further sessions and faults, tutorial resets apart from pushes, and leaves out
what follows a made-up friend list or the user's own pinning after the last setting,
where `Baseline` and `LastSettingWins` claim nothing any more. Of Game Bar's user it
follows two actions, or one and the widget's probe.

`CHECK_DEADLOCK FALSE` except in the runs of `GameEnd`, where a poll is always
possible: captures, events, generations and faults are
bounded, and a system that has used them up and delivered everything rests; a
stopped agent rests too. Symmetry is used in safety runs only, over sockets,
connections or commands, which no definition tells apart. Constants named `Max...`,
`Room` and `Skew` are bounds of the models; where one stands for a limit of the code
its comment names it.

Two runs end in a violation; each states what a line of the repository says:

* `SentAsItsGame`: `find_matching_replay` says it never takes a replay merely for
  being recent; the fallback on the players takes the previous game's file when
  the same ten play again, as in a series, and the poll that asks for the download
  already looks for the file.
* `BaselineAlways`: a comment of `watch_snapshot` says that the first friend list
  is a baseline; one that could not be read counts as the baseline as well, and the
  next one announces everyone who was online.

Three more divergences are listed as hazards without a run: `attach_session` drops
the old connection with its route at once, where its docstring leaves this to
`bind_discord`; a live replay may be written to the API again after its commit,
since the stored seq is read before the call; and the Relay answers an API failure
of a replay check with a refusal, which ends what the agent's log says is repeated.

## 5. Fairness

* Relay handlers: asyncio schedules every ready coroutine, and each await they
  make has a timeout (API, bot, archive) - weak fairness of their steps.
* Supervisor: `tokio::select!` picks ready branches at random, so a branch that
  is ready again and again is taken - strong fairness for taking a batch
  (`Track`), weak fairness for the others. Ticks come forever.
* Archive: `SF_vars(Archived)`: it does not refuse an event forever.
* `LiveDelta`: the game goes on, so a poller without a stream captures one; block
  keys expire; the watchdog aborts a loop that stands still (`HardRevive`).
* `RelaySupervisor`: commands under way, the watchdog loop, and the ends of tasks
  that are told or aborted. Nothing is assumed of a connection. `Revive` is fair
  only for a task that hangs.
* Faults are never fair, and bounded: the properties say "once they are over".
  `Converges` and `WantedRuns` excuse behaviours that used up the bound on
  streams or generations.

## 6. Proofs

All theorems hold for every value of the constants under the named assumptions
(`NoneIsNew`, `BoundsAreNats`, ...), which TLC evaluates in each run.

* **RelayConnectionsProofs**: `TypeOK /\ RegistryInv` is inductive: the guarded
  pops of `_drop_ws_locked` are right only because the tables agree. On it rests
  `Linked`: caches, commands, status, with `LoopInfo` (a stored hello belongs to a
  handler under its finally clause) added so that `InfoNotInherited` follows.
  `SaidOfTheOwner` and `AnswersAreSafe` state two properties of the run, and
  `HealthyConnectionsAreKept` its action property: the one way in which a saved session
  could displace a connection heard from recently is one that counts as of the same
  session, and since the tables agree, that one is the socket that binds.
* **DurableEventsProofs**: lemmas on the sequence operators first; then
  `IndInv == TypeOK /\ Handlers /\ StoredBeforeAck /\ Provenance`. `Handlers` says
  which future a handler in a phase owns; `Provenance` that whatever is buffered, in
  flight or in a handler was made by the agent. From it every step maps to a step
  of `AtLeastOnce` or a stutter (theorem `Refines`).
* **RelaySupervisorProofs**: `IndInv == TypeOK /\ ControlAgrees /\ NoOrphan /\ Starts`.
  `Starts` says that generations to come are blank, that two starts never name the
  same one, and that the control is still ready for a task announced but not yet
  spawned; without it `Spawn` could break `ControlAgrees`.

* **GameEndProofs**: `IndInv` has one part for each thing that can go wrong:
  `Known` (what holds of a poller, with the events it has sent: its permission is of
  a wanted game, what it owns is not the player's while the file is not handed over,
  what it has reported and asked), `Worker` (between the two halves of a poll there
  is room in the channel, and a clear precheck stays true of the player's files),
  `Sound` (of events under way), `Tasks` (a version that may be deleted is not the
  player's; a watching upload has stored its version or the file has another; one that
  has checked the file finds that version, or one written since). A
  poll is a composition of operators, each of which keeps `Known`, one lemma each;
  `VersionsKept` says what every change of a file has in common.

* **LiveDeltaProofs**: `Working` (a handler has a frame exactly when it awaits the API or
  the commit) makes `TypeOK` inductive. `Ordered` is `Faithful` with four facts about
  what reached the API: what Redis keeps was delivered (`Stored`), a handler works on a
  frame all of whose predecessors were (`InOrder`), `NoHoles`, and an ACK under way is of
  a delivered frame (`AcksSafe`). `Faithful` alone says nothing of the base a delta is
  applied to while its handler awaits the API. `NothingForgotten` is an action property;
  it needs lemmas on filtered sequences, proved by least counterexample because the
  induction theorems cannot be instantiated.

* **AgentLinkProofs**, one invariant per part of `MCAgentLink`:
  * `JournalInv`: `Files` says which of the files is whole at each step of the write,
    `Kept` that what was promised is in the pending list, in a write under way and in what
    a load would find. `PromisedPending` alone is not inductive: after `RemoveOld` only the
    temporary file holds what was promised, and a crash makes that the next load.
  * `HeartbeatInv`: one ping at a time is under way, out or back (`OnePing`); it is as old
    as the wait for it, or late (`Truthful`); whoever is awake was heard of when the task
    was last due (`InTime`). It holds for all intervals that nest (`TimeoutsAreNested`).
  * `CommandsInv`: `Accounted` counts, per nonce, the runs, the operation at the gate and
    the task: at most one together, and whatever was claimed is in the cache or so old
    that no clock admits it again (`Past`), unless the full cache forgot it. `Answered`
    does the same for requests. The cache is bounded (`CacheOK`).
  * `SessionInv` is `SessionBase /\ IssueInv /\ CurrentInv`. The base has `OneOwner`: who
    has a token (record, handler, notice, agent, file) has it for the same session and
    account. `IssueInv` says, until two issues meet, that one handler issues at a time and
    every record is mapped or about to be. `CurrentInv` says, without a clash, that the
    handler that binds presents the mapped token and none issues another behind it.
  * `ClientInv`: `Remembers` - what the poller remembers is what the Bot will have been
    told, what it does not was taken back or is forgotten; `Knows` - while nothing of the
    client went unnoticed since the poll began, each answer is as the client has it.

  The assumptions are those of `MCAgentLink`: bounds are numbers, `None` is nothing else,
  the timeouts nest, and the bot signs every envelope with a nonce of its own.

* **AgentMediaProofs**, one invariant per part of `MCAgentMedia`:
  * `RecorderInv`: `Known` ties the automatic flag to what is held while a stop is
    between its steps (nothing is held, or what it came for), until one is overtaken; `Off` that switch and
    watcher exclude each other. `UsersRecordingIsKept`, the recorder's half of the action
    property `StepsSafe`, holds of overlapping stops too and rests on `Flagged`: the flag
    never stands over a recording of the user, so that what is held when the watcher or
    the switch is about to take it is automatic, or was begun after the flag was read.
  * `ClipsInv`: the ring lists files on disk of the present capture, none twice and in
    their order (`Once`), which bounds it; `Reserved` that an export's files are
    protected or of an earlier capture, and that without an export nothing is protected. How far a prune goes is a least number, so the
    proof argues by well-founded order.
  * `BroadcastInv`: `Holding` says who cannot hold a capture (a call before it took one
    or after it handed it over, the manager meanwhile, a publisher that does not stop);
    `Numbered` that a call changes the generation at most once.
  * `UpdatesInv`: for each stage of a script what identity and executable are
    (`Placed`): the file fits the binary except between the two copies; a check that
    has chosen chose something else than what runs (`Chosen`); `Process` ties the
    running release to the binary.
  * `WindowInv`: `Visible` (a request to open outdates every hide and watchdog before
    it), `Motion` (a thread that has not looked since is outdated, so it does not tilt
    the window again), `Hosted` (a host is expanded from a size of the user).

  The assumptions are those of `MCAgentMedia`: bounds are numbers; a click is not one
  of the recorder's own threads; a release has a build, a commit and a numbered label
  (the release workflow writes them, and `is_newer_target` falls back on the build);
  the installer's binary was built as the release it installs.

* **AgentDesktopProofs**, one invariant per part of `MCAgentDesktop`:
  * `ActivityInv`: `Published` carries through every step of the task what `ShownIsLast`
    says of a task at rest: requests reach Discord in their order and end in the activity
    that is sent or was (`Ordered`, with `Aim`); until a request is given up, only the one
    waited for is on its way, and its answer is its own (`Matched`); a client publishes
    after it has subscribed (`Allowed`, `Stepwise`).
  * `JoinsInv`: `Spared` - a request that waits has an invitation to spare, so taking it
    out and inviting for it keep the count; `Collected` - what the task is about to
    invite still waits with its Riot ID.
  * `ControlsInv`: `Turns` - a job is spawned per setting, in their order, the one at
    work holds the lock, and the prober is looking; `Carried` - the traversal under way
    carries the last setting, unless it is older and none applied the last one yet.
  * `OverlayInv`: `Asked` (what is to be applied was asked for), `Alone` (until one is left
    behind, the agent's lock is held as long as a script runs), `Latest` (an operation is
    of the latest release the agent was told of), `Ahead` (the agent or `state.json` knows
    of what is registered or deferred, and what is about to be applied is no older than
    what `state.json` tells), `Registered` (what a script that verifies may find),
    `Truthful` (`StateTrue`, as long as no script is verifying). `NeverDown` rests on
    `Latest` and `Ahead`: the memory of the agent, and after a restart `state.json`.
  * `InputInv`: `Held` - a press held for the overlay never reached the application
    behind it; `Seen` - what the thread that polls knows of the press and where it began,
    unless the pointer moved, or a sync ran, between the press and its poll (`doubt`).
  * `ShownInv`: `Current` - what the widget has been sent, or is being sent, is what there
    is to show, or it has been notified; `ClientCurrent` speaks of a waiting one only.
    `Remembered` - unless a list was made up, the friends who were there all along are in
    the list remembered, in the one just got, and not among those to be announced. The
    lemmas on `Kept` come first: what it leaves, in which order, that filtering twice is
    filtering once (`Pruned` of what was pruned).

  The assumptions are those of `MCAgentDesktop`: bounds are numbers, of attempts,
  retries and refreshes at least one; releases are numbered from 1 in their order;
  `None`, the enforcement and the widget's probe are nothing else.

Each of these inductive invariants was checked by TLC on the instance of its run
before it was proved.

Only model-checked: `CopiesNewer`, the updater's half of `StepsSafe`, which is not true
of every set of releases (an installer that carries a beta and writes no identity file
is taken for what was compiled into it, so its label is not compared; nor is the label
of a build that was published under two of them what the binary was released as); and
every liveness property (`Drained`, `Converges`, `UnwantedEnds`, `WantedRuns`), which is
out of the prover's reach.

## 7. Not modelled

External services answer nondeterministically. Payloads, wording and logging are
abstracted. Left out entirely: the bot's socket with its subscriptions, watchers and
grace timers; the tournament queue (a bounded queue that drops, of which nothing is
promised); Redis journals, configuration, action policy and tokens of the SFU room
(append-only or pure); the React interface; vendored code except what
`DiscordActivity` needs of the Discord client; assets, the installer and CI.

Left out of components that are modelled in part: the expiry of sessions in Redis and
the OAuth exchange with Discord; the cooldowns and thresholds of the watchdogs and
what the supervisor publishes; the lockfile search and the parsing of party, history,
fights and rewards; the decoding of replays and the upload of analyses; the pipe
protocol and the one-time tokens of the Game Bar bridge and the arithmetic of
dragging; the local HTTP server of the recordings; texts and images of the Discord
activity; windows other than the main one.
