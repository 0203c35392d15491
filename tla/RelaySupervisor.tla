---------------------------- MODULE RelaySupervisor ----------------------------
(***************************************************************************)
(* The life of the agent's Relay task (relay/supervisor.rs): user commands   *)
(* that start, stop and restart it, the watchdog that revives or restarts    *)
(* it (app.rs), and the task itself, which may be told to stop, be           *)
(* displaced, end, panic or hang.  They share SupervisorControl, and let go  *)
(* of its lock between the steps of a start and of a stop.                   *)
(*                                                                         *)
(* A task is named by the generation it was started with.                   *)
(***************************************************************************)
EXTENDS Naturals

CONSTANTS
    Commands,   \* commands of the user that may run at the same time
    Watchdog,   \* the loop watch_relay_supervisor
    MaxGen,     \* bound: generations
    MaxFaults,  \* bound: tasks that hang or panic
    None        \* no task

ASSUME BoundsAreNats == MaxGen \in Nat /\ MaxFaults \in Nat
ASSUME WatchdogIsNoCommand == Watchdog \notin Commands

Gens == 1..MaxGen
Actors == Commands \cup {Watchdog}

ASSUME NoneIsNew == None \notin Gens

VARIABLES
    gen,      \* control.generation
    desired,  \* control.desired_running
    armed,    \* RELAY_NATIVE_WATCHDOG_ARMED
    stopTx,   \* whose stop channel control.stop_tx is
    oauth,    \* whose login channel control.oauth_tx is
    handle,   \* whose JoinHandle control.task is
    cstate,   \* control.connection_state
    at,       \* where each task is
    told,     \* tasks whose stop channel was signalled or dropped
    aborted,  \* tasks on which abort was called
    hung,     \* tasks that stand still
    pc,       \* what each actor does next
    mine,     \* the generation an actor starts, or the task it waits for
    faults

control == <<gen, desired, armed, stopTx, oauth, handle, cstate>>
tasks == <<at, told, aborted, hung>>
vars == <<control, tasks, pc, mine, faults>>

\* RelayConnectionState without Stopped: a task reports where it is.
Phases == {"connecting", "authenticating", "connected", "reconnecting", "failed"}

\* A task between two calls of run_supervisor has panicked; one that leaves it is
\* ending; one that has given the control back is finished.
Running(g) == at[g] \in Phases \cup {"panicked"}
Live(g) == at[g] \notin {"none", "done"}

\* Fault for a mutant: a finished task counts as running.
TaskKnown == handle # None

\* task.is_some_and(|task| !task.is_finished())
TaskRunning == handle # None /\ Live(handle)

Init ==
    /\ gen = 0 /\ desired = FALSE /\ armed = FALSE
    /\ stopTx = None /\ oauth = None /\ handle = None
    /\ cstate = "stopped"
    /\ at = [g \in Gens |-> "none"]
    /\ told = {} /\ aborted = {} /\ hung = {}
    /\ pc = [a \in Actors |-> "idle"]
    /\ mine = [a \in Actors |-> None]
    /\ faults = 0

Fault == faults < MaxFaults /\ faults' = faults + 1

Bumped == gen < MaxGen /\ gen' = gen + 1

\* Dropping the sender wakes its receiver just as sending on it does.
StopTxGone == told' = told \cup ({stopTx} \ {None})

Go(a, next, g) == pc' = [pc EXCEPT ![a] = next] /\ mine' = [mine EXCEPT ![a] = g]

-------------------------------------------------------------------------------
(* start_impl                                                                 *)

\* Fault for a mutant: the generation is read before it is incremented.
StartedStale == gen

\* The generation a start gives its task.
Started == gen + 1

\* The first section under the lock, when the start is accepted.
Accept(a) ==
    /\ ~TaskRunning
    /\ Bumped
    /\ armed' = TRUE
    /\ StopTxGone
    /\ stopTx' = Started
    /\ oauth' = None /\ handle' = None
    /\ cstate' = "connecting"
    /\ Go(a, "spawn", Started)

\* start_background, start_user_requested: also the second half of restart
StartExplicit(a) ==
    /\ a # Watchdog
    /\ pc[a] \in {"idle", "start"}
    /\ desired' = TRUE
    /\ \/ Accept(a)
       \/ /\ TaskRunning
          /\ Go(a, "idle", None)
          /\ UNCHANGED <<gen, armed, stopTx, oauth, handle, cstate, told>>
    /\ UNCHANGED <<at, aborted, hung, faults>>

\* restart_if_desired, and the start at the end of a revival
StartIfDesired ==
    /\ pc[Watchdog] \in {"idle", "revived"}
    /\ \/ desired /\ Accept(Watchdog)
       \/ /\ ~desired \/ TaskRunning
          /\ Go(Watchdog, "idle", None)
          /\ UNCHANGED <<gen, armed, stopTx, oauth, handle, cstate, told>>
    /\ UNCHANGED <<desired, at, aborted, hung, faults>>

\* Between the two sections, events are published and the task is spawned.
Spawn(a) ==
    /\ pc[a] = "spawn"
    /\ at' = [at EXCEPT ![mine[a]] = "connecting"]
    /\ pc' = [pc EXCEPT ![a] = "install"]
    /\ UNCHANGED <<control, told, aborted, hung, mine, faults>>

\* Fault for a mutant: the handle is stored whoever is current by now.
InstallAnyway(a) ==
    /\ pc[a] = "install"
    /\ handle' = mine[a]
    /\ Go(a, "idle", None)
    /\ UNCHANGED <<gen, desired, armed, stopTx, oauth, cstate, tasks, faults>>

\* The second section: the task is kept only if it is still wanted.
Install(a) ==
    /\ pc[a] = "install"
    /\ \/ /\ gen = mine[a] /\ desired
          /\ handle' = mine[a]
          /\ UNCHANGED aborted
       \/ /\ gen # mine[a] \/ ~desired
          /\ aborted' = aborted \cup {mine[a]}
          /\ UNCHANGED handle
    /\ Go(a, "idle", None)
    /\ UNCHANGED <<gen, desired, armed, stopTx, oauth, cstate, at, told, hung, faults>>

-------------------------------------------------------------------------------
(* stop, restart and the watchdog                                             *)

\* update_config restarts the task if it sees one running.
SaveConfig(a) ==
    /\ a # Watchdog
    /\ pc[a] = "idle"
    /\ TaskRunning
    /\ Go(a, "restart", None)
    /\ UNCHANGED <<control, tasks, faults>>

Release(next) ==
    /\ Bumped
    /\ StopTxGone
    /\ stopTx' = None /\ oauth' = None /\ handle' = None
    /\ cstate' = next

\* stop_agent, logout, request_exit, and the first half of restart
Stop(a) ==
    /\ a # Watchdog
    /\ pc[a] \in {"idle", "restart"}
    /\ desired' = FALSE
    /\ armed' = FALSE
    /\ Release("stopped")
    /\ Go(a, IF pc[a] = "idle" THEN "stopping" ELSE "restarting", handle)
    /\ UNCHANGED <<at, aborted, hung, faults>>

\* The task gets two seconds.
StopTimeout(a) ==
    /\ pc[a] \in {"stopping", "restarting"}
    /\ mine[a] # None
    /\ Live(mine[a])
    /\ aborted' = aborted \cup {mine[a]}
    /\ UNCHANGED <<control, at, told, hung, pc, mine, faults>>

Stopped(a) ==
    /\ pc[a] \in {"stopping", "restarting"}
    /\ mine[a] # None => ~Live(mine[a])
    /\ Go(a, IF pc[a] = "stopping" THEN "idle" ELSE "start", None)
    /\ UNCHANGED <<control, tasks, faults>>

\* hard_revive_if_unhealthy, restart_if_stale: no sign of life for too long
Revive ==
    /\ pc[Watchdog] = "idle"
    /\ desired /\ TaskRunning /\ cstate # "stopped"
    /\ Release("failed")
    /\ aborted' = aborted \cup {handle}
    /\ Go(Watchdog, "revived", None)
    /\ UNCHANGED <<desired, armed, at, hung, faults>>

-------------------------------------------------------------------------------
(* The task                                                                   *)

At(g, place) == at' = [at EXCEPT ![g] = place]

Steps(g) == g \notin hung

\* The states a state may be followed by, in the loops of run_supervisor.
Successors(place) ==
    CASE place = "connecting" -> {"authenticating", "failed"}
      [] place = "authenticating" -> {"connected", "reconnecting", "failed"}
      [] place = "connected" -> {"reconnecting", "failed"}
      [] place = "failed" -> {"reconnecting"}
      [] place \in {"reconnecting", "panicked"} -> {"connecting"}
      [] OTHER -> {}

\* set_connection_state, set_oauth_sender: nothing once the task is not current
Advance(g) ==
    /\ Steps(g)
    /\ \E next \in Successors(at[g]) :
          /\ At(g, next)
          /\ cstate' = IF gen = g THEN next ELSE cstate
          /\ oauth' = IF gen # g THEN oauth ELSE IF next = "authenticating" THEN g ELSE None
    /\ UNCHANGED <<gen, desired, armed, stopTx, handle, told, aborted, hung, pc, mine, faults>>

\* A task that is told to stop leaves its loops.
SeeStop(g) ==
    /\ Steps(g)
    /\ g \in told
    /\ Running(g)
    /\ At(g, "ending")
    /\ UNCHANGED <<control, told, aborted, hung, pc, mine, faults>>

\* session_bound names another Discord user than the saved one.
PinMismatch(g) ==
    /\ Steps(g)
    /\ at[g] = "authenticating"
    /\ At(g, "ending")
    /\ UNCHANGED <<control, told, aborted, hung, pc, mine, faults>>

\* Fault for a mutant: a displaced task of an earlier generation counts, too.
ConflictOfAny(g) ==
    /\ Steps(g)
    /\ at[g] \in {"authenticating", "connected"}
    /\ At(g, "ending")
    /\ desired' = FALSE /\ armed' = FALSE /\ oauth' = None
    /\ UNCHANGED <<gen, stopTx, handle, cstate, told, aborted, hung, pc, mine, faults>>

\* Close code 4009, suspend_for_session_conflict
Conflict(g) ==
    /\ Steps(g)
    /\ at[g] \in {"authenticating", "connected"}
    /\ At(g, "ending")
    /\ \/ gen = g /\ desired' = FALSE /\ armed' = FALSE /\ oauth' = None
       \/ gen # g /\ UNCHANGED <<desired, armed, oauth>>
    /\ UNCHANGED <<gen, stopTx, handle, cstate, told, aborted, hung, pc, mine, faults>>

\* Fault for a mutant: a late task gives back a control that is not its own.
FinishAny(g) ==
    /\ at[g] = "ending"
    /\ At(g, "finished")
    /\ stopTx' = None /\ oauth' = None /\ cstate' = "stopped"
    /\ UNCHANGED <<gen, desired, armed, handle, told, aborted, hung, pc, mine, faults>>

\* finish
Finish(g) ==
    /\ at[g] = "ending"
    /\ At(g, "finished")
    /\ \/ gen = g /\ stopTx' = None /\ oauth' = None /\ cstate' = "stopped"
       \/ gen # g /\ UNCHANGED <<stopTx, oauth, cstate>>
    /\ UNCHANGED <<gen, desired, armed, handle, told, aborted, hung, pc, mine, faults>>

\* The task has published that it stopped.
Return(g) ==
    /\ at[g] = "finished"
    /\ At(g, "done")
    /\ UNCHANGED <<control, told, aborted, hung, pc, mine, faults>>

\* An aborted task ends where it awaits next.
Abort(g) ==
    /\ g \in aborted
    /\ Live(g)
    /\ At(g, "done")
    /\ hung' = hung \ {g}
    /\ UNCHANGED <<control, told, aborted, pc, mine, faults>>

\* A panic in run_supervisor outside connect_once: the spawned loop calls it again.
Panic(g) ==
    /\ Fault
    /\ Steps(g)
    /\ Running(g)
    /\ At(g, "panicked")
    /\ UNCHANGED <<control, told, aborted, hung, pc, mine>>

\* The task waits for something that does not come.
Hang(g) ==
    /\ Fault
    /\ Steps(g)
    /\ Running(g)
    /\ hung' = hung \cup {g}
    /\ UNCHANGED <<control, at, told, aborted, pc, mine>>

-------------------------------------------------------------------------------

Actor(a) ==
    \/ StartExplicit(a) \/ Spawn(a) \/ Install(a)
    \/ SaveConfig(a) \/ Stop(a) \/ StopTimeout(a) \/ Stopped(a)

Task(g) ==
    \/ Advance(g) \/ SeeStop(g) \/ PinMismatch(g) \/ Conflict(g)
    \/ Finish(g) \/ Return(g) \/ Abort(g) \/ Panic(g) \/ Hang(g)

Next ==
    \/ \E a \in Actors : Actor(a)
    \/ StartIfDesired \/ Revive
    \/ \E g \in Gens : Task(g)

Spec == Init /\ [][Next]_vars

\* A command in progress and the watchdog go on.  A task that does not hang sees
\* the stop signal, and one that ends reaches its end; nothing is assumed of its
\* connection.  Revive is fair only when the task hangs: it needs time without a
\* sign of life.
Fairness ==
    /\ \A a \in Actors :
          /\ WF_vars(Spawn(a)) /\ WF_vars(Install(a))
          /\ WF_vars(StopTimeout(a)) /\ WF_vars(Stopped(a))
          /\ WF_vars(pc[a] = "start" /\ StartExplicit(a))
    /\ WF_vars(StartIfDesired)
    /\ WF_vars(handle \in hung /\ Revive)
    /\ \A g \in Gens : WF_vars(SeeStop(g)) /\ WF_vars(Finish(g)) /\ WF_vars(Return(g)) /\ WF_vars(Abort(g))

FairSpec == Spec /\ Fairness

-------------------------------------------------------------------------------
(* Properties                                                                 *)

TypeOK ==
    /\ gen \in 0..MaxGen /\ desired \in BOOLEAN /\ armed \in BOOLEAN
    /\ stopTx \in Gens \cup {None} /\ oauth \in Gens \cup {None} /\ handle \in Gens \cup {None}
    /\ cstate \in Phases \cup {"stopped"}
    /\ at \in [Gens -> Phases \cup {"none", "panicked", "ending", "finished", "done"}]
    /\ told \subseteq Gens /\ aborted \subseteq Gens /\ hung \subseteq Gens
    /\ pc \in [Actors -> {"idle", "spawn", "install", "start", "restart", "stopping", "restarting", "revived"}]
    /\ mine \in [Actors -> Gens \cup {None}]
    /\ faults \in 0..MaxFaults

\* What the control holds belongs to the current generation; a task of that
\* generation that runs can be told to stop and is not shown as stopped, whatever
\* late task or late actor has had the lock; the native watchdog, which relaunches
\* the whole process, is armed only for an agent that is wanted.
ControlAgrees ==
    /\ {stopTx, oauth, handle} \subseteq {gen, None}
    /\ \A g \in Gens : g = gen /\ Running(g) => stopTx = g /\ cstate # "stopped"
    /\ armed => desired

\* No task is lost: one that runs is held, has been told to stop or aborted, or is
\* about to be installed or aborted by the actor that spawned it.
NoOrphan ==
    \A g \in Gens :
       Running(g) =>
          \/ handle = g
          \/ g \in told
          \/ g \in aborted
          \/ \E a \in Actors : pc[a] = "install" /\ mine[a] = g

\* The bound on generations is used up.
OutOfGens == gen = MaxGen

\* An agent that stays stopped ends up without a task, also one that hangs.
UnwantedEnds == <>[]~desired => <>[](\A g \in Gens : ~Live(g))

\* While the agent is wanted, a task that does not hang is running again and again,
\* whatever ended the one before.
Serving == handle # None /\ Running(handle) /\ handle \notin hung

WantedRuns == desired ~> (Serving \/ ~desired \/ OutOfGens)
===============================================================================
