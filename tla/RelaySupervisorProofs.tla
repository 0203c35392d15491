------------------------- MODULE RelaySupervisorProofs -------------------------
(***************************************************************************)
(* RelaySupervisor: the control and the tasks agree, and no task is lost,    *)
(* for every number of commands and generations.                            *)
(***************************************************************************)
EXTENDS RelaySupervisor, TLAPS

Starting(a) == pc[a] \in {"spawn", "install"}

Places == {"idle", "spawn", "install", "start", "restart", "stopping", "restarting", "revived"}

\* Generations that were not handed out yet have left no trace.
FutureIsBlank == \A g \in Gens : g > gen => at[g] = "none"

NamesAreOld == \A a \in Actors : mine[a] # None => mine[a] <= gen

\* A start names a generation; until it spawns its task, that task is nowhere, and
\* the control is ready for it if it is still the current one.
StartsAreSound ==
    \A a \in Actors :
       /\ Starting(a) => mine[a] \in Gens
       /\ pc[a] = "spawn" => at[mine[a]] = "none"
       /\ pc[a] = "spawn" /\ mine[a] = gen => stopTx = gen /\ cstate # "stopped"

StartsDiffer ==
    \A a, b \in Actors : Starting(a) /\ Starting(b) /\ mine[a] = mine[b] => a = b

Starts == FutureIsBlank /\ NamesAreOld /\ StartsAreSound /\ StartsDiffer

\* The inductive invariant.
IndInv == TypeOK /\ ControlAgrees /\ NoOrphan /\ Starts

\* The initial state: nothing runs, nothing is wanted.
LEMMA InitInd == Init => IndInv
<1> SUFFICES ASSUME Init PROVE IndInv
  OBVIOUS
<1>1. TypeOK
  <2>1. at \in [Gens -> Phases \cup {"none", "panicked", "ending", "finished", "done"}]
    BY DEF Init
  <2>2. pc \in [Actors -> Places] /\ mine \in [Actors -> Gens \cup {None}]
    BY DEF Init, Places
  <2> QED
    <3>1. gen \in 0..MaxGen /\ faults \in 0..MaxFaults
      BY BoundsAreNats DEF Init
    <3>2. told \subseteq Gens /\ aborted \subseteq Gens /\ hung \subseteq Gens
      BY DEF Init
    <3>3. cstate \in Phases \cup {"stopped"} /\ {stopTx, oauth, handle} \subseteq Gens \cup {None}
      BY DEF Init
    <3>4. desired \in BOOLEAN /\ armed \in BOOLEAN
      BY DEF Init
    <3> QED
      BY <2>1, <2>2, <3>1, <3>2, <3>3, <3>4 DEF TypeOK, Places
<1>2. ControlAgrees /\ NoOrphan
  BY DEF Init, ControlAgrees, NoOrphan, Running, Phases
<1>3. Starts
  BY DEF Init, Starts, FutureIsBlank, NamesAreOld, StartsAreSound, StartsDiffer, Starting
<1> QED
  BY <1>1, <1>2, <1>3 DEF IndInv

\* What an actor does next is a place of a command or of the watchdog.
LEMMA GoType ==
  ASSUME TypeOK, NEW a \in Actors, NEW next \in Places, NEW g \in Gens \cup {None}, Go(a, next, g)
  PROVE  pc' \in [Actors -> Places] /\ mine' \in [Actors -> Gens \cup {None}]
  BY DEF TypeOK, Go, Places

\* The next generation is one, while the bound is not reached.
LEMMA BumpType ==
  ASSUME TypeOK, Bumped
  PROVE  gen' \in 0..MaxGen /\ Started \in Gens /\ gen' = Started /\ gen' = gen + 1 /\ gen \in Nat
  BY BoundsAreNats DEF TypeOK, Bumped, Started, Gens

\* Signalling the stop channel marks a task.
LEMMA ToldType == ASSUME TypeOK, StopTxGone PROVE told' \subseteq Gens
  BY DEF TypeOK, StopTxGone

\* One step of any actor or task keeps the types of all variables.
LEMMA TypeStep == IndInv /\ [Next]_vars => TypeOK'
<1> SUFFICES ASSUME IndInv, [Next]_vars PROVE TypeOK'
  OBVIOUS
<1> USE BoundsAreNats DEF IndInv, TypeOK, Gens
<1>0. ASSUME NEW a \in Actors, Accept(a), desired' \in BOOLEAN, UNCHANGED <<at, aborted, hung, faults>>
      PROVE  TypeOK'
  <2>1. Started \in Gens /\ gen' \in 0..MaxGen
    BY <1>0, BumpType DEF Accept
  <2>2. told' \subseteq Gens
    BY <1>0, ToldType DEF Accept
  <2>3. pc' \in [Actors -> Places] /\ mine' \in [Actors -> Gens \cup {None}]
    BY <1>0, <2>1, GoType DEF Accept, Places
  <2> QED
    BY <1>0, <2>1, <2>2, <2>3 DEF Accept, Places, Phases
<1>1. ASSUME NEW a \in Actors, StartExplicit(a) PROVE TypeOK'
  <2>1. CASE Accept(a)
    BY <1>0, <1>1, <2>1 DEF StartExplicit
  <2>2. CASE Go(a, "idle", None) /\ UNCHANGED <<gen, armed, stopTx, oauth, handle, cstate, told>>
    <3>1. pc' \in [Actors -> Places] /\ mine' \in [Actors -> Gens \cup {None}]
      BY <2>2, GoType DEF Places
    <3> QED
      BY <1>1, <2>2, <3>1 DEF StartExplicit, Places
  <2> QED
    BY <1>1, <2>1, <2>2 DEF StartExplicit
<1>2. ASSUME NEW a \in Actors, Spawn(a) PROVE TypeOK'
  BY <1>2 DEF Spawn, control, Starts, StartsAreSound, Starting, Phases
<1>3. ASSUME NEW a \in Actors, Install(a) PROVE TypeOK'
  <2>1. mine[a] \in Gens
    BY <1>3 DEF Install, Starts, StartsAreSound, Starting
  <2>2. pc' \in [Actors -> Places] /\ mine' \in [Actors -> Gens \cup {None}]
    BY <1>3, GoType DEF Install, Places
  <2> QED
    BY <1>3, <2>1, <2>2 DEF Install, Places
<1>4. ASSUME NEW a \in Actors, SaveConfig(a) PROVE TypeOK'
  <2>1. pc' \in [Actors -> Places] /\ mine' \in [Actors -> Gens \cup {None}]
    BY <1>4, GoType DEF SaveConfig, Places
  <2> QED
    BY <1>4, <2>1 DEF SaveConfig, control, tasks, Places
<1>5. ASSUME NEW a \in Actors, Stop(a) PROVE TypeOK'
  <2>1. gen' \in 0..MaxGen
    BY <1>5, BumpType DEF Stop, Release
  <2>2. told' \subseteq Gens
    BY <1>5, ToldType DEF Stop, Release
  <2>3. PICK next \in Places : Go(a, next, handle)
    BY <1>5 DEF Stop, Places
  <2>4. pc' \in [Actors -> Places] /\ mine' \in [Actors -> Gens \cup {None}]
    BY <2>3, GoType
  <2> QED
    BY <1>5, <2>1, <2>2, <2>4 DEF Stop, Release, Places
<1>6. ASSUME NEW a \in Actors, StopTimeout(a) PROVE TypeOK'
  BY <1>6 DEF StopTimeout, control
<1>7. ASSUME NEW a \in Actors, Stopped(a) PROVE TypeOK'
  <2>1. PICK next \in Places : Go(a, next, None)
    BY <1>7 DEF Stopped, Places
  <2>2. pc' \in [Actors -> Places] /\ mine' \in [Actors -> Gens \cup {None}]
    BY <2>1, GoType
  <2> QED
    BY <1>7, <2>2 DEF Stopped, control, tasks, Places
<1>8. ASSUME StartIfDesired PROVE TypeOK'
  <2>1. Watchdog \in Actors
    BY DEF Actors
  <2>2. CASE Accept(Watchdog)
    BY <1>0, <1>8, <2>1, <2>2 DEF StartIfDesired
  <2>3. CASE Go(Watchdog, "idle", None) /\ UNCHANGED <<gen, armed, stopTx, oauth, handle, cstate, told>>
    <3>1. pc' \in [Actors -> Places] /\ mine' \in [Actors -> Gens \cup {None}]
      BY <2>1, <2>3, GoType DEF Places
    <3> QED
      BY <1>8, <2>3, <3>1 DEF StartIfDesired, Places
  <2> QED
    BY <1>8, <2>2, <2>3 DEF StartIfDesired
<1>9. ASSUME Revive PROVE TypeOK'
  <2>1. gen' \in 0..MaxGen
    BY <1>9, BumpType DEF Revive, Release
  <2>2. told' \subseteq Gens
    BY <1>9, ToldType DEF Revive, Release
  <2>3. Watchdog \in Actors
    BY DEF Actors
  <2>4. pc' \in [Actors -> Places] /\ mine' \in [Actors -> Gens \cup {None}]
    BY <1>9, <2>3, GoType DEF Revive, Places
  <2>5. handle \in Gens
    BY <1>9 DEF Revive, TaskRunning
  <2> QED
    BY <1>9, <2>1, <2>2, <2>4, <2>5 DEF Revive, Release, Places, Phases
<1>10. ASSUME NEW g \in Gens, Advance(g) PROVE TypeOK'
  <2>1. PICK next \in Successors(at[g]) :
           /\ At(g, next)
           /\ cstate' = IF gen = g THEN next ELSE cstate
           /\ oauth' = IF gen # g THEN oauth ELSE IF next = "authenticating" THEN g ELSE None
    BY <1>10 DEF Advance
  <2>2. next \in Phases
    BY <2>1 DEF Successors, Phases
  <2> QED
    BY <1>10, <2>1, <2>2 DEF Advance, At
<1>11. ASSUME NEW g \in Gens, SeeStop(g) \/ PinMismatch(g) \/ Return(g) PROVE TypeOK'
  BY <1>11 DEF SeeStop, PinMismatch, Return, At, control
<1>12. ASSUME NEW g \in Gens, Conflict(g) PROVE TypeOK'
  BY <1>12 DEF Conflict, At
<1>13. ASSUME NEW g \in Gens, Finish(g) PROVE TypeOK'
  BY <1>13 DEF Finish, At
<1>14. ASSUME NEW g \in Gens, Abort(g) PROVE TypeOK'
  BY <1>14 DEF Abort, At, control
<1>15. ASSUME NEW g \in Gens, Panic(g) \/ Hang(g) PROVE TypeOK'
  <2>1. faults' \in 0..MaxFaults
    BY <1>15 DEF Panic, Hang, Fault
  <2> QED
    BY <1>15, <2>1 DEF Panic, Hang, At, control
<1>16. ASSUME UNCHANGED vars PROVE TypeOK'
  BY <1>16 DEF vars, control, tasks
<1> QED
  BY <1>1, <1>2, <1>3, <1>4, <1>5, <1>6, <1>7, <1>8, <1>9, <1>10, <1>11, <1>12, <1>13, <1>14, <1>15, <1>16
     DEF Next, Actor, Task

\* Neither a step of a task nor of any actor but one that bumps the generation
\* touches what a generation still to come has left.
LEMMA StartsStep == IndInv /\ [Next]_vars => Starts'
<1> SUFFICES ASSUME IndInv, [Next]_vars PROVE Starts'
  OBVIOUS
<1> USE DEF IndInv, TypeOK
<1>0. gen \in Nat /\ (\A g \in Gens : g \in Nat /\ g # None) /\ (gen = 0 \/ gen \in Gens) /\ None \notin Gens
  BY BoundsAreNats, NoneIsNew DEF Gens
<1>1. ASSUME NEW a \in Actors, Accept(a), UNCHANGED at PROVE Starts'
  <2>1. gen' = gen + 1 /\ Started = gen + 1 /\ Started \in Gens
    BY <1>1, BumpType DEF Accept
  <2>2. at[Started] = "none"
    BY <1>0, <2>1 DEF Starts, FutureIsBlank
  <2>3. /\ pc'[a] = "spawn" /\ mine'[a] = Started
        /\ \A b \in Actors : b # a => pc'[b] = pc[b] /\ mine'[b] = mine[b]
    BY <1>1 DEF Accept, Go
  <2>4. \A b \in Actors : b # a /\ Starting(b) => mine[b] # Started
    BY <1>0, <2>1 DEF Starts, NamesAreOld, StartsAreSound
  <2>5. FutureIsBlank'
    BY <1>0, <1>1, <2>1 DEF Starts, FutureIsBlank
  <2>6. NamesAreOld'
    <3>1. \A b \in Actors : b # a /\ mine'[b] # None => mine'[b] \in Gens /\ mine'[b] <= gen
      BY <2>3 DEF Starts, NamesAreOld
    <3>2. mine'[a] = gen' /\ gen' = gen + 1
      BY <2>1, <2>3
    <3>3. \A n \in Nat : n <= gen => n <= gen'
      BY <1>0, <3>2
    <3>4. gen' <= gen'
      BY <1>0, <3>2
    <3>5. \A b \in Actors : b # a /\ mine'[b] # None => mine'[b] <= gen'
      BY <1>0, <3>1, <3>3
    <3>6. mine'[a] <= gen'
      BY <3>2, <3>4
    <3> QED
      BY <3>5, <3>6 DEF NamesAreOld
  <2>7. StartsAreSound'
    <3> SUFFICES ASSUME NEW b \in Actors
                 PROVE  /\ Starting(b)' => mine'[b] \in Gens
                        /\ pc'[b] = "spawn" => at'[mine'[b]] = "none"
                        /\ pc'[b] = "spawn" /\ mine'[b] = gen' => stopTx' = gen' /\ cstate' # "stopped"
      BY DEF StartsAreSound
    <3>1. CASE b = a
      BY <1>1, <2>1, <2>2, <2>3, <3>1 DEF Accept
    <3>2. CASE b # a
      BY <1>1, <2>1, <2>3, <2>4, <3>2 DEF Starts, StartsAreSound, Starting
    <3> QED
      BY <3>1, <3>2
  <2>8. StartsDiffer'
    BY <2>3, <2>4 DEF Starts, StartsDiffer, Starting
  <2> QED
    BY <2>5, <2>6, <2>7, <2>8 DEF Starts
<1>2. ASSUME NEW a \in Actors, NEW next, NEW g \in {handle, None, mine[a]},
             Go(a, next, g), next \notin {"spawn", "install"}, UNCHANGED <<gen, at, stopTx, cstate>>
      PROVE  Starts'
  <2>1. /\ pc'[a] = next /\ mine'[a] = g
        /\ \A b \in Actors : b # a => pc'[b] = pc[b] /\ mine'[b] = mine[b]
    BY <1>2 DEF Go
  <2>2. g # None => g <= gen
    BY <1>0 DEF ControlAgrees, Starts, NamesAreOld
  <2> QED
    BY <1>2, <2>1, <2>2 DEF Starts, FutureIsBlank, NamesAreOld, StartsAreSound, StartsDiffer, Starting
<1>3. ASSUME NEW a \in Actors, NEW next, NEW g \in {handle, None}, NEW s,
             Go(a, next, g), next \notin {"spawn", "install"}, Release(s), UNCHANGED at
      PROVE  Starts'
  <2>1. /\ pc'[a] = next /\ mine'[a] = g
        /\ \A b \in Actors : b # a => pc'[b] = pc[b] /\ mine'[b] = mine[b]
    BY <1>3 DEF Go
  <2>2. g # None => g <= gen
    BY <1>0 DEF ControlAgrees
  <2>3. gen' = gen + 1
    BY <1>3 DEF Release, Bumped
  <2>4. FutureIsBlank'
    BY <1>0, <1>3, <2>3 DEF Starts, FutureIsBlank
  <2>5. NamesAreOld'
    BY <1>0, <2>1, <2>2, <2>3 DEF Starts, NamesAreOld
  <2>6. StartsAreSound'
    <3>1. \A b \in Actors : Starting(b) => mine[b] # gen'
      BY <1>0, <2>3 DEF Starts, NamesAreOld, StartsAreSound
    <3> QED
      BY <1>3, <2>1, <3>1 DEF Starts, StartsAreSound, Starting
  <2>7. StartsDiffer'
    BY <1>3, <2>1 DEF Starts, StartsDiffer, Starting
  <2> QED
    BY <2>4, <2>5, <2>6, <2>7 DEF Starts
<1>4. ASSUME NEW g \in Gens, at[g] # "none", NEW place, At(g, place), UNCHANGED <<gen, pc, mine>>,
             \A a \in Actors : pc[a] = "spawn" /\ mine[a] = gen => stopTx' = stopTx /\ (cstate # "stopped" => cstate' # "stopped")
      PROVE  Starts'
  <2>1. \A h \in Gens : h # g => at'[h] = at[h]
    BY <1>4 DEF At
  <2>2. g <= gen
    BY <1>0, <1>4 DEF Starts, FutureIsBlank
  <2>3. FutureIsBlank'
    BY <1>0, <1>4, <2>1, <2>2 DEF Starts, FutureIsBlank
  <2>4. StartsAreSound'
    <3>1. \A a \in Actors : pc[a] = "spawn" => mine[a] # g
      BY <1>4 DEF Starts, StartsAreSound
    <3> QED
      BY <1>4, <2>1, <3>1 DEF Starts, StartsAreSound, Starting
  <2> QED
    BY <1>4, <2>3, <2>4 DEF Starts, NamesAreOld, StartsDiffer, Starting
<1>5. ASSUME NEW a \in Actors, Actor(a) PROVE Starts'
  <2>1. CASE StartExplicit(a)
    BY <1>1, <1>2, <2>1 DEF StartExplicit
  <2>2. CASE Spawn(a)
    <3>1. \A h \in Gens : h # mine[a] => at'[h] = at[h]
      BY <2>2 DEF Spawn
    <3>2. /\ pc[a] = "spawn" /\ pc'[a] = "install" /\ \A b \in Actors : b # a => pc'[b] = pc[b]
          /\ UNCHANGED <<gen, mine, stopTx, cstate>>
      BY <2>2 DEF Spawn, control
    <3>3. mine[a] \in Gens /\ mine[a] <= gen
      BY <1>0, <3>2 DEF Starts, StartsAreSound, NamesAreOld, Starting
    <3>4. FutureIsBlank'
      BY <1>0, <3>1, <3>2, <3>3 DEF Starts, FutureIsBlank
    <3>5. \A b \in Actors : b # a /\ pc[b] = "spawn" => mine[b] # mine[a]
      BY <3>2 DEF Starts, StartsDiffer, Starting
    <3>6. StartsAreSound'
      BY <3>1, <3>2, <3>3, <3>5 DEF Starts, StartsAreSound, Starting
    <3> QED
      BY <3>2, <3>4, <3>6 DEF Starts, NamesAreOld, StartsDiffer, Starting
  <2>3. CASE Install(a)
    BY <1>2, <2>3 DEF Install
  <2>4. CASE SaveConfig(a)
    BY <1>2, <2>4 DEF SaveConfig, control, tasks
  <2>5. CASE Stop(a)
    <3>1. PICK next \in {"stopping", "restarting"} : Go(a, next, handle)
      BY <2>5 DEF Stop
    <3> QED
      BY <1>3, <2>5, <3>1 DEF Stop
  <2>6. CASE StopTimeout(a)
    BY <2>6 DEF StopTimeout, control, Starts, FutureIsBlank, NamesAreOld, StartsAreSound, StartsDiffer, Starting
  <2>7. CASE Stopped(a)
    <3>1. PICK next \in {"idle", "start"} : Go(a, next, None)
      BY <2>7 DEF Stopped
    <3> QED
      BY <1>2, <2>7, <3>1 DEF Stopped, control, tasks
  <2> QED
    BY <1>5, <2>1, <2>2, <2>3, <2>4, <2>5, <2>6, <2>7 DEF Actor
<1>6. Watchdog \in Actors
  BY DEF Actors
<1>7. CASE StartIfDesired
  BY <1>1, <1>2, <1>6, <1>7 DEF StartIfDesired
<1>8. CASE Revive
  BY <1>3, <1>6, <1>8 DEF Revive
<1>9. ASSUME NEW g \in Gens, Task(g) PROVE Starts'
  <2>1. CASE Advance(g)
    <3>1. PICK next \in Successors(at[g]) : At(g, next) /\ cstate' = IF gen = g THEN next ELSE cstate
      BY <2>1 DEF Advance
    <3>2. next # "stopped" /\ at[g] # "none"
      BY <3>1 DEF Successors
    <3> QED
      BY <1>4, <2>1, <3>1, <3>2 DEF Advance
  <2>2. CASE SeeStop(g) \/ PinMismatch(g) \/ Return(g) \/ Abort(g) \/ Panic(g)
    <3>1. UNCHANGED <<control, pc, mine>> /\ at[g] # "none"
      BY <2>2 DEF SeeStop, PinMismatch, Return, Abort, Panic, Running, Live, Phases
    <3>2. \E place : At(g, place)
      BY <2>2 DEF SeeStop, PinMismatch, Return, Abort, Panic
    <3> QED
      BY <1>4, <3>1, <3>2 DEF control
  <2>3. CASE Conflict(g)
    BY <1>4, <2>3 DEF Conflict
  <2>4. CASE Finish(g)
    <3>1. \A a \in Actors : pc[a] = "spawn" => mine[a] # g
      BY <2>4 DEF Finish, Starts, StartsAreSound
    <3> QED
      BY <1>4, <2>4, <3>1 DEF Finish
  <2>5. CASE Hang(g)
    BY <2>5 DEF Hang, control, Starts, FutureIsBlank, NamesAreOld, StartsAreSound, StartsDiffer, Starting
  <2> QED
    BY <1>9, <2>1, <2>2, <2>3, <2>4, <2>5 DEF Task
<1>10. CASE UNCHANGED vars
  BY <1>10 DEF vars, control, tasks, Starts, FutureIsBlank, NamesAreOld, StartsAreSound, StartsDiffer, Starting
<1> QED
  BY <1>5, <1>7, <1>8, <1>9, <1>10 DEF Next

\* Whoever has the lock, the control stays that of the current generation.
LEMMA ControlStep == IndInv /\ [Next]_vars => ControlAgrees'
<1> SUFFICES ASSUME IndInv, [Next]_vars PROVE ControlAgrees'
  OBVIOUS
<1> USE DEF IndInv, TypeOK
<1>0. gen \in Nat /\ (\A g \in Gens : g \in Nat /\ g # None) /\ None \notin Gens
  BY BoundsAreNats, NoneIsNew DEF Gens
<1>1. \A g \in Gens : g > gen => ~Running(g)
  BY DEF Starts, FutureIsBlank, Running, Phases
<1>2. ASSUME NEW a \in Actors, Accept(a), desired', UNCHANGED at PROVE ControlAgrees'
  <2>1. gen' = gen + 1 /\ stopTx' = gen' /\ oauth' = None /\ handle' = None
    BY <1>2, BumpType DEF Accept
  <2>2. \A g \in Gens : g = gen' => ~Running(g)'
    BY <1>0, <1>1, <1>2, <2>1 DEF Running
  <2> QED
    BY <1>2, <2>1, <2>2 DEF ControlAgrees
<1>3. ASSUME NEW s, Release(s), UNCHANGED at, (armed /\ desired)' \/ ~armed' PROVE ControlAgrees'
  <2>1. gen' = gen + 1 /\ stopTx' = None /\ oauth' = None /\ handle' = None
    BY <1>3, BumpType DEF Release
  <2>2. \A g \in Gens : g = gen' => ~Running(g)'
    BY <1>0, <1>1, <1>3, <2>1 DEF Running
  <2> QED
    BY <1>3, <2>1, <2>2 DEF ControlAgrees
<1>4. ASSUME NEW g \in Gens, NEW place, At(g, place), Running(g) \/ place \notin Phases \cup {"panicked"},
             UNCHANGED <<gen, stopTx, handle, desired, armed>>, oauth' \in {oauth, None},
             cstate' = cstate
      PROVE  ControlAgrees'
  <2>1. \A h \in Gens : Running(h)' => Running(h)
    BY <1>4 DEF At, Running
  <2> QED
    BY <1>4, <2>1 DEF ControlAgrees
<1>5. ASSUME NEW a \in Actors, Actor(a) PROVE ControlAgrees'
  <2>1. CASE StartExplicit(a)
    BY <1>2, <2>1 DEF StartExplicit, ControlAgrees, Running
  <2>2. CASE Spawn(a)
    <3>1. mine[a] = gen => stopTx = gen /\ cstate # "stopped"
      BY <2>2 DEF Spawn, Starts, StartsAreSound
    <3>2. \A h \in Gens : h # mine[a] => at'[h] = at[h]
      BY <2>2 DEF Spawn
    <3> QED
      BY <2>2, <3>1, <3>2 DEF Spawn, control, ControlAgrees, Running
  <2>3. CASE Install(a)
    <3>1. handle' \in {gen, None}
      BY <2>3 DEF Install, ControlAgrees
    <3> QED
      BY <2>3, <3>1 DEF Install, ControlAgrees, Running
  <2>4. CASE SaveConfig(a) \/ StopTimeout(a) \/ Stopped(a)
    BY <2>4 DEF SaveConfig, StopTimeout, Stopped, control, tasks, ControlAgrees, Running
  <2>5. CASE Stop(a)
    BY <1>3, <2>5 DEF Stop
  <2> QED
    BY <1>5, <2>1, <2>2, <2>3, <2>4, <2>5 DEF Actor
<1>6. CASE StartIfDesired
  <2>1. Watchdog \in Actors
    BY DEF Actors
  <2>2. CASE desired /\ Accept(Watchdog)
    BY <1>2, <1>6, <2>1, <2>2 DEF StartIfDesired
  <2>3. CASE UNCHANGED <<gen, armed, stopTx, oauth, handle, cstate, told>>
    BY <1>6, <2>3 DEF StartIfDesired, ControlAgrees, Running
  <2> QED
    BY <1>6, <2>2, <2>3 DEF StartIfDesired
<1>7. CASE Revive
  BY <1>3, <1>7 DEF Revive, ControlAgrees
<1>8. ASSUME NEW g \in Gens, Task(g) PROVE ControlAgrees'
  <2>1. CASE Advance(g)
    <3>1. PICK next \in Successors(at[g]) :
             /\ At(g, next)
             /\ cstate' = IF gen = g THEN next ELSE cstate
             /\ oauth' = IF gen # g THEN oauth ELSE IF next = "authenticating" THEN g ELSE None
      BY <2>1 DEF Advance
    <3>2. next # "stopped" /\ Running(g)
      BY <3>1 DEF Successors, Running, Phases
    <3>3. \A h \in Gens : Running(h)' => Running(h)
      BY <3>1, <3>2 DEF At, Running
    <3>4. oauth' \in {gen, None}
      BY <3>1 DEF ControlAgrees
    <3>5. \A h \in Gens : h = gen /\ Running(h) => cstate' # "stopped"
      BY <3>1, <3>2 DEF ControlAgrees
    <3> QED
      BY <2>1, <3>3, <3>4, <3>5 DEF Advance, ControlAgrees
  <2>2. CASE SeeStop(g) \/ PinMismatch(g) \/ Return(g) \/ Abort(g)
    <3>1. UNCHANGED control /\ \E place \in {"ending", "done"} : At(g, place)
      BY <2>2 DEF SeeStop, PinMismatch, Return, Abort
    <3> QED
      BY <1>4, <3>1 DEF control, Phases
  <2>3. CASE Panic(g)
    BY <1>4, <2>3 DEF Panic, control
  <2>4. CASE Conflict(g)
    <3>1. \A h \in Gens : Running(h)' => Running(h)
      BY <2>4 DEF Conflict, At, Running, Phases
    <3> QED
      BY <2>4, <3>1 DEF Conflict, ControlAgrees
  <2>5. CASE Finish(g)
    <3>1. ~Running(g)' /\ \A h \in Gens : Running(h)' => Running(h) /\ h # g
      BY <2>5 DEF Finish, At, Running, Phases
    <3> QED
      BY <2>5, <3>1 DEF Finish, ControlAgrees
  <2>6. CASE Hang(g)
    BY <2>6 DEF Hang, control, ControlAgrees, Running
  <2> QED
    BY <1>8, <2>1, <2>2, <2>3, <2>4, <2>5, <2>6 DEF Task
<1>9. CASE UNCHANGED vars
  BY <1>9 DEF vars, control, tasks, ControlAgrees, Running
<1> QED
  BY <1>5, <1>6, <1>7, <1>8, <1>9 DEF Next

Held(g) ==
    \/ handle = g
    \/ g \in told
    \/ g \in aborted
    \/ \E a \in Actors : pc[a] = "install" /\ mine[a] = g

\* Whoever lets go of a task has told it to stop, aborted it, or seen it end.
LEMMA OrphanStep == IndInv /\ [Next]_vars => NoOrphan'
<1> SUFFICES ASSUME IndInv, [Next]_vars, NEW g \in Gens, Running(g)' PROVE Held(g)'
  BY DEF NoOrphan, Held
<1> USE DEF IndInv, TypeOK
<1>0. g # None /\ (Running(g) => Held(g))
  BY NoneIsNew DEF NoOrphan, Held
<1>1. ASSUME NEW a \in Actors, pc[a] # "install", Accept(a), UNCHANGED <<at, aborted>> PROVE Held(g)'
  <2>1. Running(g) /\ handle # g
    BY <1>0, <1>1 DEF Accept, TaskRunning, Running, Live, Phases
  <2>2. told \subseteq told' /\ \A b \in Actors : pc[b] = "install" /\ mine[b] = g /\ b # a => pc'[b] = "install" /\ mine'[b] = g
    BY <1>1 DEF Accept, StopTxGone, Go
  <2> QED
    BY <1>0, <1>1, <2>1, <2>2 DEF Held
<1>2. ASSUME NEW a \in Actors, pc[a] # "install", NEW next, NEW h, Go(a, next, h),
             UNCHANGED <<at, handle, told>>, aborted \subseteq aborted'
      PROVE  Held(g)'
  <2>1. Running(g)
    BY <1>2 DEF Running
  <2>2. \A b \in Actors : pc[b] = "install" /\ mine[b] = g => pc'[b] = "install" /\ mine'[b] = g
    BY <1>2 DEF Go
  <2> QED
    BY <1>0, <1>2, <2>1, <2>2 DEF Held
<1>3. ASSUME NEW a \in Actors, pc[a] # "install", NEW next, NEW h, NEW s, Go(a, next, h), Release(s),
             UNCHANGED at, aborted \subseteq aborted'
      PROVE  Held(g)'
  <2>1. Running(g)
    BY <1>3 DEF Running
  <2>2. \A b \in Actors : pc[b] = "install" /\ mine[b] = g => pc'[b] = "install" /\ mine'[b] = g
    BY <1>3 DEF Go
  <2>3. handle = g => g \in told'
    BY <1>0, <1>3, <2>1 DEF ControlAgrees, Release, StopTxGone
  <2>4. told \subseteq told'
    BY <1>3 DEF Release, StopTxGone
  <2> QED
    BY <1>0, <1>3, <2>1, <2>2, <2>3, <2>4 DEF Held
<1>4. ASSUME NEW a \in Actors, Actor(a) PROVE Held(g)'
  <2>1. CASE StartExplicit(a)
    BY <1>1, <1>2, <2>1 DEF StartExplicit
  <2>2. CASE Spawn(a)
    <3>1. /\ pc[a] = "spawn" /\ pc'[a] = "install" /\ (\A b \in Actors : b # a => pc'[b] = pc[b])
          /\ UNCHANGED <<handle, told, aborted, mine>>
          /\ \A h \in Gens : h # mine[a] => at'[h] = at[h]
      BY <2>2 DEF Spawn, control
    <3>2. CASE g = mine[a]
      BY <3>1, <3>2 DEF Held
    <3>3. CASE g # mine[a]
      BY <1>0, <3>1, <3>3 DEF Held, Running
    <3> QED
      BY <3>2, <3>3
  <2>3. CASE Install(a)
    <3>1. Running(g)
      BY <2>3 DEF Install, Running
    <3>2. \A b \in Actors : b # a => pc'[b] = pc[b] /\ mine'[b] = mine[b]
      BY <2>3 DEF Install, Go
    <3>3. mine[a] = handle' \/ mine[a] \in aborted'
      BY <2>3 DEF Install
    <3>4. handle = g => handle' = g
      BY <1>0, <2>3 DEF Install, ControlAgrees
    <3> QED
      BY <1>0, <2>3, <3>1, <3>2, <3>3, <3>4 DEF Held, Install
  <2>4. CASE SaveConfig(a)
    BY <1>2, <2>4 DEF SaveConfig, control, tasks
  <2>5. CASE Stop(a)
    <3>1. PICK next : Go(a, next, handle)
      BY <2>5 DEF Stop
    <3> QED
      BY <1>3, <2>5, <3>1 DEF Stop
  <2>6. CASE StopTimeout(a)
    BY <1>0, <2>6 DEF StopTimeout, control, Held, Running
  <2>7. CASE Stopped(a)
    <3>1. PICK next : Go(a, next, None)
      BY <2>7 DEF Stopped
    <3> QED
      BY <1>2, <2>7, <3>1 DEF Stopped, control, tasks
  <2> QED
    BY <1>4, <2>1, <2>2, <2>3, <2>4, <2>5, <2>6, <2>7 DEF Actor
<1>5. Watchdog \in Actors
  BY DEF Actors
<1>6. CASE StartIfDesired
  BY <1>1, <1>2, <1>5, <1>6 DEF StartIfDesired
<1>7. CASE Revive
  BY <1>3, <1>5, <1>7 DEF Revive
<1>8. ASSUME NEW h \in Gens, Task(h) PROVE Held(g)'
  <2>1. UNCHANGED <<handle, told, aborted, pc, mine>>
    BY <1>8 DEF Task, Advance, SeeStop, PinMismatch, Conflict, Finish, Return, Abort, Panic, Hang, control
  <2>2. Running(g)
    <3>1. CASE Advance(h)
      <4>1. PICK next \in Successors(at[h]) : At(h, next)
        BY <3>1 DEF Advance
      <4>2. Running(h)
        BY <4>1 DEF Successors, Running, Phases
      <4> QED
        BY <4>1, <4>2 DEF At, Running
    <3>2. CASE SeeStop(h) \/ PinMismatch(h) \/ Conflict(h) \/ Finish(h) \/ Return(h) \/ Abort(h)
      <4>1. PICK place \in {"ending", "finished", "done"} : At(h, place)
        BY <3>2 DEF SeeStop, PinMismatch, Conflict, Finish, Return, Abort
      <4> QED
        BY <4>1 DEF At, Running, Phases
    <3>3. CASE Panic(h)
      BY <3>3 DEF Panic, At, Running
    <3>4. CASE Hang(h)
      BY <3>4 DEF Hang, Running
    <3> QED
      BY <1>8, <3>1, <3>2, <3>3, <3>4 DEF Task
  <2> QED
    BY <1>0, <2>1, <2>2 DEF Held
<1>9. CASE UNCHANGED vars
  BY <1>0, <1>9 DEF vars, control, tasks, Held, Running
<1> QED
  BY <1>4, <1>6, <1>7, <1>8, <1>9 DEF Next

-------------------------------------------------------------------------------

\* IndInv holds in every reachable state.
LEMMA Inductive == Spec => []IndInv
<1>1. IndInv /\ [Next]_vars => IndInv'
  BY TypeStep, ControlStep, OrphanStep, StartsStep DEF IndInv
<1> QED
  BY InitInd, <1>1, PTL DEF Spec

\* The control, the tasks and the actors keep their types, for any number of
\* commands and generations.
THEOREM TypeCorrect == Spec => []TypeOK
<1>1. IndInv => TypeOK
  BY DEF IndInv
<1> QED
  BY Inductive, <1>1, PTL

\* Handles, channels and the reported state belong to the current generation, a
\* running current task can be told to stop, and the native watchdog is armed only
\* for an agent that is wanted.
THEOREM ControlCorrect == Spec => []ControlAgrees
<1>1. IndInv => ControlAgrees
  BY DEF IndInv
<1> QED
  BY Inductive, <1>1, PTL

\* No interleaving of starts, stops, restarts and revivals loses a running task.
THEOREM NoTaskIsLost == Spec => []NoOrphan
<1>1. IndInv => NoOrphan
  BY DEF IndInv
<1> QED
  BY Inductive, <1>1, PTL
==============================================================================
