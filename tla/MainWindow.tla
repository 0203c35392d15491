------------------------------ MODULE MainWindow ------------------------------
(* The main window of the agent (tray.rs, commands/window.rs): it is opened    *)
(* from the tray, hidden by an animation its page plays, and dragged by a      *)
(* thread of its own that may leave it tilted, in a larger transparent host.   *)
(* The commands of the page run on the main thread, one after another; the     *)
(* physics threads and the asynchronous sync_main_window_rotation_mode run     *)
(* beside them and meet at the static atomics.                                 *)
EXTENDS Naturals

CONSTANTS
    None,
    MaxAsks,     \* bound: requests to open or hide the window
    MaxDrags,    \* bound: drags, each a thread
    MaxCommands, \* bound: other commands of the page
    MaxFails     \* bound: refused calls of Windows

Drags == 1..MaxDrags
Sync == 0                         \* sync_main_window_rotation_mode beside the drags
Actors == Drags \cup {Sync}
UserSizes == {"small", "large"}
Sizes == UserSizes \cup {"host"}  \* "host": the square that holds any rotation

VARIABLES
    win,        \* the window labelled "main"
    opening,    \* OPENING_MAIN_WINDOW, and what the thread that opens has done
    hideId,     \* HIDE_REQUEST_ID
    hiding,     \* hides the page still answers with complete_tray_hide
    watchdogs,  \* ... and those whose watchdog sleeps
    due,        \* a watchdog found its hide pending and goes on to destroy
    generation, \* WINDOW_MOTION_GENERATION
    tilted,     \* WINDOW_ROTATION_BITS: the angle is not upright
    expanded,   \* WINDOW_ROTATION_HOST_EXPANDED
    size, base, \* the size of the window, WINDOW_BASE_WIDTH/HEIGHT_BITS
    threads,    \* the physics threads: [pc, gen, free, start, spin]
    sync,       \* sync_main_window_rotation_mode: "idle", "asked", "resize"
    resizes,    \* the set_rotation_host_expanded calls under way: [on, to]
    orphans,    \* threads that hold a window which was destroyed since
    asks, commands, fails,
    \* history
    wanted,     \* what was asked for last: "open" or "hide"
    late,       \* ... to open, when a destroy was decided or a creation not yet over
    zeroed,     \* a command made the window upright and no drag began since
    stale,      \* a motion was cancelled after its thread had looked
    overlap     \* two calls of set_rotation_host_expanded overlapped

visibility == <<win, opening, hideId, hiding, watchdogs, due, asks, wanted, late>>
motion == <<generation, tilted, threads, sync, zeroed, stale>>
host == <<expanded, size, base, resizes, overlap>>
vars == <<visibility, motion, host, orphans, commands, fails>>

NoThread == [pc |-> "idle", gen |-> 0, free |-> FALSE, start |-> FALSE, spin |-> FALSE]

Init ==
    /\ win = "none" /\ opening = "no" /\ hideId = 1
    /\ hiding = {} /\ watchdogs = {} /\ due = FALSE
    /\ generation = 0 /\ tilted = FALSE
    /\ expanded = FALSE /\ size = "small" /\ base = "small"
    /\ threads = [d \in Drags |-> NoThread] /\ sync = "idle"
    /\ resizes = [a \in Actors |-> None] /\ orphans = {}
    /\ asks = 0 /\ commands = 0 /\ fails = 0
    /\ wanted = "hide" /\ late = FALSE /\ zeroed = TRUE /\ stale = FALSE /\ overlap = FALSE

Exists == win # "none"
Resizing(a) == resizes[a] # None
(* A thread looked at the generation and has yet to act on what it saw.       *)
Looked == \E d \in Drags : threads[d].pc \in {"thrown", "throw", "step"}

-----------------------------------------------------------------------------
(* Pieces of the commands, each of some of the variables.                     *)

(* cancel_window_motion: threads of an older generation stop when they look.  *)
CancelMotion ==
    /\ generation' = generation + 1
    /\ stale' = (stale \/ Looked)
(* ... with store_rotation_angle(0.0)                                         *)
Straighten ==
    /\ CancelMotion
    /\ tilted' = FALSE /\ zeroed' = TRUE
    /\ UNCHANGED <<threads, sync>>

(* set_rotation_host_expanded(false) of a command on the main thread, whole;   *)
(* when Windows refuses, the flag stays.                                      *)
ContractNow ==
    /\ overlap' = (overlap \/ (expanded /\ \E a \in Actors : Resizing(a)))
    /\ UNCHANGED <<base, resizes>>
    /\ \/ expanded' = FALSE /\ size' = (IF expanded THEN base ELSE size) /\ UNCHANGED fails
       \/ expanded /\ fails < MaxFails /\ fails' = fails + 1 /\ UNCHANGED <<expanded, size>>

(* window.destroy(): a thread of the window keeps a handle that is no longer  *)
(* good.                                                                      *)
Destroyed ==
    /\ win' = "none"
    /\ orphans' = {d \in Drags : threads[d].pc # "idle"}
                  \cup {a \in {Sync} : sync # "idle"}

-----------------------------------------------------------------------------
(* Opening and hiding (tray.rs).  Each body runs under WINDOW_VISIBILITY_LOCK. *)

RequestMainWindow ==
    /\ asks < MaxAsks /\ asks' = asks + 1
    /\ hideId' = hideId + 1
    /\ wanted' = "open"
    /\ late' = (due \/ (~ Exists /\ opening = "made"))
    /\ IF Exists THEN win' = "shown" /\ UNCHANGED opening
                 ELSE opening' = (IF opening = "no" THEN "asked" ELSE opening) /\ UNCHANGED win
    /\ UNCHANGED <<hiding, watchdogs, due, motion, host, orphans, commands, fails>>

(* create_main_window on a thread of its own; the page of a new window calls   *)
(* sync_main_window_rotation_mode when it is mounted.                          *)
CreateMainWindow ==
    /\ opening = "asked" /\ opening' = "made"
    /\ \/ Exists /\ win' = "shown" /\ UNCHANGED <<size, sync, fails, orphans>>
       \/ ~ Exists /\ sync = "idle" /\ win' = "shown" /\ size' = "small" /\ sync' = "asked"
          /\ orphans' = orphans \ {Sync} /\ UNCHANGED fails
       \/ ~ Exists /\ fails < MaxFails /\ fails' = fails + 1
          /\ UNCHANGED <<win, size, sync, orphans>>
    /\ UNCHANGED <<hideId, hiding, watchdogs, due, asks, wanted, late, generation, tilted, threads,
                   zeroed, stale, expanded, base, resizes, overlap, commands>>

OpeningOver ==
    /\ opening = "made" /\ opening' = "no"
    /\ UNCHANGED <<win, hideId, hiding, watchdogs, due, asks, wanted, late, motion, host, orphans,
                   commands, fails>>

(* request_animated_hide: the page is told to play, a watchdog waits for it; a *)
(* page that cannot be told is gone at once.  A button of the page first       *)
(* straightens the window (request_tray_hide), closing it does not.            *)
RequestAnimatedHide ==
    /\ Exists /\ asks < MaxAsks /\ asks' = asks + 1
    /\ hideId' = hideId + 1 /\ wanted' = "hide" /\ late' = FALSE
    /\ \/ /\ hiding' = hiding \cup {hideId + 1}
          /\ watchdogs' = watchdogs \cup {hideId + 1}
          /\ UNCHANGED <<due, fails>>
       \/ /\ fails < MaxFails /\ fails' = fails + 1 /\ due' = TRUE
          /\ UNCHANGED <<hiding, watchdogs>>
    /\ \/ Straighten
       \/ UNCHANGED motion
    /\ UNCHANGED <<win, opening, host, orphans, commands>>

(* complete_tray_hide: only the hide that is still current closes the window,  *)
(* the motion is cancelled either way.                                         *)
CompletesAny(id) == TRUE
Completes(id) == hideId = id
CompleteTrayHide(id) ==
    /\ id \in hiding /\ hiding' = hiding \ {id}
    /\ Straighten
    /\ IF Completes(id)
         THEN hideId' = hideId + 1 /\ Destroyed
         ELSE UNCHANGED <<hideId, win, orphans>>
    /\ UNCHANGED <<opening, watchdogs, due, asks, wanted, late, host, commands, fails>>

(* destroy_main_window_if_pending: the check is made before the lock is taken. *)
WatchdogLooks(id) ==
    /\ id \in watchdogs /\ watchdogs' = watchdogs \ {id}
    /\ due' = (due \/ hideId = id)
    /\ UNCHANGED <<win, opening, hideId, hiding, asks, wanted, late, motion, host, orphans,
                   commands, fails>>
WatchdogDestroys ==
    /\ due /\ due' = FALSE
    /\ hideId' = hideId + 1
    /\ Destroyed
    /\ UNCHANGED <<opening, hiding, watchdogs, asks, wanted, late, motion, host, commands, fails>>

-----------------------------------------------------------------------------
(* The other commands of the page, on the main thread.                        *)

Command == commands < MaxCommands /\ commands' = commands + 1

HideMainWindow ==
    /\ Exists /\ asks < MaxAsks /\ asks' = asks + 1
    /\ Straighten /\ ContractNow
    /\ hideId' = hideId + 1 /\ win' = "hidden" /\ wanted' = "hide" /\ late' = FALSE
    /\ UNCHANGED <<opening, hiding, watchdogs, due, orphans, commands>>
(* minimize_main_window returns early when the host cannot be contracted.     *)
MinimizeMainWindow ==
    /\ win = "shown" /\ Command
    /\ Straighten /\ ContractNow
    /\ win' = IF fails' = fails THEN "minimized" ELSE win
    /\ UNCHANGED <<opening, hideId, hiding, watchdogs, due, asks, wanted, late, orphans>>
StabilizeMainWindowRotation ==
    /\ win = "shown" /\ Command
    /\ Straighten /\ ContractNow
    /\ UNCHANGED <<visibility, orphans>>
FreezeMainWindowMotion ==
    /\ win = "shown" /\ Command
    /\ CancelMotion
    /\ UNCHANGED <<tilted, zeroed, threads, sync, host, visibility, orphans, fails>>
UserResizes ==
    /\ win = "shown" /\ Command
    /\ \E s \in UserSizes : s # size /\ size' = s
    /\ UNCHANGED <<expanded, base, resizes, overlap, motion, visibility, orphans, fails>>

-----------------------------------------------------------------------------
(* set_rotation_host_expanded(on) beside the main thread: the flag and the     *)
(* size are read, SetWindowPos follows, and the flag is stored.  A call of     *)
(* another thread between the last two is an overlap, too.                     *)

SameFlagOpen(on) == FALSE
SameFlag(on) == expanded = on
BeginResize(a, on) ==
    /\ ~ SameFlag(on) /\ ~ Resizing(a) /\ a \notin orphans /\ Exists
    /\ overlap' = (overlap \/ \E b \in Actors : Resizing(b))
    /\ base' = IF on THEN size ELSE base
    /\ expanded' = (on \/ expanded)
    /\ resizes' = [resizes EXCEPT ![a] =
          [on |-> on, to |-> IF on THEN "host" ELSE base]]
    /\ UNCHANGED size
(* Nothing to do, or the window does not answer: the caller goes on as "next". *)
NoResize(a, on) == ~ Resizing(a) /\ SameFlag(on)
CannotResize(a, on) == ~ Resizing(a) /\ ~ SameFlag(on) /\ (a \in orphans \/ ~ Exists)

PlacedResize(a) ==
    /\ Resizing(a) /\ a \notin orphans
    /\ size' = resizes[a].to
    /\ expanded' = resizes[a].on
    /\ resizes' = [resizes EXCEPT ![a] = None]
    /\ UNCHANGED <<base, overlap>>
(* SetWindowPos refuses: the flag is taken back when it was set before.  A     *)
(* window that is gone may already refuse its handle, and then the flag stays. *)
RefusedResize(a) ==
    /\ Resizing(a)
    /\ \/ a \in orphans /\ UNCHANGED fails
       \/ a \notin orphans /\ fails < MaxFails /\ fails' = fails + 1
    /\ \/ expanded' = (expanded /\ ~ resizes[a].on)
       \/ a \in orphans /\ expanded' = expanded
    /\ resizes' = [resizes EXCEPT ![a] = None]
    /\ UNCHANGED <<size, base, overlap>>

(* sync_main_window_rotation_mode, asked for by the page that is mounted or   *)
(* when the setting changes, on a thread of the runtime.                      *)
AskSync ==
    /\ win = "shown" /\ sync = "idle" /\ Command /\ sync' = "asked"
    /\ orphans' = orphans \ {Sync}
    /\ UNCHANGED <<generation, tilted, threads, zeroed, stale, host, visibility, fails>>
SyncCancels ==
    /\ sync = "asked"
    /\ sync' = IF Sync \in orphans THEN "idle" ELSE "resize"
    /\ CancelMotion /\ tilted' = FALSE /\ zeroed' = TRUE
    /\ UNCHANGED <<threads, host, visibility, orphans, commands, fails>>
SyncContracts ==
    /\ sync = "resize"
    /\ \/ BeginResize(Sync, FALSE) /\ UNCHANGED <<sync, fails>>
       \/ (NoResize(Sync, FALSE) \/ CannotResize(Sync, FALSE))
          /\ sync' = "idle" /\ UNCHANGED <<host, fails>>
       \/ RefusedResize(Sync) /\ sync' = "idle"
       \/ PlacedResize(Sync) /\ sync' = "idle" /\ UNCHANGED fails
    /\ UNCHANGED <<generation, tilted, threads, zeroed, stale, visibility, orphans, commands>>

-----------------------------------------------------------------------------
(* run_windows_physics_drag                                                   *)

CurrentAlways(d) == TRUE
Current(d) == threads[d].gen = generation
To(d, pc) == threads' = [threads EXCEPT ![d].pc = pc]
Ends(d) == threads' = [threads EXCEPT ![d] = NoThread]

(* start_main_window_drag: a new generation and a thread; whether the window   *)
(* may rotate is read from the settings.                                       *)
StartMainWindowDrag(d) ==
    /\ win = "shown" /\ threads[d].pc = "idle"
    /\ \A e \in Drags : e < d => threads[e].pc # "idle"
    /\ Command
    /\ generation' = generation + 1 /\ stale' = (stale \/ Looked) /\ zeroed' = FALSE
    /\ \E free \in BOOLEAN :
          threads' = [threads EXCEPT ![d] =
              [pc |-> "drag", gen |-> generation + 1, free |-> free,
               start |-> free /\ tilted, spin |-> FALSE]]
    /\ orphans' = orphans \ {d}
    /\ UNCHANGED <<tilted, sync, host, visibility, fails>>

(* The button is let go: the motion is a throw if the thread is current.      *)
Released(d) ==
    /\ threads[d].pc = "drag"
    /\ \/ ~ Current(d) /\ Ends(d)
       \/ /\ Current(d)
          /\ \E spin \in {FALSE, threads[d].free} :
                threads' = [threads EXCEPT ![d].pc = "thrown", ![d].spin = spin]
    /\ UNCHANGED <<generation, tilted, sync, zeroed, stale, host, visibility, orphans, commands,
                   fails>>

Rotates(d) == threads[d].free /\ (threads[d].spin \/ threads[d].start)
(* The host is made to fit the motion ("thrown") or the rest ("rest").        *)
FitsHost(d) ==
    LET on == threads[d].pc # "rest" /\ Rotates(d)
        next == IF threads[d].pc # "rest" /\ ~ CannotResize(d, on) THEN "throw" ELSE "idle" IN
    /\ threads[d].pc \in {"thrown", "rest"}
    /\ \/ BeginResize(d, on) /\ UNCHANGED <<threads, fails>>
       \/ /\ NoResize(d, on) \/ CannotResize(d, on)
          /\ IF next = "idle" THEN Ends(d) ELSE To(d, next)
          /\ UNCHANGED <<host, fails>>
       \/ RefusedResize(d) /\ Ends(d)
       \/ PlacedResize(d) /\ (IF next = "idle" THEN Ends(d) ELSE To(d, next)) /\ UNCHANGED fails
    /\ UNCHANGED <<generation, tilted, sync, zeroed, stale, visibility, orphans, commands>>

(* The angle is stored without another look; a window that does not move      *)
(* rests where it is.                                                         *)
Throws(d) ==
    /\ threads[d].pc = "throw"
    /\ \/ To(d, "glide") /\ tilted' = threads[d].start
       \/ /\ ~ threads[d].spin /\ Ends(d)
          /\ tilted' = (threads[d].start \/ tilted)
    /\ UNCHANGED <<generation, sync, zeroed, stale, host, visibility, orphans, commands, fails>>

(* An iteration of the glide: a stale generation or a press of the button     *)
(* ends it ...                                                                *)
GlideLooks(d) ==
    /\ threads[d].pc = "glide"
    /\ \/ Current(d) /\ To(d, "step")
       \/ Ends(d)
    /\ UNCHANGED <<generation, tilted, sync, zeroed, stale, host, visibility, orphans, commands,
                   fails>>
(* ... otherwise the angle moves, and a window at rest has its host contracted *)
(* when it is upright.                                                         *)
GlideSteps(d) ==
    /\ threads[d].pc = "step"
    /\ \E angle \in {FALSE, threads[d].free} :
          /\ tilted' = angle
          /\ \/ d \notin orphans /\ To(d, "glide")
             \/ d \notin orphans /\ Rotates(d) /\ ~ angle /\ To(d, "rest")
             \/ (d \in orphans \/ ~ Rotates(d) \/ angle) /\ Ends(d)
    /\ UNCHANGED <<generation, sync, zeroed, stale, host, visibility, orphans, commands, fails>>

Next ==
    \/ RequestMainWindow \/ CreateMainWindow \/ OpeningOver \/ RequestAnimatedHide
    \/ \E id \in hiding : CompleteTrayHide(id)
    \/ \E id \in watchdogs : WatchdogLooks(id)
    \/ WatchdogDestroys
    \/ HideMainWindow \/ MinimizeMainWindow \/ StabilizeMainWindowRotation
    \/ FreezeMainWindowMotion \/ UserResizes
    \/ AskSync \/ SyncCancels \/ SyncContracts
    \/ \E d \in Drags : StartMainWindowDrag(d) \/ Released(d) \/ FitsHost(d) \/ Throws(d)
                        \/ GlideLooks(d) \/ GlideSteps(d)

Spec == Init /\ [][Next]_vars

-----------------------------------------------------------------------------
TypeOK ==
    /\ win \in {"none", "hidden", "shown", "minimized"}
    /\ opening \in {"no", "asked", "made"} /\ sync \in {"idle", "asked", "resize"}
    /\ size \in Sizes /\ base \in Sizes
    /\ hiding \subseteq 1..hideId /\ watchdogs \subseteq 1..hideId
    /\ threads \in [Drags -> [pc : {"idle", "drag", "thrown", "throw", "glide", "step", "rest"},
                              gen : 0..generation, free : BOOLEAN, start : BOOLEAN,
                              spin : BOOLEAN]]
    /\ resizes \in [Actors -> {None} \cup [on : BOOLEAN, to : Sizes]]
    /\ orphans \subseteq Actors

(* A window the user has just reopened is not closed by the hide that was     *)
(* pending, neither by its page's late answer nor by its watchdog: it is there *)
(* unless Windows refused, or the request came when the watchdog had looked    *)
(* (tray.rs, complete_animated_hide and destroy_main_window_if_pending).      *)
ReopenedStays ==
    wanted = "open" /\ ~ late /\ opening = "no" /\ fails = 0 => win \in {"shown", "minimized"}

(* The window cancelled into an upright position stays upright until it is    *)
(* dragged again, whatever a physics thread still does, unless the command     *)
(* fell between a look of the thread at the generation and its store           *)
(* (run_windows_physics_drag).                                                 *)
StaysUpright == zeroed /\ ~ stale => ~ tilted

(* The size kept for the window is one the user gave it, never that of the    *)
(* rotation host, which would make the window grow with every throw, and a     *)
(* window with the host's size is known to be expanded                         *)
(* (set_rotation_host_expanded); as long as no two calls overlap.              *)
BaseIsUsers ==
    ~ overlap =>
        /\ base \in UserSizes
        /\ size = "host" /\ Exists => expanded
===============================================================================
