----------------------------- MODULE GameBarInput -----------------------------
(* The mouse over the pinned overlay (gamebar_bridge.rs): the low-level hook   *)
(* that swallows presses inside the widget's rectangles, the transparent      *)
(* shield shown while one is held, the thread that polls the button every     *)
(* 8 ms and counts clicks, and the widget's sync requests that switch all of  *)
(* it on and off.  Hook, poll and sync run in threads of their own.           *)
EXTENDS Naturals

VARIABLES
    \* the mouse
    button,    \* the physical button is held
    at,        \* the pointer is over the "hitbox", elsewhere in a blocked "rect", or "out"
    async,     \* what GetAsyncKeyState tells
    behind,    \* the application behind the overlay takes the button to be held
    \* the agent
    block,     \* NativeInputBlockState: [active, captured, down]
    shield,    \* the shield is shown
    ext,       \* ExternalClickTestState: [active, fresh, owned]
    clicked,   \* history: how the gesture of the last click counted began
    poll,      \* the polling thread: [pc, was, down]
    sync,      \* the request that holds the lock of ext: "no", "yes", or "hide"
    \* history
    began,     \* where the pointer was at the press
    polled,    \* the poll has seen this press, and no release was missed before it
    doubt      \* the pointer moved, or a sync ran, between the press and its poll

vars == <<button, at, async, behind, block, shield, ext, clicked, poll, sync, began, polled, doubt>>
mouseVars == <<button, at, async, behind>>
historyVars == <<began, polled, doubt>>

Places == {"hitbox", "rect", "out"}

Init ==
    /\ button = FALSE /\ at = "out" /\ async = FALSE /\ behind = FALSE
    /\ block = [active |-> FALSE, captured |-> FALSE, down |-> FALSE]
    /\ shield = FALSE
    /\ ext = [active |-> FALSE, fresh |-> FALSE, owned |-> FALSE]
    /\ clicked = "none"
    /\ poll = [pc |-> "sleep", was |-> FALSE, down |-> FALSE]
    /\ sync = "no"
    /\ began = "out" /\ polled = TRUE /\ doubt = FALSE

-----------------------------------------------------------------------------
(* The mouse and the hook.                                                    *)

Move(p) ==
    /\ p # at
    /\ at' = p
    /\ doubt' = (doubt \/ ~ polled)
    /\ UNCHANGED <<button, async, behind, block, shield, ext, clicked, poll, sync, began, polled>>

(* A press belongs to the window under it: the shield, if it is shown.        *)
Reaches == behind' = ~ shield

Pressed ==
    /\ ~ button /\ button' = TRUE
    /\ began' = at /\ polled' = FALSE
    /\ doubt' = (poll.was \/ poll.pc = "sampled")
    /\ UNCHANGED <<at, ext, clicked, poll, sync>>

Released ==
    /\ button /\ button' = FALSE /\ async' = FALSE
    /\ UNCHANGED <<at, ext, clicked, poll, sync, historyVars>>

Swallows == block.captured \/ (block.active /\ at # "out")

(* WM_LBUTTONDOWN: a swallowed press may or may not show in the async state.  *)
PressSwallowed ==
    /\ Swallows /\ Pressed
    /\ async' \in BOOLEAN
    /\ block' = [block EXCEPT !.captured = TRUE, !.down = TRUE]
    /\ shield' = TRUE
    /\ UNCHANGED behind

PressPassed ==
    /\ ~ Swallows /\ Pressed
    /\ async' = TRUE /\ Reaches
    /\ UNCHANGED <<block, shield>>

ReleasedInside == block.active /\ at # "out"

(* WM_LBUTTONUP: the release of a swallowed press, wherever it happens.       *)
SwallowsRelease == block.captured

ReleaseSwallowed ==
    /\ SwallowsRelease /\ Released
    /\ block' = [block EXCEPT !.captured = FALSE, !.down = FALSE]
    /\ shield' = FALSE
    /\ UNCHANGED behind

ReleasePassed ==
    /\ ~ SwallowsRelease /\ Released
    /\ behind' = FALSE
    /\ UNCHANGED <<block, shield>>

(* Windows calls the hook no more when it is too slow, or on another desktop. *)
PressMissed ==
    /\ Pressed /\ async' = TRUE /\ Reaches
    /\ UNCHANGED <<block, shield>>
ReleaseMissed ==
    /\ Released /\ behind' = FALSE
    /\ UNCHANGED <<block, shield>>

-----------------------------------------------------------------------------
(* external_mouse_input_thread                                                *)

(* Without an active test only the state of the button is kept.               *)
PollIdle ==
    /\ poll.pc = "sleep" /\ sync = "no" /\ ~ ext.active
    /\ poll' = [poll EXCEPT !.was = async]
    /\ ext' = [ext EXCEPT !.owned = FALSE]
    /\ polled' = TRUE
    /\ UNCHANGED <<mouseVars, block, shield, clicked, sync, began, doubt>>

(* The async state and the hook's, merged; the lock of ext comes later.       *)
PollSample ==
    /\ poll.pc = "sleep" /\ ext.active
    /\ poll' = [poll EXCEPT !.pc = "sampled", !.down = async \/ block.down]
    /\ UNCHANGED <<mouseVars, block, shield, ext, clicked, sync, historyVars>>

Hovered == ext.fresh /\ ext.active /\ at = "hitbox"

(* Whose gesture it is is settled when the button is first seen down.         *)
OwnedAlways == Hovered
Owned == IF poll.down /\ ~ poll.was THEN Hovered ELSE ext.owned

PollCount ==
    /\ poll.pc = "sampled" /\ sync = "no"
    /\ LET edge == poll.down # poll.was
       IN  /\ ext' = [ext EXCEPT !.owned = Owned /\ ~ (edge /\ ~ poll.down)]
           /\ clicked' = IF edge /\ ~ poll.down /\ Owned /\ Hovered
                         THEN IF doubt THEN "doubt" ELSE began
                         ELSE clicked
    /\ poll' = [pc |-> "sleep", was |-> poll.down, down |-> FALSE]
    /\ polled' = (polled \/ (poll.down /\ button))
    /\ UNCHANGED <<mouseVars, block, shield, sync, began, doubt>>

-----------------------------------------------------------------------------
(* sync_external_click_test, which holds the lock of ext to its end.          *)

(* Two seconds without a request: the geometry counts no more for clicks.     *)
GrowsStale ==
    /\ ext.fresh /\ sync = "no"
    /\ ext' = [ext EXCEPT !.fresh = FALSE]
    /\ UNCHANGED <<mouseVars, block, shield, clicked, poll, sync, historyVars>>

Kept(b) == b

(* A block that is switched off lets go of the press it holds.                *)
LetGo(b) == IF b.active THEN b ELSE [b EXCEPT !.captured = FALSE, !.down = FALSE]

Sync(active, blocks) ==
    /\ sync = "no"
    /\ ext' = [ext EXCEPT !.active = active, !.fresh = TRUE]
    /\ block' = LetGo([block EXCEPT !.active = active /\ blocks])
    /\ sync' = IF block'.captured # block.captured THEN "hide" ELSE "yes"
    /\ doubt' = (doubt \/ ~ polled)
    /\ UNCHANGED <<mouseVars, shield, clicked, poll, began, polled>>

(* The shield is hidden when the lock of the block is free again.             *)
SyncHides ==
    /\ sync = "hide"
    /\ shield' = FALSE /\ sync' = "yes"
    /\ UNCHANGED <<mouseVars, block, ext, clicked, poll, historyVars>>

SyncReturns ==
    /\ sync = "yes" /\ sync' = "no"
    /\ UNCHANGED <<mouseVars, block, shield, ext, clicked, poll, historyVars>>

Next ==
    \/ \E p \in Places : Move(p)
    \/ PressSwallowed \/ PressPassed \/ ReleaseSwallowed \/ ReleasePassed
    \/ PressMissed \/ ReleaseMissed
    \/ PollIdle \/ PollSample \/ PollCount
    \/ GrowsStale \/ \E active, blocks \in BOOLEAN : Sync(active, blocks)
    \/ SyncHides \/ SyncReturns

Spec == Init /\ [][Next]_vars

-----------------------------------------------------------------------------
(* Every variable has its type.                                               *)
TypeOK ==
    /\ {button, async, behind, shield, polled, doubt} \subseteq BOOLEAN
    /\ at \in Places /\ began \in Places
    /\ block \in [active : BOOLEAN, captured : BOOLEAN, down : BOOLEAN]
    /\ ext \in [active : BOOLEAN, fresh : BOOLEAN, owned : BOOLEAN]
    /\ clicked \in Places \cup {"none", "doubt"}
    /\ poll \in [pc : {"sleep", "sampled"}, was : BOOLEAN, down : BOOLEAN]
    /\ sync \in {"no", "yes", "hide"}

(* The application behind the overlay is never left with a button that it     *)
(* takes to be held after it was released: whoever got the press gets the     *)
(* release, also when the hook missed events or the block was switched off in *)
(* between.                                                                   *)
GameReleased == behind => button

(* The shield, which takes every click of the whole screen, is shown exactly  *)
(* while a press is held for the overlay, and none is held when the block is  *)
(* off, except for the moment in which a sync is about to hide the shield.    *)
ShieldMatches ==
    /\ shield <=> block.captured \/ sync = "hide"
    /\ block.captured => block.active

(* A click is counted for a gesture that began over the hitbox: a button that *)
(* went down elsewhere and is dragged over it makes none, unless pointer or   *)
(* geometry changed within the period of the poll (doubt).                    *)
ClickOwned == clicked \in {"none", "doubt", "hitbox"}
===============================================================================
