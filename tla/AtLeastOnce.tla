------------------------------ MODULE AtLeastOnce ------------------------------
(***************************************************************************)
(* What the durable events of the agent (relay/supervisor.rs) are promised: *)
(* an event that was accepted stays pending until it has been stored, and   *)
(* is forgotten earlier only if it was given up (the buffer overflowed, the *)
(* buffer's owner ended, the event was never buffered).  It may be stored   *)
(* several times, and after it was given up as well.                        *)
(***************************************************************************)
CONSTANT Events

VARIABLES pending,  \* accepted and not yet confirmed
          stored,   \* stored by the API or the bot
          lost      \* given up before a confirmation arrived

vars == <<pending, stored, lost>>

Accepted == pending \cup stored \cup lost

Init == pending = {} /\ stored = {} /\ lost = {}

\* A new event; at most one older event is given up for it.
Submit(e) ==
    /\ e \notin Accepted
    /\ \E given \in {{}} \cup {{d} : d \in pending} :
          /\ pending' = (pending \ given) \cup {e}
          /\ lost' = lost \cup given
    /\ UNCHANGED stored

SubmitUnbuffered(e) ==
    /\ e \notin Accepted
    /\ lost' = lost \cup {e}
    /\ UNCHANGED <<pending, stored>>

Store(e) ==
    /\ e \in Accepted
    /\ stored' = stored \cup {e}
    /\ UNCHANGED <<pending, lost>>

Confirm(e) ==
    /\ e \in pending \cap stored
    /\ pending' = pending \ {e}
    /\ UNCHANGED <<stored, lost>>

GiveUp ==
    /\ lost' = lost \cup pending
    /\ pending' = {}
    /\ UNCHANGED stored

Next ==
    \/ \E e \in Events : Submit(e) \/ SubmitUnbuffered(e) \/ Store(e) \/ Confirm(e)
    \/ GiveUp

Spec == Init /\ [][Next]_vars
===============================================================================
