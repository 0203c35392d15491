------------------------------ MODULE LiveJournal ------------------------------
(* The file that keeps the live events no Relay has acknowledged over a        *)
(* restart of the agent: DurableReplayBuffer::persist_live_pending,            *)
(* write_live_pending and load_from_path (supervisor.rs) behind the gate of    *)
(* blocking_io.rs.  The loop of the connection waits two seconds for a write;  *)
(* the write goes on behind the gate, and the agent may die at any step of it. *)
EXTENDS Naturals, Sequences, SequencesExt

CONSTANTS
    MaxEvents,   \* bound: events tracked
    MaxCrashes,  \* bound: crashes and restarts
    MaxFaults,   \* bound: writes that fail, and answers that take longer than 2 s
    None

VARIABLES
    phase,     \* the supervisor: "down", "loading" or "up"
    pending,   \* the live events of DurableReplayBuffer.pending
    tracked,   \* events tracked so far
    dirty,     \* persistence_dirty
    resync,    \* needs_live_resync
    waiting,   \* the loop waits for the write under way
    write,     \* the write behind the gate
    file,      \* live-delta-pending.json: None, Partial or the events in it
    temps,     \* the files .live-delta-pending-*.tmp, oldest first
    promised,  \* history: events whose track returned Ok, not acknowledged since
    crashes, faults

vars == <<phase, pending, tracked, dirty, resync, waiting, write, file, temps, promised,
          crashes, faults>>

Partial == <<0>>   \* a file not completely written
NoWrite == [pc |-> "idle", data |-> <<>>]

Init ==
    /\ phase = "loading" /\ pending = <<>> /\ tracked = 0
    /\ dirty = FALSE /\ resync = FALSE /\ waiting = FALSE
    /\ write = NoWrite /\ file = None /\ temps = <<>>
    /\ promised = {} /\ crashes = 0 /\ faults = 0

Live == phase = "up" /\ ~ waiting
Fault == faults < MaxFaults /\ faults' = faults + 1

-----------------------------------------------------------------------------
(* The loop: persist_live_pending of the new events.                          *)

(* BlockingIo::run: one operation at a time; else the caller has its error.   *)
Persist(events) ==
    /\ dirty' = TRUE
    /\ IF write.pc = "idle"
       THEN write' = [pc |-> "begin", data |-> events] /\ waiting' = TRUE
       ELSE UNCHANGED <<write, waiting>>

Track ==
    /\ Live /\ tracked < MaxEvents
    /\ tracked' = tracked + 1
    /\ pending' = Append(pending, tracked')
    /\ Persist(pending')
    /\ UNCHANGED <<phase, resync, file, temps, promised, crashes, faults>>

(* ack and drop_live_stream: events leave, and are promised no longer.        *)
Leave(left, gone) ==
    /\ Live
    /\ pending' = left
    /\ promised' = promised \ gone
    /\ Persist(left)
    /\ UNCHANGED <<phase, tracked, resync, file, temps, crashes, faults>>

Ack(i) == Leave(RemoveAt(pending, i), {pending[i]})
DropStream == pending # <<>> /\ Leave(<<>>, ToSet(pending))

(* durable_replay_tick, of a buffer whose last write failed.                  *)
Retry ==
    /\ Live /\ dirty
    /\ Persist(pending)
    /\ UNCHANGED <<phase, pending, tracked, resync, file, temps, promised, crashes, faults>>

(* REPLAY_DISK_TIMEOUT: the loop goes on, the write too.                      *)
WriteTimesOut ==
    /\ waiting /\ Fault
    /\ waiting' = FALSE
    /\ UNCHANGED <<phase, pending, tracked, dirty, resync, write, file, temps, promised, crashes>>

(* A session_bound takes the request for a full snapshot.                     *)
TakeResync ==
    /\ Live /\ resync
    /\ resync' = FALSE
    /\ UNCHANGED <<phase, pending, tracked, dirty, waiting, write, file, temps, promised, crashes, faults>>

-----------------------------------------------------------------------------
(* write_live_pending                                                         *)

Writing(pc) == write.pc = pc
GoTo(pc) == write' = [write EXCEPT !.pc = pc]

Create ==
    /\ Writing("begin")
    /\ temps' = Append(temps, Partial)
    /\ GoTo("created")
    /\ UNCHANGED <<phase, pending, tracked, dirty, resync, waiting, file, promised, crashes, faults>>

Fill == ReplaceAt(temps, Len(temps), write.data)

Sync ==
    /\ Writing("created")
    /\ temps' = Fill
    /\ GoTo("synced")
    /\ UNCHANGED <<phase, pending, tracked, dirty, resync, waiting, file, promised, crashes, faults>>

RemoveOld ==
    /\ Writing("synced")
    /\ file' = None
    /\ GoTo("removed")
    /\ UNCHANGED <<phase, pending, tracked, dirty, resync, waiting, temps, promised, crashes, faults>>

(* The call is over; its caller, if it still waits, learns the result.        *)
Ends(ok) ==
    /\ write' = NoWrite
    /\ waiting' = FALSE
    /\ IF waiting /\ ok
       THEN dirty' = FALSE /\ promised' = ToSet(write.data)
       ELSE UNCHANGED <<dirty, promised>>

Rename ==
    /\ Writing("removed")
    /\ file' = write.data
    /\ temps' = Front(temps)
    /\ Ends(TRUE)
    /\ UNCHANGED <<phase, pending, tracked, resync, crashes, faults>>

AlwaysCleaned(f, t) == Front(t)

(* After a failure the temporary file goes, unless it is the only one left.   *)
Cleaned(f, t) == IF f = None THEN t ELSE Front(t)

WriteFails ==
    /\ write.pc # "idle" /\ Fault
    /\ temps' = IF Writing("begin") THEN temps ELSE Cleaned(file, temps)
    /\ Ends(FALSE)
    /\ UNCHANGED <<phase, pending, tracked, resync, file, crashes>>

-----------------------------------------------------------------------------
(* The end of the agent, of the supervisor alone, and the next beginning.     *)

Ended ==
    /\ crashes < MaxCrashes /\ crashes' = crashes + 1
    /\ phase' = "loading" /\ pending' = <<>>
    /\ dirty' = FALSE /\ resync' = FALSE /\ waiting' = FALSE
    /\ UNCHANGED <<tracked, file, temps, promised, faults>>

Crash == phase = "up" /\ Ended /\ write' = NoWrite

(* A new supervisor in the same process: the write behind the gate goes on,   *)
(* and nothing is loaded before it is over.                                   *)
Restart == phase = "up" /\ Ended /\ UNCHANGED write

NothingRecovered == [file |-> file, temps |-> temps]

(* Without the file the temporary one written last takes its place.           *)
Recovered ==
    IF file # None \/ temps = <<>> THEN [file |-> file, temps |-> temps]
    ELSE [file |-> Last(temps), temps |-> Front(temps)]

(* A file that cannot be read is set aside and a full snapshot asked for.     *)
Load ==
    /\ phase = "loading" /\ write.pc = "idle"
    /\ LET found == Recovered
           unreadable == found.file = Partial
       IN  /\ file' = IF unreadable THEN None ELSE found.file
           /\ temps' = found.temps
           /\ pending' = IF found.file \in {None, Partial} THEN <<>> ELSE found.file
           /\ resync' = unreadable
           /\ promised' = IF unreadable THEN {} ELSE promised
    /\ phase' = "up"
    /\ UNCHANGED <<tracked, dirty, waiting, write, crashes, faults>>

(* The temporary file cannot be renamed.                                      *)
LoadFails ==
    /\ phase = "loading" /\ write.pc = "idle" /\ Fault
    /\ file = None /\ temps # <<>>
    /\ pending' = <<>> /\ resync' = TRUE /\ promised' = {}
    /\ phase' = "up"
    /\ UNCHANGED <<tracked, dirty, waiting, write, file, temps, crashes>>

Next ==
    \/ Track \/ \E i \in 1..Len(pending) : Ack(i)
    \/ DropStream \/ Retry \/ WriteTimesOut \/ TakeResync
    \/ Create \/ Sync \/ RemoveOld \/ Rename \/ WriteFails
    \/ Crash \/ Restart \/ Load \/ LoadFails

Spec == Init /\ [][Next]_vars

-----------------------------------------------------------------------------
Lists == Seq(0..MaxEvents)

(* Every variable has its type.                                               *)
TypeOK ==
    /\ phase \in {"loading", "up"}
    /\ pending \in Seq(1..MaxEvents) /\ tracked \in 0..MaxEvents
    /\ dirty \in BOOLEAN /\ resync \in BOOLEAN /\ waiting \in BOOLEAN
    /\ write \in [pc : {"idle", "begin", "created", "synced", "removed"}, data : Seq(1..MaxEvents)]
    /\ file \in Lists \cup {None} /\ temps \in Seq(Lists)
    /\ promised \subseteq 1..MaxEvents
    /\ crashes \in 0..MaxCrashes /\ faults \in 0..MaxFaults

(* An event that track reported as kept and no Relay acknowledged is pending, *)
(* also after the agent died at any step of any write, writes that failed or  *)
(* were given up, and restarts of the supervisor while one went on; only a    *)
(* file that cannot be read loses it, and then a full snapshot is asked for.  *)
PromisedPending == phase = "up" => promised \subseteq ToSet(pending)

(* While nothing is marked as unsaved and no write is under way, the file     *)
(* holds exactly what is pending (persistence_dirty).                         *)
SavedIsPending ==
    phase = "up" /\ ~ dirty /\ write.pc = "idle" =>
       pending = IF file = None THEN <<>> ELSE file
===============================================================================
