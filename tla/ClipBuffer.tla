------------------------------ MODULE ClipBuffer ------------------------------
(* The rolling clip buffer of the recorder (recording.rs): a capture that      *)
(* writes short segments, a ring of them kept on disk, and the export of the   *)
(* latest ones to a clip, which reads the segments without the mutex while     *)
(* the capture goes on.                                                        *)
EXTENDS Naturals, Sequences

CONSTANTS
    MaxKept,       \* MAX_BUFFER_DURATION, in segments
    MaxClip,       \* longest clip, in segments
    MaxSegments,   \* bound: how many segments a capture writes
    MaxCaptures    \* bound: how many captures are begun

VARIABLES
    capture,     \* number of the capture the manager holds or last held
    held,        \* manager.rolling is some
    running,     \* that capture still runs
    written,     \* how many segments it has begun
    open,        \* the last of them is being encoded
    ring,        \* its finished segments, oldest first
    protected,   \* the segments of it an export has reserved
    disk,        \* the segment files there are
    directory,   \* manager.rolling_directory: the capture it belongs to, 0 for none
    exporting,   \* manager.clip_exporting
    export,      \* the export under way: where it is and which files it reads
    doubled      \* history: a segment was committed twice

vars == <<capture, held, running, written, open, ring, protected, disk, directory,
          exporting, export, doubled>>

File(i) == <<capture, i>>
NoExport == [pc |-> "idle", paths |-> {}]

Init ==
    /\ capture = 0 /\ held = FALSE /\ running = FALSE
    /\ written = 0 /\ open = FALSE /\ doubled = FALSE /\ ring = <<>> /\ protected = {}
    /\ disk = {} /\ directory = 0
    /\ exporting = FALSE /\ export = NoExport

-----------------------------------------------------------------------------
(* RollingCapture.                                                            *)

PrunableAll(r, p) == IF Len(r) > MaxKept THEN Len(r) - MaxKept ELSE 0

(* How many segments prune drops from the front: as many as are too many, but *)
(* none from the first protected one on.                                      *)
Surplus(r) == IF Len(r) > MaxKept THEN Len(r) - MaxKept ELSE 0
Prunable(r, p) ==
    CHOOSE n \in 0..Surplus(r) :
       /\ \A i \in 1..n : r[i] \notin p
       /\ n < Surplus(r) => r[n + 1] \in p

NotPruned(r, p) ==
    /\ ring' = r
    /\ disk' = disk \cup {File(written')}

Prune(r, p) ==
    LET n == Prunable(r, p)
    IN  /\ ring' = SubSeq(r, n + 1, Len(r))
        /\ disk' = (disk \cup {File(written')}) \ {r[i] : i \in 1..n}

(* commit_current_segment, of a file that is there: also when no segment is   *)
(* open, since the path is still the last one's.                              *)
Committed == IF File(written) \in disk THEN Append(ring, File(written)) ELSE ring

(* rotate_segment: the segment is committed, the next begun, the ring pruned. *)
Rotated ==
    /\ written < MaxSegments
    /\ written' = written + 1
    /\ open' = TRUE
    /\ doubled' = (doubled \/ (~ open /\ File(written) \in disk))
    /\ Prune(Committed, protected)

Frame ==
    /\ running
    /\ Rotated
    /\ UNCHANGED <<capture, held, running, protected, directory, exporting, export>>

(* A frame cannot be encoded or a segment not be finished, or the captured    *)
(* window is gone: the capture ends.                                          *)
CaptureEnds ==
    /\ running
    /\ running' = FALSE
    /\ UNCHANGED <<capture, held, written, open, ring, protected, disk, directory, exporting, export, doubled>>

-----------------------------------------------------------------------------
(* The commands.  Each begins with cleanup_finished.                          *)

Holds == held /\ running

(* status: nothing else, but cleanup_finished lets an ended capture go.       *)
GetStatus ==
    /\ held /\ ~ running
    /\ held' = FALSE
    /\ UNCHANGED <<capture, running, written, open, ring, protected, disk, directory, exporting, export, doubled>>

(* start_clip_buffer: a capture of its own directory, unless one is held.     *)
StartClipBuffer ==
    /\ ~ Holds
    /\ capture < MaxCaptures
    /\ capture' = capture + 1
    /\ held' = TRUE /\ running' = TRUE
    /\ written' = 1 /\ open' = TRUE /\ ring' = <<>> /\ protected' = {}
    /\ disk' = disk \cup {<<capture + 1, 1>>}
    /\ directory' = capture + 1
    /\ UNCHANGED <<exporting, export, doubled>>

MayStopAnyway == TRUE
MayStop == ~ exporting

(* stop_clip_buffer: refused during an export; the directory goes with all    *)
(* its segments.                                                              *)
StopClipBuffer ==
    /\ MayStop
    /\ held' = FALSE /\ running' = FALSE
    /\ written' = 0 /\ open' = FALSE /\ ring' = <<>> /\ protected' = {}
    /\ disk' = {f \in disk : f[1] # directory}
    /\ directory' = 0
    /\ UNCHANGED <<capture, exporting, export, doubled>>

(* save_last_clip, under the mutex: the open segment is rotated in when it is *)
(* long enough, and the latest segments are reserved.                         *)
Latest(r, n) == {r[i] : i \in {j \in 1..Len(r) : j > Len(r) - n}}

Reserve(n) ==
    /\ ~ exporting
    /\ Holds
    /\ export.pc = "idle"
    /\ \/ Rotated
       \/ UNCHANGED <<written, open, ring, disk, doubled>>
    /\ ring' # <<>>
    /\ protected' = protected \cup Latest(ring', n)
    /\ exporting' = TRUE
    /\ export' = [pc |-> "reserved", paths |-> Latest(ring', n)]
    /\ UNCHANGED <<capture, held, running, directory>>

(* The open segment is committed for the clip, but the next cannot be begun:  *)
(* the call ends with the error, the capture goes on without a segment.       *)
ReserveFails ==
    /\ ~ exporting
    /\ Holds /\ open
    /\ export.pc = "idle"
    /\ ring' = Committed
    /\ open' = FALSE
    /\ UNCHANGED <<capture, held, running, written, protected, disk, directory, exporting, export, doubled>>

(* The folder for clips cannot be made: the call returns there.               *)
NoClipFolder ==
    /\ export.pc = "reserved"
    /\ export' = NoExport
    /\ UNCHANGED <<capture, held, running, written, open, ring, protected, disk, directory, exporting, doubled>>

Render ==
    /\ export.pc = "reserved"
    /\ export' = [export EXCEPT !.pc = "rendering"]
    /\ UNCHANGED <<capture, held, running, written, open, ring, protected, disk, directory, exporting, doubled>>

(* The clip is written, or not; the reservation ends either way.              *)
Release(p) ==
    LET n == Prunable(ring, p)
    IN  /\ ring' = SubSeq(ring, n + 1, Len(ring))
        /\ disk' = disk \ {ring[i] : i \in 1..n}
Rendered ==
    /\ export.pc = "rendering"
    /\ export' = NoExport
    /\ exporting' = FALSE
    /\ IF held
       THEN /\ protected' = protected \ export.paths
            /\ Release(protected \ export.paths)
       ELSE UNCHANGED <<protected, ring, disk>>
    /\ UNCHANGED <<capture, held, running, written, open, directory, doubled>>

Next ==
    \/ Frame \/ CaptureEnds
    \/ GetStatus \/ StartClipBuffer \/ StopClipBuffer
    \/ \E n \in 1..MaxClip : Reserve(n)
    \/ ReserveFails \/ NoClipFolder \/ Render \/ Rendered

Spec == Init /\ [][Next]_vars

-----------------------------------------------------------------------------
Files == (1..MaxCaptures) \X (1..MaxSegments)

(* Every variable has its type.                                               *)
TypeOK ==
    /\ capture \in 0..MaxCaptures /\ directory \in 0..MaxCaptures
    /\ held \in BOOLEAN /\ running \in BOOLEAN /\ exporting \in BOOLEAN
    /\ written \in 0..MaxSegments /\ open \in BOOLEAN /\ doubled \in BOOLEAN
    /\ ring \in Seq(Files)
    /\ protected \subseteq Files /\ disk \subseteq Files
    /\ export \in [pc : {"idle", "reserved", "rendering"}, paths : SUBSET Files]

(* A file an export reads stays on disk until the export has ended, although  *)
(* the capture goes on pruning, may end, be restarted or be asked to stop     *)
(* (reserve_export, prune, stop_clip_buffer); unless a segment was committed  *)
(* twice, so that one of its entries outlives the file.                       *)
ExportedStay == ~ doubled => export.paths \subseteq disk

(* On disk the buffer keeps no more than its length, but for what an export   *)
(* holds up: it is longer only while exporting and while its oldest segment   *)
(* is one that is reserved (prune, release_export).  That covers an export    *)
(* whose folder could not be made, which leaves clip_exporting and its        *)
(* reservation behind, so that the buffer then grows as long as it runs.      *)
BufferBounded ==
    held /\ open /\ Len(ring) > MaxKept => exporting /\ ring[1] \in protected
=============================================================================
