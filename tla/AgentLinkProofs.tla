---------------------------- MODULE AgentLinkProofs ----------------------------
(***************************************************************************)
(* Proofs about the parts of the agent's link to the Relay that MCAgentLink *)
(* puts side by side. Each part has its inductive invariant and one lemma    *)
(* per group of actions; the theorems at the end of a part are about the      *)
(* composed specification, whose steps are steps of one part.                *)
(***************************************************************************)
EXTENDS MCAgentLink, SequenceTheorems, FiniteSetTheorems, TLAPS

\* The variables of the parts, and those of the composition.
vars == <<part, sessionVars, journalVars, heartbeatVars, commandVars, clientVars>>

-------------------------------------------------------------------------------
(* The live journal                                                           *)

Events == Seq(1..MaxEvents)
TempFiles == Events \cup {Journal!Partial}
SetOf(q) == {q[i] : i \in 1..Len(q)}

\* What the next load finds.
Recoverable ==
    IF journal # None THEN journal
    ELSE IF temps = <<>> THEN <<>> ELSE temps[Len(temps)]

\* Only a temporary file can be incomplete, and only the last one.
Files ==
    /\ journal \in Events \cup {None}
    /\ temps \in Seq(TempFiles)
    /\ write.pc = "created" => temps # <<>> /\ temps[Len(temps)] = Journal!Partial
    /\ write.pc \in {"synced", "removed"} => temps # <<>> /\ temps[Len(temps)] = write.data
    /\ write.pc = "removed" => journal = None

\* The loop waits for a write of what is pending; what it writes, and what a
\* load would find, holds everything that was promised.
Kept ==
    /\ phase = "loading" => ~dirty /\ ~waiting
    /\ waiting => write.pc # "idle" /\ write.data = pending
    /\ write.pc # "idle" => promised \subseteq SetOf(write.data)
    /\ phase = "up" => promised \subseteq SetOf(pending)
    /\ Recoverable = Journal!Partial \/ promised \subseteq SetOf(Recoverable)
    /\ phase = "up" /\ ~dirty =>
          write.pc = "idle" /\ pending = IF journal = None THEN <<>> ELSE journal

JournalInv == Journal!TypeOK /\ Files /\ Kept

\* The library's names for what is in a sequence, and for its ends.
LEMMA ToSetIsSetOf == ASSUME NEW A, NEW q \in Seq(A) PROVE Journal!ToSet(q) = SetOf(q)
PROOF
  BY DEF Journal!ToSet, SetOf

LEMMA SetOfIn == ASSUME NEW A, NEW q \in Seq(A) PROVE SetOf(q) \subseteq A
PROOF
  BY DEF SetOf

LEMMA SetOfAppend ==
    ASSUME NEW A, NEW q \in Seq(A), NEW e \in A
    PROVE  SetOf(q) \subseteq SetOf(Append(q, e))
PROOF
<1>1. Len(Append(q, e)) = Len(q) + 1 /\ \A i \in 1..Len(q) : Append(q, e)[i] = q[i]
  OBVIOUS
<1>2. 1..Len(q) \subseteq 1..(Len(q) + 1)
  OBVIOUS
<1> DEFINE r == Append(q, e)
<1> HIDE DEF r
<1>3. \A i \in 1..Len(q) : r[i] = q[i] /\ i \in 1..Len(r)
  BY <1>1, <1>2 DEF r
<1>4. SetOf(q) \subseteq SetOf(r)
  BY <1>3 DEF SetOf
<1> QED
  BY <1>4 DEF r

LEMMA ConcatIs ==
    ASSUME NEW A, NEW a \in Seq(A), NEW b \in Seq(A)
    PROVE  /\ a \o b \in Seq(A) /\ Len(a \o b) = Len(a) + Len(b)
           /\ \A j \in 1..Len(a) : (a \o b)[j] = a[j]
           /\ \A j \in 1..Len(b) : (a \o b)[Len(a) + j] = b[j]
PROOF
<1>1. Len(a) \in Nat /\ Len(b) \in Nat
  OBVIOUS
<1>2. ASSUME NEW j \in 1..Len(b)
      PROVE  /\ Len(a) + j \in 1..(Len(a) + Len(b)) /\ ~(Len(a) + j <= Len(a)) /\ (Len(a) + j) - Len(a) = j
  BY <1>1
<1>3. ASSUME NEW j \in 1..Len(b) PROVE (a \o b)[Len(a) + j] = b[j]
  <2> DEFINE k == Len(a) + j
  <2>1. k \in 1..(Len(a) + Len(b)) /\ ~(k <= Len(a)) /\ k - Len(a) = j
    BY <1>2
  <2> HIDE DEF k
  <2>2. (a \o b)[k] = b[k - Len(a)]
    BY <2>1, ConcatProperties
  <2> QED
    BY <2>1, <2>2 DEF k
<1>4. ASSUME NEW j \in 1..Len(a) PROVE (a \o b)[j] = a[j]
  <2>1. j \in 1..(Len(a) + Len(b)) /\ j <= Len(a)
    BY <1>1
  <2> QED
    BY <2>1, ConcatProperties
<1> QED
  BY <1>3, <1>4, ConcatProperties

LEMMA SetOfRemoveAt ==
    ASSUME NEW A, NEW q \in Seq(A), NEW i \in 1..Len(q)
    PROVE  /\ Journal!RemoveAt(q, i) \in Seq(A)
           /\ SetOf(q) \ {q[i]} \subseteq SetOf(Journal!RemoveAt(q, i))
PROOF
<1> DEFINE a == SubSeq(q, 1, i - 1)
           b == SubSeq(q, i + 1, Len(q))
<1>1. /\ a \in Seq(A) /\ Len(a) = i - 1 /\ \A j \in 1..(i - 1) : a[j] = q[j]
      /\ b \in Seq(A) /\ Len(b) = Len(q) - i /\ \A j \in 1..(Len(q) - i) : b[j] = q[i + j]
  OBVIOUS
<1>2. Journal!RemoveAt(q, i) = a \o b
  BY DEF Journal!RemoveAt
<1> HIDE DEF a, b
<1>3. /\ a \o b \in Seq(A) /\ Len(a \o b) = Len(a) + Len(b)
      /\ \A j \in 1..Len(a) : (a \o b)[j] = a[j]
      /\ \A j \in 1..Len(b) : (a \o b)[Len(a) + j] = b[j]
  <2>1. a \in Seq(A) /\ b \in Seq(A)
    BY <1>1
  <2> QED
    BY <2>1, ConcatIs
<1> DEFINE r == a \o b
<1>4. /\ Len(r) = Len(q) - 1
      /\ \A j \in 1..(i - 1) : r[j] = q[j]
      /\ \A j \in 1..(Len(q) - i) : r[(i - 1) + j] = q[i + j]
  BY <1>1, <1>3
<1> HIDE DEF r
<1>5. ASSUME NEW j \in 1..Len(q), j # i PROVE \E k \in 1..Len(r) : r[k] = q[j]
  <2>1. CASE j < i
    <3>1. r[j] = q[j] /\ j \in 1..Len(r)
      BY <1>4, <2>1
    <3> QED
      BY <3>1
  <2>2. CASE j > i
    <3>1. j - i \in 1..(Len(q) - i) /\ i + (j - i) = j /\ (i - 1) + (j - i) = j - 1
      BY <2>2
    <3>2. r[j - 1] = q[j]
      BY <1>4, <3>1
    <3>3. j - 1 \in 1..Len(r)
      BY <1>4, <2>2
    <3> QED
      BY <3>2, <3>3
  <2> QED
    BY <1>5, <2>1, <2>2
<1>6. SetOf(q) \ {q[i]} \subseteq SetOf(r)
  BY <1>5 DEF SetOf
<1> QED
  BY <1>2, <1>3, <1>6 DEF r

\* The last of the temporary files is written, removed or added.
LEMMA LastFile ==
    ASSUME NEW A, NEW q \in Seq(A), NEW e \in A
    PROVE  /\ Append(q, e) \in Seq(A) /\ Append(q, e) # <<>>
           /\ Len(Append(q, e)) = Len(q) + 1 /\ Append(q, e)[Len(q) + 1] = e
           /\ q # <<>> =>
                /\ Journal!Front(q) \in Seq(A)
                /\ Journal!Last(q) = q[Len(q)] /\ q[Len(q)] \in A
                /\ Journal!ReplaceAt(q, Len(q), e) \in Seq(A)
                /\ Journal!ReplaceAt(q, Len(q), e) # <<>>
                /\ Len(Journal!ReplaceAt(q, Len(q), e)) = Len(q)
                /\ Journal!ReplaceAt(q, Len(q), e)[Len(q)] = e
PROOF
  BY DEF Journal!Front, Journal!Last, Journal!ReplaceAt

LEMMA JournalValues ==
    /\ None \notin Events /\ None # Journal!Partial
    /\ Events \subseteq Journal!Lists /\ Journal!Partial \in Journal!Lists
    /\ <<>> \in Events
PROOF
<1>1. Events \subseteq Seq(Nat) /\ Journal!Partial \in Seq(Nat)
  BY JournalBoundsAreNats DEF Events, Journal!Partial
<1>2. Events \subseteq Journal!Lists /\ Journal!Partial \in Journal!Lists /\ <<>> \in Events
  BY JournalBoundsAreNats DEF Events, Journal!Lists, Journal!Partial
<1> QED
  BY <1>1, <1>2, NoneIsNothing

LEMMA JournalInit == Journal!Init => JournalInv
PROOF
<1> SUFFICES ASSUME Journal!Init
             PROVE  JournalInv
  OBVIOUS
<1>1. pending = <<>> /\ promised = {} /\ write = [pc |-> "idle", data |-> <<>>] /\ journal = None /\ temps = <<>>
  BY DEF Journal!Init, Journal!NoWrite
<1>2. phase = "loading" /\ dirty = FALSE /\ waiting = FALSE /\ resync = FALSE
  BY DEF Journal!Init
<1>3. tracked \in 0..MaxEvents /\ crashes \in 0..MaxCrashes /\ failures \in 0..MaxFailures
  BY JournalBoundsAreNats DEF Journal!Init
<1>4. dirty \in BOOLEAN /\ waiting \in BOOLEAN /\ resync \in BOOLEAN
  BY <1>2
<1>5. write \in [pc : {"idle", "begin", "created", "synced", "removed"}, data : Seq(1..MaxEvents)]
  BY <1>1
<1>6. pending \in Seq(1..MaxEvents) /\ temps \in Seq(Journal!Lists) /\ temps \in Seq(TempFiles)
  BY <1>1
<1>7. Journal!TypeOK
  BY <1>1, <1>2, <1>3, <1>4, <1>5, <1>6 DEF Journal!TypeOK
<1>8. Files
  BY <1>1, <1>6 DEF Files
<1>9. Kept
  BY <1>1, <1>2 DEF Kept, Recoverable
<1> QED
  BY <1>7, <1>8, <1>9 DEF JournalInv

\* The loop gives the gate what is pending, or finds it taken.
LEMMA PersistKept ==
    ASSUME JournalInv, phase = "up", ~waiting,
           pending' \in Events, Journal!Persist(pending'),
           promised' \subseteq promised, promised' \subseteq SetOf(pending'),
           UNCHANGED <<phase, resync, journal, temps, crashes, failures>>, tracked' \in 0..MaxEvents
    PROVE  JournalInv'
PROOF
<1>1. CASE write.pc = "idle"
  <2>1. write' = [pc |-> "begin", data |-> pending'] /\ waiting' = TRUE /\ dirty' = TRUE
    BY <1>1 DEF Journal!Persist
  <2>2. write' \in [pc : {"idle", "begin", "created", "synced", "removed"}, data : Seq(1..MaxEvents)]
    BY <2>1 DEF Events
  <2>3. waiting' \in BOOLEAN /\ dirty' \in BOOLEAN
    BY <2>1
  <2>4. Journal!TypeOK'
    BY <2>2, <2>3 DEF JournalInv, Journal!TypeOK, Events
  <2>5. Files'
    BY <2>1 DEF JournalInv, Files
  <2>6. Kept'
    BY <2>1 DEF JournalInv, Kept, Recoverable
  <2> QED
    BY <2>4, <2>5, <2>6 DEF JournalInv
<1>2. CASE write.pc # "idle"
  <2>1. UNCHANGED <<write, waiting>> /\ dirty' = TRUE
    BY <1>2 DEF Journal!Persist
  <2>2. dirty' \in BOOLEAN
    BY <2>1
  <2>3. Journal!TypeOK'
    BY <2>1, <2>2 DEF JournalInv, Journal!TypeOK, Events
  <2>4. Files'
    BY <2>1 DEF JournalInv, Files
  <2>5. Kept'
    BY <2>1 DEF JournalInv, Kept, Recoverable
  <2> QED
    BY <2>3, <2>4, <2>5 DEF JournalInv
<1> QED
  BY <1>1, <1>2
LEMMA TrackKept == ASSUME JournalInv, Journal!Track PROVE JournalInv'
PROOF
<1>1. phase = "up" /\ ~waiting /\ tracked' = tracked + 1 /\ tracked < MaxEvents /\ pending' = Append(pending, tracked')
  BY DEF Journal!Track, Journal!Live
<1>2. pending \in Events /\ tracked \in 0..MaxEvents /\ promised \subseteq SetOf(pending)
  BY <1>1 DEF JournalInv, Journal!TypeOK, Kept, Events
<1>3. tracked' \in 1..MaxEvents
  BY <1>1, <1>2, JournalBoundsAreNats
<1>4. pending' \in Events /\ SetOf(pending) \subseteq SetOf(pending')
  <2>1. pending \in Seq(1..MaxEvents)
    BY <1>2 DEF Events
  <2>2. SetOf(pending) \subseteq SetOf(Append(pending, tracked')) /\ Append(pending, tracked') \in Seq(1..MaxEvents)
    BY <1>3, <2>1, SetOfAppend, AppendProperties, Zenon
  <2> QED
    BY <1>1, <2>2, Zenon DEF Events
<1>5. Journal!Persist(pending') /\ UNCHANGED <<phase, resync, journal, temps, promised, crashes, failures>>
  BY DEF Journal!Track
<1> QED
  BY <1>1, <1>2, <1>3, <1>4, <1>5, PersistKept

LEMMA LeaveKept ==
    ASSUME JournalInv, NEW left \in Events, NEW gone, Journal!Leave(left, gone),
           SetOf(pending) \ gone \subseteq SetOf(left)
    PROVE  JournalInv'
PROOF
<1>1. phase = "up" /\ ~waiting /\ pending' = left /\ promised' = promised \ gone
  BY DEF Journal!Leave, Journal!Live
<1>2. promised \subseteq SetOf(pending) /\ tracked \in 0..MaxEvents
  BY <1>1 DEF JournalInv, Kept, Journal!TypeOK
<1>3. promised' \subseteq promised /\ promised' \subseteq SetOf(pending')
  BY <1>1, <1>2
<1>4. Journal!Persist(pending') /\ UNCHANGED <<phase, tracked, resync, journal, temps, crashes, failures>>
  BY <1>1 DEF Journal!Leave
<1> QED
  BY <1>1, <1>2, <1>3, <1>4, PersistKept

LEMMA LoopKept ==
    ASSUME JournalInv,
           \/ Journal!Track \/ \E i \in 1..Len(pending) : Journal!Ack(i)
           \/ Journal!DropStream \/ Journal!Retry \/ Journal!WriteTimesOut \/ Journal!TakeResync
    PROVE  JournalInv'
PROOF
<1>1. pending \in Events
  BY DEF JournalInv, Journal!TypeOK, Events
<1>2. ASSUME NEW i \in 1..Len(pending), Journal!Ack(i) PROVE JournalInv'
  <2>1. /\ Journal!RemoveAt(pending, i) \in Events
        /\ SetOf(pending) \ {pending[i]} \subseteq SetOf(Journal!RemoveAt(pending, i))
    BY <1>1, SetOfRemoveAt DEF Events
  <2> QED
    BY <1>2, <2>1, LeaveKept DEF Journal!Ack
<1>3. CASE Journal!DropStream
  <2>1. SetOf(pending) \ Journal!ToSet(pending) \subseteq SetOf(<<>>)
    BY <1>1, ToSetIsSetOf DEF Events
  <2> QED
    BY <1>3, <2>1, LeaveKept, JournalValues DEF Journal!DropStream
<1>4. CASE Journal!Retry
  <2>1. phase = "up" /\ ~waiting /\ Journal!Persist(pending') /\ promised' = promised
        /\ UNCHANGED <<phase, pending, tracked, resync, journal, temps, crashes, failures>>
    BY <1>4 DEF Journal!Retry, Journal!Live
  <2>2. promised \subseteq SetOf(pending) /\ tracked \in 0..MaxEvents
    BY <2>1 DEF JournalInv, Kept, Journal!TypeOK
  <2> QED
    BY <1>1, <2>1, <2>2, PersistKept
<1>5. CASE Journal!WriteTimesOut
  <2>1. waiting' = FALSE /\ failures' \in 0..MaxFailures
    BY <1>5, JournalBoundsAreNats DEF Journal!WriteTimesOut, Journal!Fault, JournalInv, Journal!TypeOK
  <2>2. waiting' \in BOOLEAN
    BY <2>1
  <2>3. UNCHANGED <<phase, pending, tracked, dirty, resync, write, journal, temps, promised, crashes>>
    BY <1>5 DEF Journal!WriteTimesOut
  <2>4. Journal!TypeOK'
    BY <2>1, <2>2, <2>3 DEF JournalInv, Journal!TypeOK
  <2>5. Files' /\ Kept'
    BY <2>1, <2>3 DEF JournalInv, Files, Kept, Recoverable
  <2> QED
    BY <2>4, <2>5 DEF JournalInv
<1>6. CASE Journal!TakeResync
  <2>1. resync' = FALSE
    BY <1>6 DEF Journal!TakeResync
  <2>2. resync' \in BOOLEAN
    BY <2>1
  <2>3. UNCHANGED <<phase, pending, tracked, dirty, waiting, write, journal, temps, promised, crashes, failures>>
    BY <1>6 DEF Journal!TakeResync
  <2>4. Journal!TypeOK'
    BY <2>2, <2>3 DEF JournalInv, Journal!TypeOK
  <2>5. Files' /\ Kept'
    BY <2>3 DEF JournalInv, Files, Kept, Recoverable
  <2> QED
    BY <2>4, <2>5 DEF JournalInv
<1> QED
  BY <1>2, <1>3, <1>4, <1>5, <1>6, TrackKept
\* The write goes on: what changes is the file and the last temporary one.
LEMMA WriterTyped ==
    ASSUME JournalInv, NEW pc \in {"begin", "created", "synced", "removed"},
           Journal!GoTo(pc),
           UNCHANGED <<phase, pending, tracked, dirty, resync, waiting, promised, crashes, failures>>,
           journal' \in Events \cup {None}, temps' \in Seq(TempFiles)
    PROVE  /\ Journal!TypeOK'
           /\ write'.pc = pc /\ write'.data = write.data /\ write.data \in Events
PROOF
<1>1. write \in [pc : {"idle", "begin", "created", "synced", "removed"}, data : Seq(1..MaxEvents)]
  BY DEF JournalInv, Journal!TypeOK
<1>2. write' = [write EXCEPT !.pc = pc]
  BY DEF Journal!GoTo
<1>3. /\ write' \in [pc : {"idle", "begin", "created", "synced", "removed"}, data : Seq(1..MaxEvents)]
      /\ write'.pc = pc /\ write'.data = write.data /\ write.data \in Events
  BY <1>1, <1>2 DEF Events
<1>4. journal' \in Journal!Lists \cup {None} /\ temps' \in Seq(Journal!Lists)
  BY JournalValues DEF TempFiles
<1>5. Journal!TypeOK'
  BY <1>3, <1>4 DEF JournalInv, Journal!TypeOK
<1> QED
  BY <1>3, <1>5

LEMMA WriterKept ==
    ASSUME JournalInv, Journal!Create \/ Journal!Sync \/ Journal!RemoveOld
    PROVE  JournalInv'
PROOF
<1>1. /\ journal \in Events \cup {None} /\ temps \in Seq(TempFiles) /\ write.data \in Events
      /\ Journal!Partial \in TempFiles
  BY DEF JournalInv, Files, Journal!TypeOK, Events, TempFiles
<1>2. CASE Journal!Create
  <2>1. /\ write.pc = "begin" /\ temps' = Append(temps, Journal!Partial) /\ Journal!GoTo("created")
        /\ UNCHANGED <<phase, pending, tracked, dirty, resync, waiting, journal, promised, crashes, failures>>
    BY <1>2 DEF Journal!Create, Journal!Writing
  <2>2. temps' \in Seq(TempFiles) /\ temps' # <<>> /\ temps'[Len(temps')] = Journal!Partial
    <3> DEFINE q == Append(temps, Journal!Partial)
    <3>1. q \in Seq(TempFiles) /\ Len(q) = Len(temps) + 1 /\ q[Len(temps) + 1] = Journal!Partial
      BY <1>1, LastFile
    <3>2. q # <<>>
      BY <1>1, LastFile, Zenon
    <3> QED
      BY <2>1, <3>1, <3>2, Zenon
  <2>3. Journal!TypeOK' /\ write'.pc = "created" /\ write'.data = write.data
    BY <1>1, <2>1, <2>2, WriterTyped
  <2>4. Files'
    BY <1>1, <2>1, <2>2, <2>3 DEF Files
  <2>5. Kept'
    BY <2>1, <2>2, <2>3 DEF JournalInv, Kept, Recoverable
  <2> QED
    BY <2>3, <2>4, <2>5 DEF JournalInv
<1>3. CASE Journal!Sync
  <2>1. /\ write.pc = "created" /\ temps' = Journal!ReplaceAt(temps, Len(temps), write.data) /\ Journal!GoTo("synced")
        /\ UNCHANGED <<phase, pending, tracked, dirty, resync, waiting, journal, promised, crashes, failures>>
    BY <1>3 DEF Journal!Sync, Journal!Writing, Journal!Fill
  <2>2. temps # <<>> /\ write.data \in TempFiles
    BY <1>1, <2>1 DEF JournalInv, Files, TempFiles
  <2>3. temps' \in Seq(TempFiles) /\ temps' # <<>> /\ temps'[Len(temps')] = write.data
    <3> DEFINE q == Journal!ReplaceAt(temps, Len(temps), write.data)
    <3>1. q \in Seq(TempFiles) /\ q # <<>> /\ Len(q) = Len(temps) /\ q[Len(temps)] = write.data
      BY <1>1, <2>2, LastFile
    <3> QED
      BY <2>1, <3>1, Zenon
  <2>4. Journal!TypeOK' /\ write'.pc = "synced" /\ write'.data = write.data
    BY <1>1, <2>1, <2>3, WriterTyped
  <2>5. Files'
    BY <1>1, <2>1, <2>3, <2>4 DEF Files
  <2>6. Kept'
    BY <2>1, <2>3, <2>4 DEF JournalInv, Kept, Recoverable
  <2> QED
    BY <2>4, <2>5, <2>6 DEF JournalInv
<1>4. CASE Journal!RemoveOld
  <2>1. /\ write.pc = "synced" /\ journal' = None /\ Journal!GoTo("removed") /\ temps' = temps
        /\ UNCHANGED <<phase, pending, tracked, dirty, resync, waiting, promised, crashes, failures>>
    BY <1>4 DEF Journal!RemoveOld, Journal!Writing
  <2>2. temps # <<>> /\ temps[Len(temps)] = write.data
    BY <2>1 DEF JournalInv, Files
  <2>3. Journal!TypeOK' /\ write'.pc = "removed" /\ write'.data = write.data
    BY <1>1, <2>1, WriterTyped
  <2>4. Files'
    BY <1>1, <2>1, <2>2, <2>3 DEF Files
  <2>5. Kept'
    BY <2>1, <2>2, <2>3 DEF JournalInv, Kept, Recoverable
  <2> QED
    BY <2>3, <2>4, <2>5 DEF JournalInv
<1> QED
  BY <1>2, <1>3, <1>4
\* The end of a write: whoever waits for it has what is pending saved.
LEMMA EndsTyped ==
    ASSUME JournalInv, NEW ok \in BOOLEAN, Journal!Ends(ok)
    PROVE  /\ write' = [pc |-> "idle", data |-> <<>>] /\ waiting' = FALSE
           /\ write' \in [pc : {"idle", "begin", "created", "synced", "removed"}, data : Seq(1..MaxEvents)]
           /\ dirty' \in BOOLEAN /\ waiting' \in BOOLEAN /\ promised' \subseteq 1..MaxEvents
           /\ \/ waiting /\ ok /\ dirty' = FALSE /\ promised' = SetOf(write.data)
              \/ ~(waiting /\ ok) /\ dirty' = dirty /\ promised' = promised
PROOF
<1>1. write' = [pc |-> "idle", data |-> <<>>] /\ waiting' = FALSE
  BY DEF Journal!Ends, Journal!NoWrite
<1>2. write.data \in Seq(1..MaxEvents) /\ dirty \in BOOLEAN /\ promised \subseteq 1..MaxEvents
  BY DEF JournalInv, Journal!TypeOK
<1>3. \/ waiting /\ ok /\ dirty' = FALSE /\ promised' = SetOf(write.data)
      \/ ~(waiting /\ ok) /\ dirty' = dirty /\ promised' = promised
  BY <1>2, ToSetIsSetOf DEF Journal!Ends
<1>4. SetOf(write.data) \subseteq 1..MaxEvents
  BY <1>2, SetOfIn
<1>5. dirty' \in BOOLEAN
  BY <1>2, <1>3
<1>6. waiting' \in BOOLEAN
  BY <1>1
<1>7. write' \in [pc : {"idle", "begin", "created", "synced", "removed"}, data : Seq(1..MaxEvents)]
  BY <1>1
<1> QED
  BY <1>1, <1>2, <1>3, <1>4, <1>5, <1>6, <1>7

LEMMA RenameKept == ASSUME JournalInv, Journal!Rename PROVE JournalInv'
PROOF
<1>1. /\ write.pc = "removed" /\ journal' = write.data /\ temps' = Journal!Front(temps) /\ Journal!Ends(TRUE)
      /\ UNCHANGED <<phase, pending, tracked, resync, crashes, failures>>
  BY DEF Journal!Rename, Journal!Writing
<1>2. /\ write' = [pc |-> "idle", data |-> <<>>] /\ waiting' = FALSE
      /\ write' \in [pc : {"idle", "begin", "created", "synced", "removed"}, data : Seq(1..MaxEvents)]
      /\ dirty' \in BOOLEAN /\ waiting' \in BOOLEAN /\ promised' \subseteq 1..MaxEvents
      /\ \/ waiting /\ dirty' = FALSE /\ promised' = SetOf(write.data)
         \/ ~waiting /\ dirty' = dirty /\ promised' = promised
  BY <1>1, EndsTyped
<1>3. write.data \in Events /\ temps # <<>> /\ temps \in Seq(TempFiles)
  BY <1>1 DEF JournalInv, Journal!TypeOK, Files, Events
<1>4. temps' \in Seq(TempFiles)
  BY <1>1, <1>3, LastFile DEF TempFiles
<1>5. journal' \in Journal!Lists \cup {None} /\ temps' \in Seq(Journal!Lists)
  BY <1>1, <1>3, <1>4, JournalValues DEF TempFiles
<1>6. Journal!TypeOK'
  BY <1>1, <1>2, <1>5 DEF JournalInv, Journal!TypeOK
<1>7. Files'
  BY <1>1, <1>2, <1>3, <1>4 DEF Files
<1>8. journal' # None
  BY <1>1, <1>3, JournalValues
<1>9. Kept'
  BY <1>1, <1>2, <1>8 DEF JournalInv, Kept, Recoverable
<1> QED
  BY <1>6, <1>7, <1>9 DEF JournalInv

LEMMA WriteFailsKept == ASSUME JournalInv, Journal!WriteFails PROVE JournalInv'
PROOF
<1>1. /\ write.pc # "idle" /\ Journal!Ends(FALSE)
      /\ temps' = IF write.pc = "begin" \/ journal = None THEN temps ELSE Journal!Front(temps)
      /\ UNCHANGED <<phase, pending, tracked, resync, journal, crashes>>
  BY DEF Journal!WriteFails, Journal!Writing, Journal!Cleaned
<1>2. /\ write' = [pc |-> "idle", data |-> <<>>] /\ waiting' = FALSE
      /\ write' \in [pc : {"idle", "begin", "created", "synced", "removed"}, data : Seq(1..MaxEvents)]
      /\ dirty' \in BOOLEAN /\ waiting' \in BOOLEAN /\ promised' = promised /\ dirty' = dirty
  BY <1>1, EndsTyped
<1>3. temps \in Seq(TempFiles) /\ (write.pc # "begin" => temps # <<>>) /\ journal \in Journal!Lists \cup {None}
  BY <1>1 DEF JournalInv, Journal!TypeOK, Files
<1>4. temps' \in Seq(TempFiles)
  BY <1>1, <1>3, LastFile DEF TempFiles
<1>5. temps' \in Seq(Journal!Lists)
  BY <1>4, JournalValues DEF TempFiles
<1>6. failures' \in 0..MaxFailures
  BY JournalBoundsAreNats DEF Journal!WriteFails, Journal!Fault, JournalInv, Journal!TypeOK
<1>7. Journal!TypeOK'
  BY <1>1, <1>2, <1>3, <1>5, <1>6 DEF JournalInv, Journal!TypeOK
<1>8. Files'
  BY <1>1, <1>2, <1>4 DEF JournalInv, Files
<1>9. Recoverable' = Recoverable \/ (write.pc = "begin" /\ Recoverable' = Recoverable)
  BY <1>1 DEF Recoverable
<1>10. phase = "up" => dirty
  BY <1>1 DEF JournalInv, Kept
<1>11. Kept'
  BY <1>1, <1>2, <1>9, <1>10 DEF JournalInv, Kept
<1> QED
  BY <1>7, <1>8, <1>11 DEF JournalInv
\* The agent or its supervisor ends, at any step of a write.
LEMMA EndedKept ==
    ASSUME JournalInv, Journal!Crash \/ Journal!Restart
    PROVE  JournalInv'
PROOF
<1>1. /\ phase' = "loading" /\ pending' = <<>> /\ dirty' = FALSE /\ waiting' = FALSE /\ resync' = FALSE
      /\ UNCHANGED <<tracked, journal, temps, promised, failures>>
      /\ write' = [pc |-> "idle", data |-> <<>>] \/ write' = write
  BY DEF Journal!Crash, Journal!Restart, Journal!Ended, Journal!NoWrite
<1>2. crashes' \in 0..MaxCrashes
  BY JournalBoundsAreNats DEF Journal!Crash, Journal!Restart, Journal!Ended, JournalInv, Journal!TypeOK
<1>3. write' \in [pc : {"idle", "begin", "created", "synced", "removed"}, data : Seq(1..MaxEvents)]
  <2>1. [pc |-> "idle", data |-> <<>>] \in [pc : {"idle", "begin", "created", "synced", "removed"}, data : Seq(1..MaxEvents)]
    OBVIOUS
  <2>2. write \in [pc : {"idle", "begin", "created", "synced", "removed"}, data : Seq(1..MaxEvents)]
    BY DEF JournalInv, Journal!TypeOK
  <2> QED
    BY <1>1, <2>1, <2>2, Zenon
<1>4. dirty' \in BOOLEAN /\ waiting' \in BOOLEAN /\ resync' \in BOOLEAN
  BY <1>1
<1>5. pending' \in Seq(1..MaxEvents)
  BY <1>1
<1>6. Journal!TypeOK'
  BY <1>1, <1>2, <1>3, <1>4, <1>5 DEF JournalInv, Journal!TypeOK
<1>7. Files' /\ Kept'
  BY <1>1 DEF JournalInv, Files, Kept, Recoverable
<1> QED
  BY <1>6, <1>7 DEF JournalInv

\* The file, or the newest temporary one in its place.
LEMMA RecoveredIs ==
    ASSUME JournalInv
    PROVE  LET found == Journal!Recovered IN
           /\ found.temps \in Seq(TempFiles)
           /\ found.file \in TempFiles \cup {None}
           /\ found.file = None => journal = None /\ temps = <<>>
           /\ found.file # None => found.file = Recoverable
           /\ found.temps = temps \/ journal = None
PROOF
<1>1. temps \in Seq(TempFiles) /\ journal \in Events \cup {None}
  BY DEF JournalInv, Files
<1>2. CASE journal # None \/ temps = <<>>
  BY <1>1, <1>2 DEF Journal!Recovered, Recoverable, TempFiles
<1>3. CASE ~(journal # None \/ temps = <<>>)
  <2>1. /\ Journal!Front(temps) \in Seq(TempFiles)
        /\ Journal!Last(temps) = temps[Len(temps)] /\ temps[Len(temps)] \in TempFiles
    BY <1>1, <1>3, LastFile DEF TempFiles
  <2>2. None \notin TempFiles
    BY JournalValues DEF TempFiles
  <2> QED
    BY <1>3, <2>1, <2>2 DEF Journal!Recovered, Recoverable
<1> QED
  BY <1>2, <1>3

LEMMA LoadKept == ASSUME JournalInv, Journal!Load PROVE JournalInv'
PROOF
<1> DEFINE found == Journal!Recovered
<1>1. /\ phase = "loading" /\ write.pc = "idle" /\ phase' = "up"
      /\ journal' = IF found.file = Journal!Partial THEN None ELSE found.file
      /\ temps' = found.temps
      /\ pending' = IF found.file \in {None, Journal!Partial} THEN <<>> ELSE found.file
      /\ resync' = (found.file = Journal!Partial)
      /\ promised' = IF found.file = Journal!Partial THEN {} ELSE promised
      /\ UNCHANGED <<tracked, dirty, waiting, write, crashes, failures>>
  BY DEF Journal!Load
<1>2. /\ found.temps \in Seq(TempFiles) /\ found.file \in TempFiles \cup {None}
      /\ found.file = None => journal = None /\ temps = <<>>
      /\ found.file # None => found.file = Recoverable
  BY RecoveredIs
<1> HIDE DEF found
<1>3. journal' \in Events \cup {None} /\ pending' \in Events
  BY <1>1, <1>2, JournalValues DEF TempFiles
<1>4. resync' \in BOOLEAN
  BY <1>1
<1>5. journal' \in Journal!Lists \cup {None} /\ temps' \in Seq(Journal!Lists)
  BY <1>1, <1>2, <1>3, JournalValues DEF TempFiles
<1>6. Journal!TypeOK'
  BY <1>1, <1>3, <1>4, <1>5 DEF JournalInv, Journal!TypeOK, Events
<1>7. Files'
  BY <1>1, <1>2, <1>3 DEF Files
<1>8. promised' \subseteq SetOf(pending')
  <2>1. CASE found.file = None
    <3>1. Recoverable = <<>> /\ <<>> # Journal!Partial /\ SetOf(<<>>) = {}
      BY <1>2, <2>1 DEF Recoverable, Journal!Partial, SetOf
    <3> QED
      BY <1>1, <2>1, <3>1, JournalValues DEF JournalInv, Kept
  <2>2. CASE found.file = Journal!Partial
    BY <1>1, <2>2
  <2>3. CASE found.file \notin {None, Journal!Partial}
    BY <1>1, <1>2, <2>3 DEF JournalInv, Kept
  <2> QED
    BY <2>1, <2>2, <2>3
<1>9. pending' = IF journal' = None THEN <<>> ELSE journal'
  BY <1>1
<1>10. Recoverable' = Journal!Partial \/ promised' \subseteq SetOf(Recoverable')
  <2>1. CASE journal' # None
    BY <1>8, <1>9, <2>1 DEF Recoverable
  <2>2. CASE journal' = None
    <3>1. promised' = {}
      <4>1. SetOf(<<>>) = {}
        BY DEF SetOf
      <4> QED
        BY <1>8, <1>9, <2>2, <4>1
    <3> QED
      BY <3>1
  <2> QED
    BY <2>1, <2>2
<1>11. Kept'
  BY <1>1, <1>8, <1>9, <1>10 DEF JournalInv, Kept
<1> QED
  BY <1>6, <1>7, <1>11 DEF JournalInv
LEMMA LoadFailsKept == ASSUME JournalInv, Journal!LoadFails PROVE JournalInv'
PROOF
<1>1. /\ phase = "loading" /\ write.pc = "idle" /\ journal = None /\ phase' = "up"
      /\ pending' = <<>> /\ resync' = TRUE /\ promised' = {}
      /\ UNCHANGED <<tracked, dirty, waiting, write, journal, temps, crashes>>
  BY DEF Journal!LoadFails
<1>2. failures' \in 0..MaxFailures
  BY JournalBoundsAreNats DEF Journal!LoadFails, Journal!Fault, JournalInv, Journal!TypeOK
<1>3. resync' \in BOOLEAN
  BY <1>1
<1>4. pending' \in Seq(1..MaxEvents)
  BY <1>1
<1>5. Journal!TypeOK'
  BY <1>1, <1>2, <1>3, <1>4 DEF JournalInv, Journal!TypeOK
<1>6. Files' /\ Kept'
  BY <1>1 DEF JournalInv, Files, Kept, Recoverable
<1> QED
  BY <1>5, <1>6 DEF JournalInv

LEMMA JournalStep == ASSUME JournalInv, Journal!Next PROVE JournalInv'
PROOF
  BY LoopKept, WriterKept, RenameKept, WriteFailsKept, EndedKept, LoadKept, LoadFailsKept DEF Journal!Next

LEMMA JournalSafety == JournalInv => Journal!TypeOK /\ Journal!PromisedPending /\ Journal!SavedIsPending
PROOF
<1> SUFFICES ASSUME JournalInv
             PROVE  Journal!TypeOK /\ Journal!PromisedPending /\ Journal!SavedIsPending
  OBVIOUS
<1>1. pending \in Seq(1..MaxEvents)
  BY DEF JournalInv, Journal!TypeOK
<1>2. Journal!ToSet(pending) = SetOf(pending)
  BY <1>1, ToSetIsSetOf
<1> QED
  BY <1>2 DEF JournalInv, Kept, Journal!PromisedPending, Journal!SavedIsPending

\* A live event that was accepted is pending until it is acknowledged, whatever
\* step of a write the agent dies at, and what is not marked as unsaved is what
\* the file holds.
THEOREM AcceptedEventsSurvive == Spec => []JournalSafe
PROOF
<1> DEFINE Inv == part = "journal" => JournalInv
<1>1. Init => Inv
  BY JournalInit DEF Init
<1>2. Inv /\ [Next]_vars => Inv'
  <2> SUFFICES ASSUME Inv, [Next]_vars, part' = "journal"
               PROVE  JournalInv'
    OBVIOUS
  <2>1. CASE JournalNext
    BY <2>1, JournalStep DEF JournalNext
  <2>2. CASE SessionNext \/ HeartbeatNext \/ CommandsNext \/ ClientNext
    BY <2>2 DEF SessionNext, HeartbeatNext, CommandsNext, ClientNext
  <2>3. CASE UNCHANGED vars
    <3>1. part = "journal" /\ UNCHANGED journalVars
      BY <2>3 DEF vars
    <3> QED
      BY <3>1 DEF journalVars, JournalInv, Journal!TypeOK, Files, Kept, Recoverable
  <2> QED
    BY <2>1, <2>2, <2>3 DEF Next
<1>3. Inv => JournalSafe
  BY JournalSafety DEF JournalSafe
<1> QED
  BY <1>1, <1>2, <1>3, PTL DEF Spec, vars
-------------------------------------------------------------------------------
(* The heartbeat                                                              *)

\* At most one message in a queue, not older than the run.
Single(q, n) == q = <<>> \/ \E a \in 0..n : q = <<a>>

Unanswered == awaiting > 0 \/ ping = "sent"

\* One ping at a time is under way, on its way out or back, and not before the
\* task has done with the one before it.
OnePing ==
    /\ Single(pings, clock) /\ Single(pongs, clock) /\ (pings = <<>> \/ pongs = <<>>)
    /\ ~Unanswered => pings = <<>> /\ pongs = <<>>
    /\ ping = "sent" => awaiting = 0

\* The ping that is waited for is as old as the wait, and late when it is older
\* than the timeout; only an answer taken early leaves none to wait for.
Truthful ==
    /\ ~early /\ Unanswered =>
          \E q \in {pings, pongs} : q # <<>> /\ Beat!Oldest(q) + 1 >= awaiting
    /\ \A q \in {pings, pongs} : Beat!Oldest(q) >= Timeout => late
    /\ Beat!AlarmTrue /\ Beat!GivenUpIsCut

\* Whoever is awake was last heard of when the task was last due, or waits for
\* the answer to the ping it has sent since.
InTime ==
    /\ awaiting > 0 => awaiting = since + 1
    /\ ping = "sent" => since = 0
    /\ asleep => slept
    /\ ~slept /\ (~Unanswered \/ pongs # <<>>) => silent <= since
    /\ ~slept => silent <= Interval + since

BeatTypes ==
    /\ clock \in 0..MaxTicks /\ since \in 0..Interval /\ silent \in 0..(Stale + 1)
    /\ ping \in {"wait", "sent"} /\ awaiting \in 0..(Timeout + 1)
    /\ failed \in {"none", "send_failed", "pong_timeout", "activity_timeout"}
BeatFlags ==
    /\ alive \in BOOLEAN /\ cut \in BOOLEAN /\ asleep \in BOOLEAN
    /\ slept \in BOOLEAN /\ late \in BOOLEAN /\ early \in BOOLEAN

HeartbeatInv == BeatTypes /\ BeatFlags /\ OnePing /\ Truthful /\ InTime

LEMMA SingleTyped ==
    ASSUME NEW q, NEW n \in 0..MaxTicks, Single(q, n)
    PROVE  q \in Seq(0..MaxTicks)
PROOF
<1>1. CASE q = <<>>
  BY <1>1
<1>2. CASE \E a \in 0..n : q = <<a>>
  <2>1. PICK a \in 0..n : q = <<a>>
    BY <1>2
  <2>2. a \in 0..MaxTicks
    BY TimeoutsAreNested
  <2> QED
    BY <2>1, <2>2
<1> QED
  BY <1>1, <1>2 DEF Single

LEMMA SingleOldest ==
    ASSUME NEW q, NEW n \in Nat, Single(q, n)
    PROVE  Beat!Oldest(q) \in 0..n /\ (q # <<>> => q = <<Beat!Oldest(q)>>)
PROOF
  BY DEF Single, Beat!Oldest

\* A tick later.
LEMMA AgedSingle ==
    ASSUME NEW q, NEW n \in Nat, Single(q, n)
    PROVE  /\ Single(Beat!Aged(q), n + 1)
           /\ Beat!Aged(q) = <<>> <=> q = <<>>
           /\ q # <<>> => Beat!Oldest(Beat!Aged(q)) = Beat!Oldest(q) + 1
PROOF
<1>1. CASE q = <<>>
  BY <1>1 DEF Single, Beat!Aged
<1>2. CASE q # <<>>
  <2>1. PICK a \in 0..n : q = <<a>>
    BY <1>2 DEF Single
  <2>2. Beat!Aged(q) = <<a + 1>>
    BY <2>1 DEF Beat!Aged
  <2> QED
    BY <2>1, <2>2 DEF Single, Beat!Oldest
<1> QED
  BY <1>1, <1>2

LEMMA HeartbeatInit == Beat!Init => HeartbeatInv
PROOF
<1> SUFFICES ASSUME Beat!Init
             PROVE  HeartbeatInv
  OBVIOUS
<1> USE TimeoutsAreNested
<1>1. /\ clock = 0 /\ since = 0 /\ ping = "wait" /\ awaiting = 0 /\ pings = <<>> /\ pongs = <<>>
      /\ failed = "none" /\ silent = 0
  BY DEF Beat!Init
<1>2. alive = TRUE /\ cut = FALSE /\ asleep = FALSE /\ slept = FALSE /\ late = FALSE /\ early = FALSE
  BY DEF Beat!Init
<1>3. BeatTypes
  BY <1>1 DEF BeatTypes
<1>4. BeatFlags
  BY <1>2 DEF BeatFlags
<1>5. OnePing
  BY <1>1 DEF OnePing, Single, Unanswered
<1>6. Truthful
  BY <1>1 DEF Truthful, Unanswered, Beat!Oldest, Beat!AlarmTrue, Beat!GivenUpIsCut
<1>7. InTime
  BY <1>1, <1>2 DEF InTime, Unanswered
<1> QED
  BY <1>3, <1>4, <1>5, <1>6, <1>7 DEF HeartbeatInv

\* Whoever was awake all the time was heard of within an interval and a timeout.
LEMMA HeardOf ==
    ASSUME BeatTypes, InTime, ~slept
    PROVE  silent <= Interval + Timeout
PROOF
<1> USE TimeoutsAreNested DEF BeatTypes, InTime
<1>1. CASE ~Unanswered
  BY <1>1
<1>2. CASE awaiting > 0
  <2>1. since <= Timeout /\ silent <= Interval + since
    BY <1>2
  <2> QED
    BY <2>1
<1>3. CASE ping = "sent"
  BY <1>3
<1> QED
  BY <1>1, <1>2, <1>3 DEF Unanswered

\* A tick passes, for the task too unless the computer sleeps.
LEMMA TickKept ==
    ASSUME HeartbeatInv, Beat!Pass \/ Beat!PassAsleep
    PROVE  HeartbeatInv'
PROOF
<1> USE TimeoutsAreNested
<1> DEFINE old(q) == Beat!Oldest(q)
<1>1. /\ clock < MaxTicks /\ clock' = clock + 1 /\ silent <= Stale /\ silent' = silent + 1
      /\ pings' = Beat!Aged(pings) /\ pongs' = Beat!Aged(pongs)
      /\ late' = (late \/ \E q \in {pings', pongs'} : Beat!Oldest(q) >= Timeout)
      /\ UNCHANGED <<ping, failed, alive, cut, asleep, slept, early>>
      /\ \/ /\ since < Interval /\ ping = "wait" /\ awaiting <= Timeout
            /\ since' = since + 1 /\ awaiting' = IF awaiting = 0 THEN 0 ELSE awaiting + 1
         \/ asleep /\ UNCHANGED <<since, awaiting>>
  BY DEF Beat!Pass, Beat!PassAsleep
<1>2. BeatTypes /\ clock \in Nat
  BY DEF HeartbeatInv, BeatTypes
<1>3. Single(pings, clock) /\ Single(pongs, clock)
  BY DEF HeartbeatInv, OnePing
<1>4. /\ Single(pings', clock') /\ Single(pongs', clock')
      /\ pings' = <<>> <=> pings = <<>>
      /\ pongs' = <<>> <=> pongs = <<>>
      /\ pings # <<>> => old(pings') = old(pings) + 1
      /\ pongs # <<>> => old(pongs') = old(pongs) + 1
  BY <1>1, <1>2, <1>3, AgedSingle
<1>5. BeatTypes'
  BY <1>1, <1>2 DEF BeatTypes
<1>6. awaiting' <= awaiting + 1 /\ (awaiting' > 0 <=> awaiting > 0)
  BY <1>1, <1>2 DEF BeatTypes
<1>7. OnePing'
  BY <1>1, <1>4, <1>6 DEF HeartbeatInv, OnePing, Unanswered
<1>8. BeatFlags'
  BY <1>1, Zenon DEF HeartbeatInv, BeatFlags
<1>9. Truthful'
  <2>1. late => late'
    BY <1>1
  <2>2. \A q \in {pings', pongs'} : old(q) >= Timeout => late'
    BY <1>1
  <2>3. Beat!AlarmTrue' /\ Beat!GivenUpIsCut'
    BY <1>1, <2>1 DEF HeartbeatInv, Truthful, Beat!AlarmTrue, Beat!GivenUpIsCut
  <2>4. ASSUME ~early', Unanswered'
        PROVE  \E q \in {pings', pongs'} : q # <<>> /\ old(q) + 1 >= awaiting'
    <3>1. ~early /\ Unanswered
      BY <1>1, <1>6, <2>4 DEF Unanswered
    <3>2. \E q \in {pings, pongs} : q # <<>> /\ old(q) + 1 >= awaiting
      BY <3>1 DEF HeartbeatInv, Truthful
    <3>3. old(pings) \in Nat /\ old(pongs) \in Nat
      BY <1>2, <1>3, SingleOldest
    <3> QED
      BY <1>2, <1>4, <1>5, <1>6, <3>2, <3>3 DEF BeatTypes
  <2> QED
    BY <2>2, <2>3, <2>4 DEF Truthful
<1>10. InTime'
  <2>1. CASE /\ since < Interval /\ ping = "wait" /\ awaiting <= Timeout
             /\ since' = since + 1 /\ awaiting' = IF awaiting = 0 THEN 0 ELSE awaiting + 1
    BY <1>1, <1>2, <1>4, <2>1 DEF BeatTypes, HeartbeatInv, InTime, Unanswered
  <2>2. CASE asleep /\ UNCHANGED <<since, awaiting>>
    BY <1>1, <2>2 DEF HeartbeatInv, InTime, Unanswered
  <2> QED
    BY <1>1, <2>1, <2>2
<1> QED
  BY <1>5, <1>7, <1>8, <1>9, <1>10 DEF HeartbeatInv

\* The computer sleeps or wakes, the network is cut, the task or the Relay finds
\* the connection dead, the loop ends it: no message moves.
LEMMA FoundDeadKept ==
    ASSUME HeartbeatInv,
           Beat!Sleep \/ Beat!Cut \/ Beat!SendFails \/ Beat!Watch \/ Beat!Fails \/ Beat!GiveUp
    PROVE  HeartbeatInv'
PROOF
<1> USE TimeoutsAreNested
<1>1. /\ UNCHANGED <<clock, since, ping, awaiting, pings, pongs, silent, late, early>>
      /\ (slept => slept') /\ (cut => cut') /\ (asleep' => slept')
      /\ failed' \in {"none", "send_failed", "pong_timeout", "activity_timeout"}
  BY DEF HeartbeatInv, BeatTypes, InTime,
         Beat!Sleep, Beat!Cut, Beat!SendFails, Beat!Watch, Beat!Fails, Beat!GiveUp
<1>2. BeatTypes'
  BY <1>1 DEF HeartbeatInv, BeatTypes
<1>3. BeatFlags'
  <2>1. late' \in BOOLEAN /\ early' \in BOOLEAN
    BY <1>1 DEF HeartbeatInv, BeatFlags
  <2>2. alive' \in BOOLEAN /\ cut' \in BOOLEAN /\ asleep' \in BOOLEAN /\ slept' \in BOOLEAN
    <3>1. alive' = alive \/ alive' = FALSE
      BY DEF Beat!Sleep, Beat!Cut, Beat!SendFails, Beat!Watch, Beat!Fails, Beat!GiveUp
    <3>2. cut' = cut \/ cut' = TRUE
      BY DEF Beat!Sleep, Beat!Cut, Beat!SendFails, Beat!Watch, Beat!Fails, Beat!GiveUp
    <3>3. asleep' = asleep \/ asleep' = ~asleep
      BY DEF Beat!Sleep, Beat!Cut, Beat!SendFails, Beat!Watch, Beat!Fails, Beat!GiveUp
    <3>4. slept' = slept \/ slept' = TRUE
      BY DEF Beat!Sleep, Beat!Cut, Beat!SendFails, Beat!Watch, Beat!Fails, Beat!GiveUp
    <3> QED
      BY <3>1, <3>2, <3>3, <3>4, Zenon DEF HeartbeatInv, BeatFlags
  <2> QED
    BY <2>1, <2>2 DEF BeatFlags
<1>4. OnePing'
  BY <1>1 DEF HeartbeatInv, OnePing, Unanswered
<1>5. InTime'
  BY <1>1 DEF HeartbeatInv, InTime, Unanswered
<1>6. Beat!AlarmTrue'
  <2>1. CASE failed' = failed \/ failed' # "pong_timeout"
    BY <1>1, <2>1 DEF HeartbeatInv, Truthful, Beat!AlarmTrue
  <2>2. CASE awaiting > Timeout
    <3> SUFFICES ASSUME ~early
                 PROVE  late
      BY <1>1 DEF Beat!AlarmTrue
    <3>1. \E q \in {pings, pongs} : q # <<>> /\ Beat!Oldest(q) + 1 >= awaiting
      BY <2>2 DEF HeartbeatInv, BeatTypes, Truthful, Unanswered
    <3>2. Beat!Oldest(pings) \in Nat /\ Beat!Oldest(pongs) \in Nat
      BY SingleOldest DEF HeartbeatInv, BeatTypes, OnePing
    <3>3. \E q \in {pings, pongs} : Beat!Oldest(q) >= Timeout
      BY <2>2, <3>1, <3>2 DEF HeartbeatInv, BeatTypes
    <3> QED
      BY <3>3 DEF HeartbeatInv, Truthful
  <2> QED
    BY <2>1, <2>2
       DEF Beat!Sleep, Beat!Cut, Beat!SendFails, Beat!Watch, Beat!TimedOut, Beat!Fails, Beat!GiveUp
<1>7. Beat!GivenUpIsCut'
  <2>1. CASE failed' = failed \/ failed' # "activity_timeout"
    BY <1>1, <2>1 DEF HeartbeatInv, Truthful, Beat!GivenUpIsCut
  <2>2. CASE silent > Stale
    <3>1. slept
      BY <2>2, HeardOf DEF HeartbeatInv, BeatTypes
    <3> QED
      BY <1>1, <3>1 DEF Beat!GivenUpIsCut
  <2> QED
    BY <2>1, <2>2
       DEF Beat!Sleep, Beat!Cut, Beat!SendFails, Beat!Watch, Beat!Fails, Beat!GiveUp
<1>8. Truthful'
  BY <1>1, <1>6, <1>7 DEF HeartbeatInv, Truthful, Unanswered
<1> QED
  BY <1>2, <1>3, <1>4, <1>5, <1>8 DEF HeartbeatInv

\* The task sends a ping, nothing being waited for: the last one was answered or
\* timed out long before the task was due again.
LEMMA DueKept == ASSUME HeartbeatInv, Beat!Due PROVE HeartbeatInv'
PROOF
<1> USE TimeoutsAreNested
<1>1. /\ since = Interval /\ since' = 0 /\ ping = "wait"
      /\ UNCHANGED <<clock, awaiting, pongs, failed, alive, silent, cut, asleep, slept, late, early>>
  BY DEF Beat!Due
<1>2. awaiting = 0
  BY <1>1 DEF HeartbeatInv, BeatTypes, InTime
<1>3. pings = <<>> /\ pongs = <<>>
  BY <1>1, <1>2 DEF HeartbeatInv, OnePing, Unanswered
<1>4. ping' = "sent" /\ pings' = Append(pings, 0)
  BY <1>2 DEF Beat!Due
<1>5. pings' = <<0>>
  BY <1>3, <1>4
<1>6. BeatTypes' /\ BeatFlags'
  BY <1>1, <1>4 DEF HeartbeatInv, BeatTypes, BeatFlags
<1>7. OnePing'
  BY <1>1, <1>2, <1>3, <1>4, <1>5 DEF HeartbeatInv, BeatTypes, OnePing, Single, Unanswered
<1>8. Truthful'
  <2>1. Beat!Oldest(pings') = 0 /\ pings' # <<>> /\ Beat!Oldest(pongs') = 0
    BY <1>1, <1>3, <1>5 DEF Beat!Oldest
  <2>2. Beat!AlarmTrue' /\ Beat!GivenUpIsCut'
    BY <1>1 DEF HeartbeatInv, Truthful, Beat!AlarmTrue, Beat!GivenUpIsCut
  <2> QED
    BY <1>1, <1>2, <2>1, <2>2 DEF Truthful
<1>9. InTime'
  BY <1>1, <1>2, <1>3, <1>4 DEF HeartbeatInv, BeatTypes, InTime, Unanswered
<1> QED
  BY <1>6, <1>7, <1>8, <1>9 DEF HeartbeatInv

LEMMA NoteKept == ASSUME HeartbeatInv, Beat!Note PROVE HeartbeatInv'
PROOF
<1> USE TimeoutsAreNested
<1>1. /\ ping = "sent" /\ ping' = "wait" /\ awaiting' = 1
      /\ UNCHANGED <<clock, since, pings, pongs, failed, alive, silent, cut, asleep, slept, late, early>>
  BY DEF Beat!Note
<1>2. BeatTypes' /\ BeatFlags'
  BY <1>1 DEF HeartbeatInv, BeatTypes, BeatFlags
<1>3. OnePing'
  BY <1>1 DEF HeartbeatInv, OnePing, Unanswered
<1>4. Truthful'
  <2>1. Beat!Oldest(pings) \in Nat /\ Beat!Oldest(pongs) \in Nat
    BY SingleOldest DEF HeartbeatInv, BeatTypes, OnePing
  <2>2. Beat!AlarmTrue' /\ Beat!GivenUpIsCut'
    BY <1>1 DEF HeartbeatInv, Truthful, Beat!AlarmTrue, Beat!GivenUpIsCut
  <2> QED
    BY <1>1, <2>1, <2>2 DEF HeartbeatInv, Truthful, Unanswered
<1>5. InTime'
  BY <1>1 DEF HeartbeatInv, InTime, Unanswered
<1> QED
  BY <1>2, <1>3, <1>4, <1>5 DEF HeartbeatInv

\* An answer taken before the time was noted is early.
LEMMA PongKept == ASSUME HeartbeatInv, Beat!Pong PROVE HeartbeatInv'
PROOF
<1> USE TimeoutsAreNested
<1>1. /\ pongs # <<>> /\ pongs' = Tail(pongs) /\ awaiting' = 0
      /\ early' = (early \/ ping = "sent")
      /\ UNCHANGED <<clock, since, ping, pings, failed, alive, silent, cut, asleep, slept, late>>
  BY DEF Beat!Pong
<1>2. pings = <<>> /\ pongs' = <<>>
  BY <1>1 DEF HeartbeatInv, OnePing, Single
<1>3. BeatTypes'
  BY <1>1 DEF HeartbeatInv, BeatTypes
<1>4. BeatFlags'
  BY <1>1, Zenon DEF HeartbeatInv, BeatFlags
<1>5. OnePing'
  BY <1>1, <1>2 DEF HeartbeatInv, OnePing, Single
<1>6. Truthful'
  <2>1. Beat!Oldest(pings') = 0 /\ Beat!Oldest(pongs') = 0
    BY <1>1, <1>2 DEF Beat!Oldest
  <2>2. Beat!AlarmTrue' /\ Beat!GivenUpIsCut'
    BY <1>1 DEF HeartbeatInv, Truthful, Beat!AlarmTrue, Beat!GivenUpIsCut
  <2>3. early' \/ ~Unanswered'
    <3>1. CASE ping = "sent"
      BY <1>1, <3>1, Zenon
    <3>2. CASE ping # "sent"
      BY <1>1, <3>2 DEF Unanswered
    <3> QED
      BY <3>1, <3>2
  <2> QED
    BY <2>1, <2>2, <2>3 DEF Truthful
<1>7. InTime'
  BY <1>1, <1>2 DEF HeartbeatInv, InTime, Unanswered
<1> QED
  BY <1>3, <1>4, <1>5, <1>6, <1>7 DEF HeartbeatInv

LEMMA HandleKept == ASSUME HeartbeatInv, Beat!Handle PROVE HeartbeatInv'
PROOF
<1> USE TimeoutsAreNested
<1>1. /\ pings # <<>> /\ pings' = Tail(pings) /\ pongs' = Append(pongs, Beat!Oldest(pings))
      /\ silent' = 0
      /\ UNCHANGED <<clock, since, ping, awaiting, failed, alive, cut, asleep, slept, late, early>>
  BY DEF Beat!Handle
<1>2. /\ pongs = <<>> /\ pings' = <<>> /\ Beat!Oldest(pings) \in 0..clock
      /\ pongs' = <<Beat!Oldest(pings)>>
  <2>1. pongs = <<>> /\ pings' = <<>>
    BY <1>1 DEF HeartbeatInv, OnePing, Single
  <2>2. Beat!Oldest(pings) \in 0..clock
    BY SingleOldest DEF HeartbeatInv, BeatTypes, OnePing
  <2> QED
    BY <1>1, <2>1, <2>2
<1>3. BeatTypes' /\ BeatFlags'
  BY <1>1 DEF HeartbeatInv, BeatTypes, BeatFlags
<1>4. OnePing'
  BY <1>1, <1>2 DEF HeartbeatInv, OnePing, Single, Unanswered
<1>5. Truthful'
  <2>1. Beat!Oldest(pings') = 0 /\ Beat!Oldest(pongs') = Beat!Oldest(pings) /\ pongs' # <<>>
    BY <1>2 DEF Beat!Oldest
  <2>2. Beat!AlarmTrue' /\ Beat!GivenUpIsCut'
    BY <1>1 DEF HeartbeatInv, Truthful, Beat!AlarmTrue, Beat!GivenUpIsCut
  <2> QED
    BY <1>1, <1>2, <2>1, <2>2 DEF HeartbeatInv, Truthful, Unanswered
<1>6. InTime'
  BY <1>1 DEF HeartbeatInv, BeatTypes, InTime, Unanswered
<1> QED
  BY <1>3, <1>4, <1>5, <1>6 DEF HeartbeatInv

LEMMA HeartbeatStep == ASSUME HeartbeatInv, Beat!Next PROVE HeartbeatInv'
PROOF
  BY TickKept, FoundDeadKept, DueKept, NoteKept, PongKept, HandleKept DEF Beat!Next

LEMMA HeartbeatSafety ==
    HeartbeatInv => Beat!TypeOK /\ Beat!AlarmTrue /\ Beat!GivenUpIsCut /\ Beat!Noticed
PROOF
<1> SUFFICES ASSUME HeartbeatInv
             PROVE  Beat!TypeOK /\ Beat!AlarmTrue /\ Beat!GivenUpIsCut /\ Beat!Noticed
  OBVIOUS
<1>1. pings \in Seq(0..MaxTicks) /\ pongs \in Seq(0..MaxTicks)
  BY SingleTyped DEF HeartbeatInv, BeatTypes, OnePing
<1>2. Beat!TypeOK
  BY <1>1, Zenon DEF HeartbeatInv, BeatTypes, BeatFlags, Beat!TypeOK
<1>3. Beat!Noticed
  BY HeardOf DEF HeartbeatInv, Beat!Noticed
<1> QED
  BY <1>2, <1>3 DEF HeartbeatInv, Truthful

\* The task gives up a connection only when an answer was late, the Relay only an
\* agent that was cut off or asleep, and a dead connection is noticed in time.
THEOREM AlarmsAreTrue == Spec => []HeartbeatSafe
PROOF
<1> DEFINE Inv == part = "heartbeat" => HeartbeatInv
<1>1. Init => Inv
  BY HeartbeatInit DEF Init
<1>2. Inv /\ [Next]_vars => Inv'
  <2> SUFFICES ASSUME Inv, [Next]_vars, part' = "heartbeat"
               PROVE  HeartbeatInv'
    OBVIOUS
  <2>1. CASE HeartbeatNext
    BY <2>1, HeartbeatStep DEF HeartbeatNext
  <2>2. CASE SessionNext \/ JournalNext \/ CommandsNext \/ ClientNext
    BY <2>2 DEF SessionNext, JournalNext, CommandsNext, ClientNext
  <2>3. CASE UNCHANGED vars
    <3>1. part = "heartbeat" /\ UNCHANGED heartbeatVars
      BY <2>3 DEF vars
    <3> QED
      BY <3>1 DEF heartbeatVars, HeartbeatInv, BeatTypes, BeatFlags, OnePing, Truthful, InTime,
                  Unanswered, Beat!AlarmTrue, Beat!GivenUpIsCut
  <2> QED
    BY <2>1, <2>2, <2>3 DEF Next
<1>3. Inv => HeartbeatSafe
  BY HeartbeatSafety DEF HeartbeatSafe
<1> QED
  BY <1>1, <1>2, <1>3, PTL DEF Spec, vars
-------------------------------------------------------------------------------
(* The signed commands                                                        *)

\* What the cache keeps of an envelope.
Signed == {[nonce |-> e.nonce, expires |-> e.expires] : e \in Envelopes}

\* A task that has claimed its nonce and not run its command yet, in its own
\* steps or behind the gate, and one on its way there.
Claimed == {"plain", "launch", "lcu", "client", "opening", "act"}
Unclaimed == {"authorize", "verify", "key"}

Count(b) == IF b THEN 1 ELSE 0
AtGate(n) == Count(disk = n)
Underway(n) == Count(command.env.nonce = n /\ command.pc \in Claimed)
Ahead(n) == Count(command.env.nonce = n /\ command.pc \in Unclaimed)

\* No clock read from now on admits the envelope.
Past(e) == e.expires + Skew < now /\ (command.pc = "key" => e.expires + Skew < command.at)

OrderTypes ==
    /\ now \in 0..MaxTime /\ serverKey \in {1, 2} /\ key \in 0..2
    /\ link \in {"closed", "open", "new_device", "trusted"} /\ drops \in 0..MaxDrops
    /\ requests \in 0..MaxRequests
    /\ answers \in [Orders!Requests -> 0..1]
    /\ command \in [pc : Orders!Steps, req : 0..MaxRequests, env : Envelopes,
                    trust : {"open", "new_device", "trusted"}, at : 0..MaxTime]
    /\ lock \in {"free", "task", "ui"}
    /\ disk \in {"free", "lockfile"} \cup Orders!Nonces
    /\ ran \in [Orders!Nonces -> Nat] /\ forgotten \subseteq Orders!Nonces

\* The cache is within its bound and holds entries of envelopes.
CacheOK == nonces \subseteq Signed /\ IsFiniteSet(nonces) /\ Cardinality(nonces) <= MaxNonces

\* The clock that admitted a task, before or at this time.
Admitted == command.pc = "key" => command.at <= now /\ command.at <= command.env.expires + Skew

\* What was claimed was claimed once, and stays known until no task can be
\* admitted with it any more; what has run or may run has been asked for.
Accounted ==
    /\ \A n \in Orders!Nonces : n \notin forgotten => ran[n] + AtGate(n) + Underway(n) <= 1
    /\ \A e \in Envelopes :
          ran[e.nonce] + AtGate(e.nonce) + Underway(e.nonce) > 0 =>
              \/ e.nonce \in forgotten
              \/ [nonce |-> e.nonce, expires |-> e.expires] \in nonces
              \/ Past(e)
    /\ \A n \in Orders!Nonces : ran[n] + AtGate(n) + Underway(n) + Ahead(n) <= requests

\* Nobody has answered the request of the task, everybody those before it.
Answered ==
    /\ asked \subseteq 1..requests
    /\ command.pc = "none" <=> command.req = 0
    /\ link = "closed" => command.pc = "none"
    /\ command.req # 0 => command.req \in asked
    /\ \A r \in Orders!Requests : r > requests => answers[r] = 0
    /\ link # "closed" => \A r \in asked : answers[r] = 1 <=> command.req # r

CommandsInv == OrderTypes /\ CacheOK /\ Admitted /\ Accounted /\ Answered /\ Orders!LockKept

LEMMA CommandsInit == Orders!Init => CommandsInv
PROOF
<1> SUFFICES ASSUME Orders!Init
             PROVE  CommandsInv
  OBVIOUS
<1> USE CommandBoundsAreNats, EnvelopesAreSigned
<1>1. Orders!Earliest \in Envelopes
  BY DEF Orders!Earliest
<1>2. command = [pc |-> "none", req |-> 0, env |-> Orders!Earliest, trust |-> "open", at |-> 0]
  BY DEF Orders!Init, Orders!NoTask
<1>3. /\ now = 0 /\ serverKey = 1 /\ key = 0 /\ link = "closed" /\ drops = 0 /\ asked = {} /\ requests = 0
      /\ answers = [r \in Orders!Requests |-> 0] /\ nonces = {} /\ lock = "free" /\ disk = "free"
      /\ ran = [n \in Orders!Nonces |-> 0] /\ forgotten = {}
  BY DEF Orders!Init
<1>4. OrderTypes
  BY <1>1, <1>2, <1>3 DEF OrderTypes, Orders!Steps
<1>5. CacheOK
  BY <1>3, FS_EmptySet DEF CacheOK
<1>6. Admitted /\ Answered /\ Orders!LockKept
  BY <1>2, <1>3 DEF Admitted, Answered, Orders!LockKept
<1>7. Accounted
  BY <1>2, <1>3 DEF Accounted, AtGate, Underway, Ahead, Count, Claimed, Unclaimed, Orders!Nonces
<1> QED
  BY <1>4, <1>5, <1>6, <1>7 DEF CommandsInv

\* A set of natural numbers that is not empty has a least element.
LEMMA LeastExists ==
    ASSUME NEW T, T \subseteq Nat, T # {}
    PROVE  \E x \in T : \A y \in T : x <= y
PROOF
<1>1. OpToRel(<, Nat) = {ss \in Nat \X Nat : ss[1] < ss[2]}
  BY Zenon DEF OpToRel
<1>2. PICK x \in T : \A y \in T : <<y, x>> \notin OpToRel(<, Nat)
  BY NatLessThanWellFounded, WFMin, Zenon
<1>3. ASSUME NEW y \in T
      PROVE  x <= y
  <2>1. ~(y < x)
    BY <1>1, <1>2
  <2> QED
    BY <2>1
<1> QED
  BY <1>2, <1>3

LEMMA SameCardinality == ASSUME NEW S PROVE Orders!Cardinality(S) = Cardinality(S)
PROOF
  BY DEF Orders!Cardinality, Cardinality

LEMMA OneMore ==
    ASSUME NEW S, IsFiniteSet(S), NEW x
    PROVE  /\ IsFiniteSet(S \cup {x}) /\ Cardinality(S) \in Nat
           /\ Cardinality(S \cup {x}) \in Nat /\ Cardinality(S \cup {x}) <= Cardinality(S) + 1
PROOF
  BY FS_AddElement, FS_CardinalityType

\* The entry that makes room is one of the cache, and there is none only where
\* there is room.
LEMMA OneMakesRoom ==
    ASSUME NEW cache, cache \subseteq Signed, IsFiniteSet(cache), Cardinality(cache) <= MaxNonces, NEW x
    PROVE  /\ Orders!Oldest(cache) \subseteq cache
           /\ IsFiniteSet((cache \ Orders!Oldest(cache)) \cup {x})
           /\ Cardinality((cache \ Orders!Oldest(cache)) \cup {x}) <= MaxNonces
PROOF
<1> USE CommandBoundsAreNats, EnvelopesAreSigned
<1>1. Cardinality(cache) \in Nat
  BY FS_CardinalityType
<1>2. CASE Cardinality(cache) < MaxNonces
  <2>1. Orders!Oldest(cache) = {}
    BY <1>2, SameCardinality DEF Orders!Oldest
  <2>2. (cache \ Orders!Oldest(cache)) \cup {x} = cache \cup {x}
    BY <2>1
  <2>3. /\ IsFiniteSet(cache \cup {x}) /\ Cardinality(cache \cup {x}) <= Cardinality(cache) + 1
        /\ Cardinality(cache \cup {x}) \in Nat
    BY OneMore
  <2>4. Cardinality(cache \cup {x}) <= MaxNonces
    BY <1>1, <1>2, <2>3
  <2> QED
    BY <2>1, <2>2, <2>3, <2>4
<1>3. CASE ~(Cardinality(cache) < MaxNonces)
  <2> DEFINE first == CHOOSE n \in cache : \A m \in cache : n.expires <= m.expires
             Ends == {n.expires : n \in cache}
  <2>1. Orders!Oldest(cache) = {first}
    BY <1>3, SameCardinality DEF Orders!Oldest
  <2>2. cache # {}
    BY <1>1, <1>3, FS_EmptySet
  <2>3. Ends \subseteq Nat /\ Ends # {}
    BY <2>2 DEF Signed
  <2>4. PICK t \in Ends : \A u \in Ends : t <= u
    <3> HIDE DEF Ends
    <3> QED
      BY <2>3, LeastExists
  <2>5. \E n \in cache : \A m \in cache : n.expires <= m.expires
    BY <2>4
  <2>6. first \in cache
    BY <2>5
  <2> HIDE DEF first
  <2>7. IsFiniteSet(cache \ {first}) /\ Cardinality(cache \ {first}) = Cardinality(cache) - 1
    BY <2>6, FS_RemoveElement
  <2> DEFINE rest == cache \ {first}
  <2> HIDE DEF rest
  <2>8. /\ IsFiniteSet(rest \cup {x}) /\ Cardinality(rest \cup {x}) <= Cardinality(rest) + 1
        /\ Cardinality(rest \cup {x}) \in Nat /\ Cardinality(rest) \in Nat
    BY <2>7, OneMore DEF rest
  <2>9. Cardinality(rest \cup {x}) <= MaxNonces
    BY <1>1, <2>7, <2>8 DEF rest
  <2>10. (cache \ Orders!Oldest(cache)) \cup {x} = rest \cup {x}
    BY <2>1 DEF rest
  <2> QED
    BY <2>1, <2>6, <2>8, <2>9, <2>10
<1> QED
  BY <1>2, <1>3

LEMMA CacheKept == ASSUME CommandsInv, Orders!Next PROVE CacheOK'
PROOF
<1>1. CASE Orders!Claim
  <2> DEFINE cache == Orders!Retained(nonces, command.at)
             entry == [nonce |-> command.env.nonce, expires |-> command.env.expires]
  <2>1. cache \subseteq nonces
    BY DEF Orders!Retained
  <2>2. cache \subseteq Signed /\ IsFiniteSet(cache) /\ Cardinality(cache) <= Cardinality(nonces)
    BY <2>1, FS_Subset DEF CommandsInv, CacheOK
  <2>3. Cardinality(cache) \in Nat /\ Cardinality(nonces) \in Nat
    BY <2>2, FS_CardinalityType DEF CommandsInv, CacheOK
  <2>4. Cardinality(cache) <= MaxNonces
    BY <2>2, <2>3, CommandBoundsAreNats DEF CommandsInv, CacheOK
  <2>5. nonces' \in {nonces, cache, (cache \ Orders!Oldest(cache)) \cup {entry}}
    BY <1>1 DEF Orders!Claim
  <2>6. entry \in Signed
    BY DEF CommandsInv, OrderTypes, Signed
  <2> HIDE DEF cache, entry
  <2>7. CASE nonces' = (cache \ Orders!Oldest(cache)) \cup {entry}
    BY <2>2, <2>4, <2>6, <2>7, OneMakesRoom DEF CacheOK
  <2>8. CASE nonces' \in {nonces, cache}
    BY <2>2, <2>4, <2>8 DEF CommandsInv, CacheOK
  <2> QED
    BY <2>5, <2>7, <2>8
<1>2. CASE nonces' = nonces
  BY <1>2 DEF CommandsInv, CacheOK
<1> QED
  BY <1>1, <1>2
     DEF Orders!Next, Orders!Tick, Orders!RotateKey, Orders!KeyExpires, Orders!Open, Orders!Bind,
         Orders!Close, Orders!UiLocks, Orders!UiUnlocks, Orders!Receive, Orders!Answer, Orders!Authorize,
         Orders!Check, Orders!CommandKey, Orders!Plain, Orders!Launch, Orders!TakeLock, Orders!LockTimeout,
         Orders!OpenClient, Orders!DiskDone, Orders!DiskTimeout, Orders!Act, Orders!Acted

\* The task: it goes from step to step, is admitted, begins and is over.
LEMMA TaskTyped ==
    ASSUME CommandsInv, Orders!Next
    PROVE  command' \in [pc : Orders!Steps, req : 0..MaxRequests, env : Envelopes,
                         trust : {"open", "new_device", "trusted"}, at : 0..MaxTime]
PROOF
<1> USE CommandBoundsAreNats, EnvelopesAreSigned
<1>1. command \in [pc : Orders!Steps, req : 0..MaxRequests, env : Envelopes,
                   trust : {"open", "new_device", "trusted"}, at : 0..MaxTime]
  BY DEF CommandsInv, OrderTypes
<1>2. CASE \E pc \in Orders!Steps : Orders!GoTo(pc)
  BY <1>1, <1>2 DEF Orders!GoTo
<1>3. CASE command' = Orders!NoTask
  <2>1. Orders!Earliest \in Envelopes
    BY DEF Orders!Earliest
  <2> QED
    BY <1>3, <2>1 DEF Orders!NoTask, Orders!Steps
<1>4. CASE Orders!Check
  BY <1>1, <1>4 DEF Orders!Check, Orders!Steps, CommandsInv, OrderTypes
<1>5. ASSUME NEW e \in Envelopes, Orders!Receive(e)
      PROVE  command' \in [pc : Orders!Steps, req : 0..MaxRequests, env : Envelopes,
                           trust : {"open", "new_device", "trusted"}, at : 0..MaxTime]
  BY <1>1, <1>5 DEF Orders!Receive, Orders!Steps, CommandsInv, OrderTypes
<1>6. CASE UNCHANGED command
  BY <1>1, <1>6
<1>7. CASE Orders!Claim
  <2>1. command.env.kind \in Orders!Steps
    BY <1>1 DEF Orders!Steps
  <2>2. Orders!GoTo("answer") \/ Orders!GoTo(command.env.kind)
    BY <1>7 DEF Orders!Claim
  <2> QED
    BY <1>2, <2>1, <2>2 DEF Orders!Steps
<1>8. CASE \/ Orders!Authorize \/ Orders!CommandKey \/ Orders!Plain \/ Orders!Launch \/ Orders!TakeLock
           \/ Orders!LockTimeout \/ Orders!OpenClient \/ Orders!DiskDone \/ Orders!DiskTimeout
           \/ Orders!Act \/ Orders!Acted
  <2>1. UNCHANGED command \/ \E pc \in Orders!Steps : Orders!GoTo(pc)
    BY <1>8 DEF Orders!Authorize, Orders!CommandKey, Orders!Plain, Orders!Launch, Orders!TakeLock,
                Orders!LockTimeout, Orders!OpenClient, Orders!DiskDone, Orders!DiskTimeout, Orders!Act,
                Orders!Acted, Orders!Steps
  <2> QED
    BY <1>2, <1>6, <2>1
<1> QED
  BY <1>3, <1>4, <1>5, <1>6, <1>7, <1>8
     DEF Orders!Next, Orders!Tick, Orders!RotateKey, Orders!KeyExpires, Orders!Open, Orders!Bind,
         Orders!Close, Orders!UiLocks, Orders!UiUnlocks, Orders!Answer

LEMMA OrdersTyped == ASSUME CommandsInv, Orders!Next PROVE OrderTypes'
PROOF
<1> USE CommandBoundsAreNats, EnvelopesAreSigned DEF CommandsInv, OrderTypes
<1>1. command' \in [pc : Orders!Steps, req : 0..MaxRequests, env : Envelopes,
                    trust : {"open", "new_device", "trusted"}, at : 0..MaxTime]
  BY TaskTyped
<1>2. command.env.nonce \in Orders!Nonces
  BY DEF Orders!Nonces
<1>3. CASE Orders!Tick \/ Orders!RotateKey \/ Orders!KeyExpires
  BY <1>1, <1>3 DEF Orders!Tick, Orders!RotateKey, Orders!KeyExpires
<1>4. CASE Orders!Open \/ Orders!Close \/ \E t \in {"new_device", "trusted"} : Orders!Bind(t)
  BY <1>1, <1>4 DEF Orders!Open, Orders!Close, Orders!Bind
<1>5. CASE \E e \in Envelopes : Orders!Receive(e)
  <2>1. requests' \in 0..MaxRequests /\ requests' \in Orders!Requests
    BY <1>5 DEF Orders!Receive, Orders!Requests
  <2>2. answers[requests'] = 0
    BY <1>5, <2>1 DEF Orders!Receive, Answered
  <2>3. answers' = answers \/ answers' = [answers EXCEPT ![requests'] = 0 + 1]
    BY <1>5, <2>2 DEF Orders!Receive, Orders!Refused
  <2>4. answers' \in [Orders!Requests -> 0..1]
    BY <2>1, <2>3
  <2> QED
    BY <1>1, <1>5, <2>1, <2>4 DEF Orders!Receive
<1>6. CASE Orders!Answer
  <2>1. command.req \in asked /\ link # "closed"
    BY <1>6 DEF Orders!Answer, Orders!At, Answered
  <2>2. command.req \in Orders!Requests /\ answers[command.req] = 0
    BY <2>1 DEF Answered, Orders!Requests
  <2>3. answers' \in [Orders!Requests -> 0..1]
    BY <1>6, <2>2 DEF Orders!Answer
  <2> QED
    BY <1>1, <1>6, <2>3 DEF Orders!Answer
<1>7. CASE Orders!Authorize \/ Orders!Check \/ Orders!CommandKey
  BY <1>1, <1>7 DEF Orders!Authorize, Orders!Check, Orders!CommandKey
<1>8. CASE Orders!Claim
  <2>1. forgotten' = forgotten
        \/ forgotten' = forgotten \cup Orders!Known(Orders!Oldest(Orders!Retained(nonces, command.at)))
    BY <1>8 DEF Orders!Claim
  <2>2. Orders!Oldest(Orders!Retained(nonces, command.at)) \subseteq nonces
    <3>1. Orders!Retained(nonces, command.at) \subseteq nonces
      BY DEF Orders!Retained
    <3>2. IsFiniteSet(Orders!Retained(nonces, command.at))
          /\ Cardinality(Orders!Retained(nonces, command.at)) <= Cardinality(nonces)
      BY <3>1, FS_Subset DEF CacheOK
    <3>3. Cardinality(Orders!Retained(nonces, command.at)) <= MaxNonces
      BY <3>2, FS_CardinalityType DEF CacheOK
    <3> QED
      BY <3>1, <3>2, <3>3, OneMakesRoom DEF CacheOK
  <2>3. \A n \in nonces : n.nonce \in Orders!Nonces
    BY DEF CacheOK, Signed, Orders!Nonces
  <2>4. forgotten' \subseteq Orders!Nonces
    BY <2>1, <2>2, <2>3 DEF Orders!Known
  <2> QED
    BY <1>1, <1>8, <2>4 DEF Orders!Claim
<1>9. CASE Orders!Plain \/ Orders!Act
  BY <1>1, <1>2, <1>9 DEF Orders!Plain, Orders!Act, Orders!Carried
<1>10. CASE Orders!Launch \/ Orders!OpenClient
  BY <1>1, <1>2, <1>10 DEF Orders!Launch, Orders!OpenClient
<1>11. CASE Orders!TakeLock \/ Orders!LockTimeout \/ Orders!DiskTimeout \/ Orders!Acted
  BY <1>1, <1>11 DEF Orders!TakeLock, Orders!LockTimeout, Orders!DiskTimeout, Orders!Acted
<1>12. CASE Orders!DiskDone
  BY <1>1, <1>12 DEF Orders!DiskDone, Orders!Carried
<1>13. CASE Orders!UiLocks \/ Orders!UiUnlocks
  BY <1>1, <1>13 DEF Orders!UiLocks, Orders!UiUnlocks
<1> QED
  BY <1>3, <1>4, <1>5, <1>6, <1>7, <1>8, <1>9, <1>10, <1>11, <1>12, <1>13 DEF Orders!Next

LEMMA AdmittedKept == ASSUME CommandsInv, Orders!Next PROVE Admitted'
PROOF
<1> USE CommandBoundsAreNats, EnvelopesAreSigned DEF CommandsInv, OrderTypes
<1>1. CASE Orders!Check
  BY <1>1 DEF Orders!Check, Orders!TimeValid, Admitted
<1>2. CASE Orders!Authorize \/ Orders!Claim
  <2>1. command'.pc # "key"
    BY <1>2 DEF Orders!Authorize, Orders!Claim, Orders!GoTo
  <2> QED
    BY <2>1 DEF Admitted
<1>3. CASE now <= now' /\ (UNCHANGED command \/ command'.pc # "key")
  BY <1>3, OrdersTyped DEF Admitted
<1>4. CASE Orders!Tick
  BY <1>3, <1>4 DEF Orders!Tick
<1>5. CASE now' = now /\ (UNCHANGED command \/ command'.pc # "key")
  BY <1>3, <1>5
<1>6. CASE Orders!CommandKey
  BY <1>5, <1>6 DEF Orders!CommandKey, Orders!GoTo
<1>7. CASE Orders!Close \/ Orders!Answer
  BY <1>5, <1>7 DEF Orders!Close, Orders!Answer, Orders!NoTask
<1>8. CASE \/ Orders!Plain \/ Orders!Launch \/ Orders!TakeLock \/ Orders!LockTimeout \/ Orders!OpenClient
           \/ Orders!DiskDone \/ Orders!DiskTimeout \/ Orders!Act \/ Orders!Acted
  BY <1>5, <1>8
     DEF Orders!Plain, Orders!Launch, Orders!TakeLock, Orders!LockTimeout, Orders!OpenClient,
         Orders!DiskDone, Orders!DiskTimeout, Orders!Act, Orders!Acted, Orders!GoTo
<1>9. CASE \E e \in Envelopes : Orders!Receive(e)
  BY <1>5, <1>9 DEF Orders!Receive
<1> QED
  BY <1>1, <1>2, <1>4, <1>5, <1>6, <1>7, <1>8, <1>9
     DEF Orders!Next, Orders!RotateKey, Orders!KeyExpires, Orders!Open, Orders!Bind,
         Orders!UiLocks, Orders!UiUnlocks

LEMMA AnsweredKept == ASSUME CommandsInv, Orders!Next PROVE Answered'
PROOF
<1> USE CommandBoundsAreNats, EnvelopesAreSigned DEF CommandsInv, OrderTypes
<1>1. CASE UNCHANGED <<link, asked, requests, answers, command>>
  BY <1>1 DEF Answered
<1>2. CASE /\ UNCHANGED <<link, asked, requests, answers>>
           /\ command.pc # "none" /\ command'.pc # "none" /\ command'.req = command.req
  BY <1>2 DEF Answered
<1>3. CASE /\ UNCHANGED <<link, asked, requests, answers>>
           /\ command.pc # "none" /\ \E pc \in Orders!Steps \ {"none"} : Orders!GoTo(pc)
  BY <1>2, <1>3 DEF Orders!GoTo
<1>4. CASE \/ Orders!Authorize \/ Orders!CommandKey \/ Orders!Plain \/ Orders!Launch \/ Orders!TakeLock
           \/ Orders!LockTimeout \/ Orders!OpenClient \/ Orders!DiskDone \/ Orders!DiskTimeout
           \/ Orders!Act \/ Orders!Acted \/ Orders!Claim
  <2>1. UNCHANGED <<link, asked, requests, answers>>
    BY <1>4 DEF Orders!Authorize, Orders!CommandKey, Orders!Plain, Orders!Launch, Orders!TakeLock,
                Orders!LockTimeout, Orders!OpenClient, Orders!DiskDone, Orders!DiskTimeout, Orders!Act,
                Orders!Acted, Orders!Claim
  <2>2. UNCHANGED command \/ command.pc # "none"
    BY <1>4 DEF Orders!Authorize, Orders!CommandKey, Orders!Plain, Orders!Launch, Orders!TakeLock,
                Orders!LockTimeout, Orders!OpenClient, Orders!DiskDone, Orders!DiskTimeout, Orders!Act,
                Orders!Acted, Orders!Claim, Orders!At, Orders!Waiting
  <2>3. UNCHANGED command \/ \E pc \in Orders!Steps \ {"none"} : Orders!GoTo(pc)
    BY <1>4 DEF Orders!Authorize, Orders!CommandKey, Orders!Plain, Orders!Launch, Orders!TakeLock,
                Orders!LockTimeout, Orders!OpenClient, Orders!DiskDone, Orders!DiskTimeout, Orders!Act,
                Orders!Acted, Orders!Claim, Orders!Steps
  <2> QED
    BY <1>1, <1>3, <2>1, <2>2, <2>3
<1>5. CASE Orders!Check
  BY <1>2, <1>5 DEF Orders!Check, Orders!At
<1>6. CASE Orders!Answer
  <2>1. /\ command.req # 0 /\ command'.pc = "none" /\ command'.req = 0 /\ link # "closed"
        /\ UNCHANGED <<link, asked, requests>>
    BY <1>6 DEF Orders!Answer, Orders!At, Orders!NoTask, Answered
  <2>2. command.req \in asked /\ command.req \in Orders!Requests /\ answers[command.req] = 0
    BY <2>1 DEF Answered, Orders!Requests
  <2>3. answers' = [answers EXCEPT ![command.req] = 1]
    BY <1>6, <2>2 DEF Orders!Answer
  <2>4. \A r \in asked : r \in Orders!Requests
    BY DEF Answered, Orders!Requests
  <2> QED
    BY <2>1, <2>2, <2>3, <2>4 DEF Answered
<1>7. CASE \E e \in Envelopes : Orders!Receive(e)
  <2>1. PICK e \in Envelopes : Orders!Receive(e)
    BY <1>7
  <2>2. /\ requests' = requests + 1 /\ requests' \in Orders!Requests
        /\ asked' = asked \cup {requests'} /\ link # "closed" /\ link' = link
        /\ requests' \notin asked /\ answers[requests'] = 0
    BY <2>1 DEF Orders!Receive, Orders!Requests, Answered
  <2>3. \A r \in asked : r \in Orders!Requests
    BY DEF Answered, Orders!Requests
  <2>4. CASE command.pc # "none"
    <3>1. command' = command /\ answers' = [answers EXCEPT ![requests'] = 1]
      BY <2>1, <2>2, <2>4 DEF Orders!Receive, Orders!Refused
    <3>2. command.req # requests' /\ command.req # 0
      BY <2>2, <2>4 DEF Answered
    <3> QED
      BY <2>2, <2>3, <3>1, <3>2 DEF Answered
  <2>5. CASE command.pc = "none"
    <3>1. answers' = answers /\ command'.pc = "authorize" /\ command'.req = requests'
      BY <2>1, <2>5 DEF Orders!Receive
    <3>2. \A r \in asked : answers[r] = 1 /\ r # requests'
      BY <2>2, <2>5 DEF Answered
    <3> QED
      BY <2>2, <2>3, <3>1, <3>2 DEF Answered
  <2> QED
    BY <2>4, <2>5
<1>8. CASE Orders!Open
  BY <1>8 DEF Orders!Open, Answered
<1>9. CASE Orders!Close
  BY <1>9 DEF Orders!Close, Orders!NoTask, Answered
<1>10. CASE \E t \in {"new_device", "trusted"} : Orders!Bind(t)
  BY <1>10 DEF Orders!Bind, Answered
<1> QED
  BY <1>1, <1>4, <1>5, <1>6, <1>7, <1>8, <1>9, <1>10
     DEF Orders!Next, Orders!Tick, Orders!RotateKey, Orders!KeyExpires, Orders!UiLocks, Orders!UiUnlocks

LEMMA LockIsKept == ASSUME CommandsInv, Orders!Next PROVE Orders!LockKept'
PROOF
<1> USE EnvelopesAreSigned DEF CommandsInv, OrderTypes, Orders!LockKept
<1>1. CASE UNCHANGED <<lock, command>>
  BY <1>1
<1>2. CASE Orders!Claim
  <2>1. command.pc = "key" /\ command'.pc \in {"answer", "plain", "launch", "lcu"} /\ lock' = lock
    BY <1>2 DEF Orders!Claim, Orders!At, Orders!GoTo
  <2> QED
    BY <2>1
<1>3. CASE Orders!Authorize \/ Orders!Check \/ Orders!CommandKey \/ Orders!Answer
  <2>1. command.pc \in {"authorize", "verify", "key", "answer"} /\ lock' = lock
    BY <1>3 DEF Orders!Authorize, Orders!Check, Orders!CommandKey, Orders!Answer, Orders!At
  <2>2. command'.pc \in {"verify", "key", "answer", "none"}
    <3>1. CASE Orders!Authorize
      BY <3>1 DEF Orders!Authorize, Orders!GoTo
    <3>2. CASE Orders!Check
      BY <3>2 DEF Orders!Check
    <3>3. CASE Orders!CommandKey \/ Orders!Answer
      BY <3>3 DEF Orders!CommandKey, Orders!Answer, Orders!At, Orders!GoTo, Orders!NoTask
    <3> QED
      BY <1>3, <3>1, <3>2, <3>3
  <2> QED
    BY <2>1, <2>2
<1>4. CASE Orders!Plain \/ Orders!Launch \/ Orders!TakeLock \/ Orders!LockTimeout \/ Orders!OpenClient
  BY <1>4 DEF Orders!Plain, Orders!Launch, Orders!TakeLock, Orders!LockTimeout, Orders!OpenClient,
              Orders!At, Orders!GoTo
<1>5. CASE Orders!DiskDone \/ Orders!DiskTimeout \/ Orders!Act \/ Orders!Acted
  BY <1>5 DEF Orders!DiskDone, Orders!DiskTimeout, Orders!Act, Orders!Acted, Orders!At, Orders!GoTo,
              Orders!Waiting
<1>6. CASE \E e \in Envelopes : Orders!Receive(e)
  BY <1>6 DEF Orders!Receive
<1>7. CASE Orders!Close \/ Orders!UiLocks \/ Orders!UiUnlocks
  BY <1>7 DEF Orders!Close, Orders!UiLocks, Orders!UiUnlocks, Orders!NoTask
<1> QED
  BY <1>1, <1>2, <1>3, <1>4, <1>5, <1>6, <1>7
     DEF Orders!Next, Orders!Tick, Orders!RotateKey, Orders!KeyExpires, Orders!Open, Orders!Bind

\* Counting a nonce: what is at the gate and under way.
LEMMA Counts ==
    /\ \A n \in Orders!Nonces : AtGate(n) \in {0, 1} /\ Underway(n) \in {0, 1} /\ Ahead(n) \in {0, 1}
    /\ \A n \in Orders!Nonces :
          AtGate(n)' \in {0, 1} /\ Underway(n)' \in {0, 1} /\ Ahead(n)' \in {0, 1}
PROOF
  BY DEF AtGate, Underway, Ahead, Count

\* The steps that neither claim nor run anything.
LEMMA NothingClaimed ==
    ASSUME CommandsInv, OrderTypes', UNCHANGED <<disk, ran, nonces, forgotten>>,
           now <= now', requests <= requests',
           command'.pc \in Claimed => command.pc \in Claimed /\ command'.env = command.env,
           command'.pc \in Unclaimed =>
               \/ command.pc \in Unclaimed /\ command'.env = command.env
               \/ requests' = requests + 1 /\ command.pc = "none",
           command'.pc = "key" => \/ command.pc = "key" /\ command'.at = command.at
                                  \/ command'.at = now
    PROVE  Accounted'
PROOF
<1> USE CommandBoundsAreNats, EnvelopesAreSigned
<1>1. /\ \A n \in Orders!Nonces : ran[n] \in Nat
      /\ now \in Nat /\ now' \in Nat /\ requests \in Nat /\ requests' \in Nat
  BY DEF CommandsInv, OrderTypes
<1>2. \A e \in Envelopes : e.nonce \in Orders!Nonces
  BY DEF Orders!Nonces
<1>3. \A n \in Orders!Nonces : AtGate(n)' = AtGate(n) /\ Underway(n)' <= Underway(n)
  BY DEF AtGate, Underway, Count
<1>4. \A n \in Orders!Nonces : AtGate(n) \in Nat /\ Underway(n) \in Nat /\ Underway(n)' \in Nat /\ Ahead(n) \in Nat
                              /\ Ahead(n)' \in Nat
  BY Counts
<1>5. \A n \in Orders!Nonces : Underway(n)' + Ahead(n)' + requests <= Underway(n) + Ahead(n) + requests'
  <2> SUFFICES ASSUME NEW n \in Orders!Nonces
               PROVE  Underway(n)' + Ahead(n)' + requests <= Underway(n) + Ahead(n) + requests'
    OBVIOUS
  <2>1. CASE command'.pc \in Claimed
    <3>1. Underway(n)' = Underway(n) /\ Ahead(n)' = 0
      BY <2>1 DEF Underway, Ahead, Count, Claimed, Unclaimed
    <3> QED
      BY <1>1, <1>4, <3>1
  <2>2. CASE command'.pc \in Unclaimed
    <3>1. Underway(n)' = 0
      BY <2>2 DEF Underway, Count, Claimed, Unclaimed
    <3>2. Ahead(n)' = Ahead(n) \/ (requests' = requests + 1 /\ Ahead(n)' \in {0, 1})
      BY <2>2 DEF Ahead, Count
    <3> QED
      BY <1>1, <1>4, <3>1, <3>2
  <2>3. CASE command'.pc \notin Claimed \cup Unclaimed
    <3>1. Underway(n)' = 0 /\ Ahead(n)' = 0
      BY <2>3 DEF Underway, Ahead, Count
    <3> QED
      BY <1>1, <1>4, <3>1
  <2> QED
    BY <2>1, <2>2, <2>3
<1>6. \A e \in Envelopes : Past(e) => Past(e)'
  <2> SUFFICES ASSUME NEW e \in Envelopes, Past(e)
               PROVE  Past(e)'
    OBVIOUS
  <2>1. e.expires + Skew \in Nat
    OBVIOUS
  <2>2. e.expires + Skew < now'
    BY <1>1, <2>1 DEF Past
  <2> QED
    BY <2>1, <2>2 DEF Past
<1>7. \A n \in Orders!Nonces : ran[n] + AtGate(n)' + Underway(n)' <= ran[n] + AtGate(n) + Underway(n)
  BY <1>1, <1>3, <1>4
<1>8. \A n \in Orders!Nonces : n \notin forgotten' => ran'[n] + AtGate(n)' + Underway(n)' <= 1
  BY <1>1, <1>3, <1>4 DEF CommandsInv, Accounted
<1>9. \A n \in Orders!Nonces : ran'[n] + AtGate(n)' + Underway(n)' + Ahead(n)' <= requests'
  BY <1>1, <1>3, <1>4, <1>5 DEF CommandsInv, Accounted
<1>10. ASSUME NEW e \in Envelopes, ran'[e.nonce] + AtGate(e.nonce)' + Underway(e.nonce)' > 0
       PROVE  \/ e.nonce \in forgotten'
              \/ [nonce |-> e.nonce, expires |-> e.expires] \in nonces'
              \/ Past(e)'
  <2>1. ran[e.nonce] + AtGate(e.nonce) + Underway(e.nonce) > 0
    BY <1>1, <1>2, <1>3, <1>4, <1>10
  <2> QED
    BY <1>6, <2>1 DEF CommandsInv, Accounted
<1> QED
  BY <1>8, <1>9, <1>10 DEF Accounted

\* The steps that move a command on: to the gate, or from the task or the gate to
\* what has run.
LEMMA CarriedOn ==
    ASSUME CommandsInv, OrderTypes', UNCHANGED <<now, nonces, forgotten, requests>>,
           command'.pc # "key" \/ UNCHANGED command,
           \A n \in Orders!Nonces :
               /\ ran'[n] + AtGate(n)' + Underway(n)' <= ran[n] + AtGate(n) + Underway(n)
               /\ Ahead(n)' <= Ahead(n)
    PROVE  Accounted'
PROOF
<1> USE CommandBoundsAreNats, EnvelopesAreSigned
<1>1. \A n \in Orders!Nonces : ran[n] \in Nat /\ ran'[n] \in Nat
  BY DEF CommandsInv, OrderTypes
<1>2. \A e \in Envelopes : e.nonce \in Orders!Nonces
  BY DEF Orders!Nonces
<1>3. \A n \in Orders!Nonces : n \notin forgotten' => ran'[n] + AtGate(n)' + Underway(n)' <= 1
  <2> SUFFICES ASSUME NEW n \in Orders!Nonces, n \notin forgotten
               PROVE  ran'[n] + AtGate(n)' + Underway(n)' <= 1
    OBVIOUS
  <2>1. ran[n] + AtGate(n) + Underway(n) <= 1
    BY DEF CommandsInv, Accounted
  <2> QED
    BY <1>1, <2>1, Counts
<1>4. \A n \in Orders!Nonces : ran'[n] + AtGate(n)' + Underway(n)' + Ahead(n)' <= requests'
  <2> SUFFICES ASSUME NEW n \in Orders!Nonces
               PROVE  ran'[n] + AtGate(n)' + Underway(n)' + Ahead(n)' <= requests'
    OBVIOUS
  <2>1. ran[n] + AtGate(n) + Underway(n) + Ahead(n) <= requests
    BY DEF CommandsInv, Accounted
  <2>2. requests \in Nat
    BY DEF CommandsInv, OrderTypes
  <2> QED
    BY <1>1, <2>1, <2>2, Counts
<1>5. \A e \in Envelopes : Past(e) => Past(e)'
  BY DEF Past
<1>6. \A e \in Envelopes : ran'[e.nonce] + AtGate(e.nonce)' + Underway(e.nonce)' > 0 =>
         \/ e.nonce \in forgotten'
         \/ [nonce |-> e.nonce, expires |-> e.expires] \in nonces'
         \/ Past(e)'
  <2> SUFFICES ASSUME NEW e \in Envelopes, ran'[e.nonce] + AtGate(e.nonce)' + Underway(e.nonce)' > 0
               PROVE  \/ e.nonce \in forgotten'
                      \/ [nonce |-> e.nonce, expires |-> e.expires] \in nonces'
                      \/ Past(e)'
    OBVIOUS
  <2>1. ran[e.nonce] + AtGate(e.nonce) + Underway(e.nonce) > 0
    BY <1>1, <1>2, Counts
  <2> QED
    BY <1>5, <2>1 DEF CommandsInv, Accounted
<1> QED
  BY <1>3, <1>4, <1>6 DEF Accounted

\* A nonce that the cache does not know has been claimed by nobody else, or so
\* long ago that this task was not admitted: it is claimed now.
LEMMA ClaimKept == ASSUME CommandsInv, OrderTypes', Orders!Claim PROVE Accounted'
PROOF
<1> USE CommandBoundsAreNats, EnvelopesAreSigned
<1> DEFINE cache == Orders!Retained(nonces, command.at)
           entry == [nonce |-> command.env.nonce, expires |-> command.env.expires]
           gone == Orders!Oldest(cache)
<1>1. /\ command.pc = "key" /\ command.at <= now /\ command.at <= command.env.expires + Skew
      /\ UNCHANGED <<now, requests, disk, ran>> /\ command'.env = command.env
  BY DEF Orders!Claim, Orders!At, Orders!GoTo, CommandsInv, OrderTypes, Admitted
<1>2. /\ \A n \in Orders!Nonces : ran[n] \in Nat
      /\ now \in Nat /\ requests \in Nat /\ command.at \in Nat /\ command.env \in Envelopes
      /\ command.env.nonce \in Orders!Nonces
  BY DEF CommandsInv, OrderTypes, Orders!Nonces
<1>3. cache \subseteq nonces /\ \A x \in nonces : x \notin cache => x.expires + Skew < command.at
  BY <1>2 DEF Orders!Retained, CommandsInv, CacheOK, Signed
<1>4. gone \subseteq cache
  <2>1. IsFiniteSet(cache) /\ Cardinality(cache) <= Cardinality(nonces)
    BY <1>3, FS_Subset DEF CommandsInv, CacheOK
  <2>2. Cardinality(cache) <= MaxNonces
    BY <2>1, FS_CardinalityType DEF CommandsInv, CacheOK
  <2>3. cache \subseteq Signed
    BY <1>3 DEF CommandsInv, CacheOK
  <2> QED
    BY <2>1, <2>2, <2>3, OneMakesRoom
<1>5. \A e \in Envelopes : e.nonce \in Orders!Nonces
  BY DEF Orders!Nonces
<1>6. \A e \in Envelopes : Past(e) => Past(e)'
  <2>1. command'.pc \in {"answer", command.env.kind}
    BY DEF Orders!Claim, Orders!GoTo, CommandsInv, OrderTypes
  <2> QED
    BY <1>1, <1>2, <2>1 DEF Past
<1>7. CASE nonces' \in {nonces, cache} /\ forgotten' = forgotten /\ command'.pc = "answer"
  <2>1. \A n \in Orders!Nonces :
           AtGate(n)' = AtGate(n) /\ Underway(n)' = Underway(n) /\ Ahead(n)' <= Ahead(n)
    BY <1>1, <1>7 DEF AtGate, Underway, Ahead, Count, Claimed, Unclaimed
  <2>2. \A n \in Orders!Nonces : n \notin forgotten' => ran'[n] + AtGate(n)' + Underway(n)' <= 1
    BY <1>1, <1>7, <2>1 DEF CommandsInv, Accounted
  <2>3. \A n \in Orders!Nonces : ran'[n] + AtGate(n)' + Underway(n)' + Ahead(n)' <= requests'
    <3> SUFFICES ASSUME NEW n \in Orders!Nonces
                 PROVE  ran[n] + AtGate(n) + Underway(n) + Ahead(n)' <= requests
      BY <1>1, <2>1
    <3>1. ran[n] + AtGate(n) + Underway(n) + Ahead(n) <= requests
      BY DEF CommandsInv, Accounted
    <3> QED
      BY <1>2, <2>1, <3>1, Counts
  <2>4. ASSUME NEW e \in Envelopes, ran'[e.nonce] + AtGate(e.nonce)' + Underway(e.nonce)' > 0
        PROVE  \/ e.nonce \in forgotten'
               \/ [nonce |-> e.nonce, expires |-> e.expires] \in nonces'
               \/ Past(e)'
    <3>1. \/ e.nonce \in forgotten
          \/ [nonce |-> e.nonce, expires |-> e.expires] \in nonces
          \/ Past(e)
      BY <1>1, <1>5, <2>1, <2>4 DEF CommandsInv, Accounted
    <3>2. CASE [nonce |-> e.nonce, expires |-> e.expires] \in nonces \ nonces'
      <4>1. e.expires + Skew < command.at
        BY <1>3, <1>7, <3>2
      <4>2. e.expires + Skew < now'
        BY <1>1, <1>2, <4>1
      <4> QED
        BY <1>7, <4>2 DEF Past
    <3> QED
      BY <1>6, <1>7, <3>1, <3>2
  <2> QED
    BY <2>2, <2>3, <2>4 DEF Accounted
<1>8. CASE /\ command.env.nonce \notin Orders!Known(cache) /\ command'.pc = command.env.kind
           /\ nonces' = (cache \ gone) \cup {entry}
           /\ forgotten' = forgotten \cup Orders!Known(gone)
  <2>1. command'.pc \in Claimed /\ command'.pc # "key" /\ command'.pc \notin Unclaimed
    BY <1>2, <1>8 DEF Claimed, Unclaimed
  <2>2. \A n \in Orders!Nonces :
              /\ AtGate(n)' = AtGate(n)
              /\ n # command.env.nonce => Underway(n)' = Underway(n) /\ Ahead(n)' = Ahead(n)
              /\ n = command.env.nonce => /\ Underway(n) = 0 /\ Underway(n)' = 1
                                          /\ Ahead(n) = 1 /\ Ahead(n)' = 0
    BY <1>1, <1>2, <2>1 DEF AtGate, Underway, Ahead, Count, Claimed, Unclaimed
  <2>3. command.env.nonce \notin forgotten => ran[command.env.nonce] + AtGate(command.env.nonce) = 0
    <3> SUFFICES ASSUME command.env.nonce \notin forgotten,
                        ran[command.env.nonce] + AtGate(command.env.nonce) > 0
                 PROVE  FALSE
      BY <1>2, Counts
    <3>1. entry \in nonces \/ Past(command.env)
      <4>1. ran[command.env.nonce] + AtGate(command.env.nonce) + Underway(command.env.nonce) > 0
        BY <1>2, <2>2, Counts
      <4> QED
        BY <1>2, <4>1 DEF CommandsInv, Accounted
    <3>2. ~Past(command.env)
      BY <1>1, <1>2 DEF Past
    <3>3. entry \notin cache
      BY <1>8 DEF Orders!Known
    <3>4. command.env.expires + Skew < command.at
      BY <1>3, <3>1, <3>2, <3>3
    <3> QED
      BY <1>1, <1>2, <3>4
  <2>4. \A n \in Orders!Nonces : n \notin forgotten' => ran'[n] + AtGate(n)' + Underway(n)' <= 1
    <3> SUFFICES ASSUME NEW n \in Orders!Nonces, n \notin forgotten
                 PROVE  ran[n] + AtGate(n) + Underway(n)' <= 1
      BY <1>1, <1>8, <2>2
    <3>1. ran[n] + AtGate(n) + Underway(n) <= 1
      BY DEF CommandsInv, Accounted
    <3>2. CASE n = command.env.nonce
      BY <1>2, <2>2, <2>3, <3>2, Counts
    <3>3. CASE n # command.env.nonce
      BY <2>2, <3>1, <3>3
    <3> QED
      BY <3>2, <3>3
  <2>5. \A n \in Orders!Nonces : ran'[n] + AtGate(n)' + Underway(n)' + Ahead(n)' <= requests'
    <3> SUFFICES ASSUME NEW n \in Orders!Nonces
                 PROVE  ran[n] + AtGate(n) + Underway(n)' + Ahead(n)' <= requests
      BY <1>1, <2>2
    <3>1. ran[n] + AtGate(n) + Underway(n) + Ahead(n) <= requests
      BY DEF CommandsInv, Accounted
    <3>2. CASE n = command.env.nonce
      BY <1>2, <2>2, <3>1, <3>2, Counts
    <3>3. CASE n # command.env.nonce
      BY <2>2, <3>1, <3>3
    <3> QED
      BY <3>2, <3>3
  <2>6. ASSUME NEW e \in Envelopes, ran'[e.nonce] + AtGate(e.nonce)' + Underway(e.nonce)' > 0
        PROVE  \/ e.nonce \in forgotten'
               \/ [nonce |-> e.nonce, expires |-> e.expires] \in nonces'
               \/ Past(e)'
    <3>1. CASE e.nonce = command.env.nonce
      <4>1. e = command.env
        BY <1>2, <3>1
      <4> QED
        BY <1>8, <4>1
    <3>2. CASE e.nonce # command.env.nonce
      <4> DEFINE kept == [nonce |-> e.nonce, expires |-> e.expires]
      <4>1. \/ e.nonce \in forgotten \/ kept \in nonces \/ Past(e)
        BY <1>1, <1>5, <2>2, <2>6, <3>2 DEF CommandsInv, Accounted
      <4>2. CASE kept \in nonces \ cache
        <5>1. e.expires + Skew < command.at
          BY <1>3, <4>2
        <5>2. e.expires + Skew < now'
          BY <1>1, <1>2, <5>1
        <5> QED
          BY <2>1, <5>2 DEF Past
      <4>3. CASE kept \in gone
        <5>1. e.nonce \in Orders!Known(gone)
          BY <4>3 DEF Orders!Known
        <5> QED
          BY <1>8, <5>1
      <4>4. CASE kept \in cache \ gone
        BY <1>8, <4>4
      <4> HIDE DEF kept
      <4> QED
        BY <1>6, <1>8, <4>1, <4>2, <4>3, <4>4 DEF kept
    <3> QED
      BY <3>1, <3>2
  <2> QED
    BY <2>4, <2>5, <2>6 DEF Accounted
<1> HIDE DEF cache, entry, gone
<1> QED
  <2>1. \/ command'.pc = "answer" /\ nonces' = nonces /\ forgotten' = forgotten
        \/ command'.pc = "answer" /\ nonces' = cache /\ forgotten' = forgotten
        \/ /\ command.env.nonce \notin Orders!Known(cache) /\ command'.pc = command.env.kind
           /\ nonces' = (cache \ gone) \cup {entry}
           /\ forgotten' = forgotten \cup Orders!Known(gone)
    BY DEF Orders!Claim, Orders!GoTo, cache, entry, gone, CommandsInv, OrderTypes
  <2> QED
    BY <1>7, <1>8, <2>1

LEMMA AccountedKept == ASSUME CommandsInv, Orders!Next PROVE Accounted'
PROOF
<1> USE CommandBoundsAreNats, EnvelopesAreSigned
<1>1. OrderTypes /\ OrderTypes'
  BY OrdersTyped DEF CommandsInv
<1>2. /\ now \in Nat /\ now' \in Nat /\ requests \in Nat /\ command.env \in Envelopes
      /\ \A n \in Orders!Nonces : ran[n] \in Nat /\ n \notin {"free", "lockfile"}
      /\ command.env.nonce \in Orders!Nonces
  BY <1>1 DEF OrderTypes, Orders!Nonces
<1>3. CASE Orders!Tick \/ Orders!RotateKey \/ Orders!KeyExpires \/ Orders!Open \/ Orders!UiLocks
           \/ Orders!UiUnlocks \/ \E t \in {"new_device", "trusted"} : Orders!Bind(t)
  <2>1. UNCHANGED <<disk, ran, nonces, forgotten, command, requests>> /\ now <= now'
    BY <1>2, <1>3 DEF Orders!Tick, Orders!RotateKey, Orders!KeyExpires, Orders!Open, Orders!Bind,
                      Orders!UiLocks, Orders!UiUnlocks
  <2> QED
    BY <1>1, <1>2, <2>1, NothingClaimed
<1>4. CASE \E e \in Envelopes : Orders!Receive(e)
  <2>1. /\ UNCHANGED <<disk, ran, nonces, forgotten, now>> /\ requests' = requests + 1
        /\ \/ UNCHANGED command
           \/ command.pc = "none" /\ command'.pc = "authorize"
    BY <1>4 DEF Orders!Receive
  <2> QED
    BY <1>1, <1>2, <2>1, NothingClaimed DEF Claimed
<1>5. CASE Orders!Close \/ Orders!Answer
  <2>1. UNCHANGED <<disk, ran, nonces, forgotten, now, requests>> /\ command'.pc = "none"
    BY <1>5 DEF Orders!Close, Orders!Answer, Orders!NoTask
  <2> QED
    BY <1>1, <1>2, <2>1, NothingClaimed DEF Claimed, Unclaimed
<1>6. CASE Orders!Authorize
  <2>1. /\ UNCHANGED <<disk, ran, nonces, forgotten, now, requests>> /\ command'.env = command.env
        /\ command.pc = "authorize" /\ command'.pc \in {"verify", "answer"}
    BY <1>1, <1>6 DEF Orders!Authorize, Orders!GoTo, Orders!At, OrderTypes
  <2> QED
    BY <1>1, <1>2, <2>1, NothingClaimed DEF Claimed, Unclaimed
<1>7. CASE Orders!Check
  <2>1. /\ UNCHANGED <<disk, ran, nonces, forgotten, now, requests>> /\ command'.env = command.env
        /\ command.pc = "verify" /\ command'.pc \in {"key", "answer"}
        /\ command'.pc = "key" => command'.at = now
    BY <1>1, <1>7 DEF Orders!Check, Orders!At, OrderTypes
  <2> QED
    BY <1>1, <1>2, <2>1, NothingClaimed DEF Claimed, Unclaimed
<1>8. CASE Orders!CommandKey
  <2>1. /\ UNCHANGED <<disk, ran, nonces, forgotten, now, requests>>
        /\ UNCHANGED command \/ command'.pc = "answer"
    BY <1>1, <1>8 DEF Orders!CommandKey, Orders!GoTo, OrderTypes
  <2> QED
    BY <1>1, <1>2, <2>1, NothingClaimed DEF Claimed, Unclaimed
<1>9. CASE Orders!TakeLock \/ Orders!LockTimeout \/ Orders!DiskTimeout \/ Orders!Acted
  <2>1. /\ UNCHANGED <<disk, ran, nonces, forgotten, now, requests>> /\ command'.env = command.env
        /\ \/ command.pc = "lcu" /\ command'.pc = "client"
           \/ command'.pc = "answer"
    BY <1>1, <1>9 DEF Orders!TakeLock, Orders!LockTimeout, Orders!DiskTimeout, Orders!Acted,
                      Orders!At, Orders!GoTo, OrderTypes
  <2> QED
    BY <1>1, <1>2, <2>1, NothingClaimed DEF Claimed, Unclaimed
<1>10. CASE Orders!Plain \/ Orders!Act
  <2>1. /\ UNCHANGED <<disk, nonces, forgotten, now, requests>> /\ command'.env = command.env
        /\ command.pc \in {"plain", "act"} /\ command'.pc \in {"answer", "acting"}
        /\ ran' = [ran EXCEPT ![command.env.nonce] = @ + 1]
    BY <1>1, <1>10 DEF Orders!Plain, Orders!Act, Orders!At, Orders!GoTo, Orders!Carried, OrderTypes
  <2>2. \A n \in Orders!Nonces : /\ AtGate(n)' = AtGate(n) /\ Ahead(n)' = 0 /\ Ahead(n) = 0 /\ Underway(n)' = 0
                                 /\ n = command.env.nonce => Underway(n) = 1 /\ ran'[n] = ran[n] + 1
                                 /\ n # command.env.nonce => Underway(n) = 0 /\ ran'[n] = ran[n]
    BY <1>1, <2>1 DEF AtGate, Underway, Ahead, Count, Claimed, Unclaimed, OrderTypes
  <2>3. \A n \in Orders!Nonces :
           /\ ran'[n] + AtGate(n)' + Underway(n)' <= ran[n] + AtGate(n) + Underway(n)
           /\ Ahead(n)' <= Ahead(n)
    BY <1>2, <2>2, Counts
  <2> QED
    BY <1>1, <2>1, <2>3, CarriedOn
<1>11. CASE Orders!Launch /\ disk = "free"
  <2>1. /\ UNCHANGED <<ran, nonces, forgotten, now, requests>> /\ command'.env = command.env
        /\ command.pc = "launch" /\ command'.pc = "launching" /\ disk' = command.env.nonce
    BY <1>1, <1>11 DEF Orders!Launch, Orders!At, Orders!GoTo, OrderTypes
  <2>2. \A n \in Orders!Nonces : /\ AtGate(n) = 0 /\ Ahead(n)' = 0 /\ Ahead(n) = 0 /\ Underway(n)' = 0
                                 /\ n = command.env.nonce => Underway(n) = 1 /\ AtGate(n)' = 1
                                 /\ n # command.env.nonce => Underway(n) = 0 /\ AtGate(n)' = 0
    BY <1>2, <1>11, <2>1 DEF AtGate, Underway, Ahead, Count, Claimed, Unclaimed
  <2>3. \A n \in Orders!Nonces :
           /\ ran'[n] + AtGate(n)' + Underway(n)' <= ran[n] + AtGate(n) + Underway(n)
           /\ Ahead(n)' <= Ahead(n)
    BY <1>2, <2>1, <2>2, Counts
  <2> QED
    BY <1>1, <2>1, <2>3, CarriedOn
<1>12. CASE Orders!OpenClient /\ disk = "free"
  <2>1. /\ UNCHANGED <<ran, nonces, forgotten, now, requests>> /\ command'.env = command.env
        /\ command.pc = "client" /\ command'.pc = "opening" /\ disk' = "lockfile"
    BY <1>1, <1>12 DEF Orders!OpenClient, Orders!At, Orders!GoTo, OrderTypes
  <2>2. \A n \in Orders!Nonces : /\ AtGate(n) = 0 /\ AtGate(n)' = 0 /\ Ahead(n)' = Ahead(n)
                                 /\ Underway(n)' = Underway(n)
    BY <1>2, <1>12, <2>1 DEF AtGate, Underway, Ahead, Count, Claimed, Unclaimed
  <2>3. \A n \in Orders!Nonces :
           /\ ran'[n] + AtGate(n)' + Underway(n)' <= ran[n] + AtGate(n) + Underway(n)
           /\ Ahead(n)' <= Ahead(n)
    BY <1>2, <2>1, <2>2, Counts
  <2> QED
    BY <1>1, <2>1, <2>3, CarriedOn
<1>13. CASE (Orders!Launch \/ Orders!OpenClient) /\ disk # "free"
  <2>1. UNCHANGED <<disk, ran, nonces, forgotten, now, requests>> /\ command'.pc = "answer"
    BY <1>1, <1>13 DEF Orders!Launch, Orders!OpenClient, Orders!GoTo, OrderTypes
  <2> QED
    BY <1>1, <1>2, <2>1, NothingClaimed DEF Claimed, Unclaimed
<1>14. CASE Orders!DiskDone
  <2>1. UNCHANGED <<nonces, forgotten, now, requests>> /\ disk # "free" /\ disk' = "free"
    BY <1>14 DEF Orders!DiskDone
  <2>2. \/ UNCHANGED command
        \/ command.pc = "launching" /\ command'.pc = "answer" /\ command'.env = command.env
        \/ command.pc = "opening" /\ command'.pc = "act" /\ command'.env = command.env
        \/ command.pc = "opening" /\ command'.pc = "answer" /\ command'.env = command.env
    BY <1>1, <1>14 DEF Orders!DiskDone, Orders!At, Orders!GoTo, OrderTypes
  <2>3. \A n \in Orders!Nonces :
           /\ ran'[n] = (IF disk = n THEN ran[n] + 1 ELSE ran[n])
           /\ AtGate(n) = (IF disk = n THEN 1 ELSE 0) /\ AtGate(n)' = 0
    BY <1>1, <1>2, <1>14, <2>1 DEF Orders!DiskDone, Orders!Carried, AtGate, Count, OrderTypes
  <2>4. \A n \in Orders!Nonces : Ahead(n)' <= Ahead(n) /\ Underway(n)' <= Underway(n)
    BY <2>2 DEF Underway, Ahead, Count, Claimed, Unclaimed
  <2>5. \A n \in Orders!Nonces : ran'[n] + AtGate(n)' + Underway(n)' <= ran[n] + AtGate(n) + Underway(n)
    BY <1>2, <2>3, <2>4, Counts
  <2>6. CASE command'.pc # "key"
    BY <1>1, <2>1, <2>4, <2>5, <2>6, CarriedOn
  <2>7. CASE command'.pc = "key"
    <3>1. UNCHANGED command
      BY <2>2, <2>7
    <3> QED
      BY <1>1, <2>1, <2>4, <2>5, <3>1, CarriedOn
  <2> QED
    BY <2>6, <2>7
<1> QED
  BY <1>3, <1>4, <1>5, <1>6, <1>7, <1>8, <1>9, <1>10, <1>11, <1>12, <1>13, <1>14, <1>1, ClaimKept
     DEF Orders!Next

LEMMA CommandsStep == ASSUME CommandsInv, Orders!Next PROVE CommandsInv'
PROOF
  BY OrdersTyped, CacheKept, AdmittedKept, AccountedKept, AnsweredKept, LockIsKept DEF CommandsInv

LEMMA CommandsSafety ==
    CommandsInv => Orders!TypeOK /\ Orders!RunsOnce /\ Orders!AnsweredOnce /\ Orders!LockKept
PROOF
<1> SUFFICES ASSUME CommandsInv
             PROVE  Orders!TypeOK /\ Orders!RunsOnce /\ Orders!AnsweredOnce /\ Orders!LockKept
  OBVIOUS
<1> USE CommandBoundsAreNats, EnvelopesAreSigned
<1>1. OrderTypes /\ CacheOK /\ Accounted /\ Answered /\ Orders!LockKept
  BY DEF CommandsInv
<1>2. \A n \in Orders!Nonces : ran[n] \in Nat /\ ran[n] <= requests /\ (n \notin forgotten => ran[n] <= 1)
  <2> SUFFICES ASSUME NEW n \in Orders!Nonces
               PROVE  ran[n] \in Nat /\ ran[n] <= requests /\ (n \notin forgotten => ran[n] <= 1)
    OBVIOUS
  <2>1. ran[n] \in Nat /\ requests \in Nat
    BY <1>1 DEF OrderTypes
  <2>2. ran[n] + AtGate(n) + Underway(n) + Ahead(n) <= requests
    BY <1>1 DEF Accounted
  <2>3. n \notin forgotten => ran[n] + AtGate(n) + Underway(n) <= 1
    BY <1>1 DEF Accounted
  <2> QED
    BY <2>1, <2>2, <2>3, Counts
<1>3. Orders!TypeOK
  <2>1. ran \in [Orders!Nonces -> 0..MaxRequests]
    BY <1>1, <1>2 DEF OrderTypes
  <2>2. asked \subseteq Orders!Requests
    BY <1>1 DEF OrderTypes, Answered, Orders!Requests
  <2>3. answers \in [Orders!Requests -> 0..2]
    BY <1>1 DEF OrderTypes
  <2>4. nonces \subseteq [nonce : Orders!Nonces, expires : 0..MaxTime]
    BY <1>1 DEF CacheOK, Signed, Orders!Nonces
  <2>5. Orders!Cardinality(nonces) <= MaxNonces
    BY <1>1, SameCardinality DEF CacheOK
  <2> QED
    BY <1>1, <2>1, <2>2, <2>3, <2>4, <2>5 DEF OrderTypes, Orders!TypeOK
<1>4. Orders!RunsOnce
  BY <1>2 DEF Orders!RunsOnce
<1>5. Orders!AnsweredOnce
  BY <1>1 DEF OrderTypes, Answered, Orders!AnsweredOnce
<1> QED
  BY <1>1, <1>3, <1>4, <1>5

\* A signed command is carried out at most once, however often it is forwarded,
\* every request of a connection that stands is answered once, and the lock is
\* held by the task that uses the client or by nobody.
THEOREM CommandsRunOnce == Spec => []CommandsSafe
PROOF
<1> DEFINE Inv == part = "commands" => CommandsInv
<1>1. Init => Inv
  BY CommandsInit DEF Init
<1>2. Inv /\ [Next]_vars => Inv'
  <2> SUFFICES ASSUME Inv, [Next]_vars, part' = "commands"
               PROVE  CommandsInv'
    OBVIOUS
  <2>1. CASE CommandsNext
    BY <2>1, CommandsStep DEF CommandsNext
  <2>2. CASE SessionNext \/ JournalNext \/ HeartbeatNext \/ ClientNext
    BY <2>2 DEF SessionNext, JournalNext, HeartbeatNext, ClientNext
  <2>3. CASE UNCHANGED vars
    <3>1. part = "commands" /\ UNCHANGED commandVars
      BY <2>3 DEF vars
    <3>2. CommandsInv
      BY <3>1
    <3> QED
      BY <3>1, <3>2 DEF commandVars, CommandsInv, OrderTypes, CacheOK, Admitted, Accounted, Answered,
                        AtGate, Underway, Ahead, Past, Orders!LockKept
  <2> QED
    BY <2>1, <2>2, <2>3 DEF Next
<1>3. Inv => CommandsSafe
  BY CommandsSafety DEF CommandsSafe
<1> QED
  BY <1>1, <1>2, <1>3, PTL DEF Spec, vars

-------------------------------------------------------------------------------
(* The session and its tokens                                                 *)

Handlers == Credentials!Handlers
Busy(h) == task[h].pc # "idle"

\* Types of the session part, but for those of its flags.
SessionTypes ==
    /\ file \in Credentials!Saved \cup {None} /\ mem \in Credentials!Saved \cup {None}
    /\ bound \in [account : Accounts, trusted : BOOLEAN] \cup {None}
    /\ logout \in {"no", "revoke", "stop", "remove", "suppress"}
    /\ ws \in Credentials!Sockets \cup {None}
    /\ mail \subseteq Credentials!Notices
    /\ session \in [1..MaxSids -> Accounts \cup {None}]
    /\ auto \subseteq 1..MaxSids
    /\ mapping \in [1..MaxSids -> Credentials!Tokens]
    /\ records \subseteq [token : 1..MaxTokens, sid : 1..MaxSids, account : Accounts]
    /\ trusted \subseteq Accounts
    /\ task \in [Handlers -> Credentials!Tasks]
    /\ sids \in 0..MaxSids /\ tokens \in 0..MaxTokens
    /\ faults \in 0..MaxFaults /\ clash \subseteq {"handlers", "issue", "moved"}
SessionFlags == suppressed \in BOOLEAN /\ open \in BOOLEAN

\* What a handler knows at each of its steps.
TasksKnow == \A h \in Handlers :
    /\ Busy(h) => task[h].sid \in 1..MaxSids /\ task[h].account \in Accounts
    /\ task[h].pc \in {"record", "map"} => task[h].token # None
    /\ task[h].pc \notin {"record", "map", "bind"} => task[h].token = None

\* The two ends of an open connection mean the same session; nothing is bound or
\* under way without one. A token comes with the account it is for.
Connected ==
    /\ open => mem # None /\ ws # None /\ ws.sid = mem.sid
    /\ ~open => mail = {} /\ bound = None
    /\ bound # None \/ mail # {} => ws.bound # None
    /\ mail # {} => bound = None
    /\ \A m1, m2 \in mail : m1 = m2
    /\ mem # None /\ mem.token # None => mem.pin # None
    /\ file # None /\ file.token # None => file.pin # None
    /\ logout \in {"remove", "suppress"} => mem = None

\* Who has a token: the records, the handler that issues it, the notice that brings
\* it and the agent say for which session and account.
Owns(t, s, a) ==
    \/ \E r \in records : r.token = t /\ r.sid = s /\ r.account = a
    \/ \E h \in Handlers : task[h].token = t /\ task[h].sid = s /\ task[h].account = a
    \/ \E m \in mail : m.token = t /\ ws.sid = s /\ m.account = a
    \/ mem # None /\ mem.token = t /\ mem.sid = s /\ mem.pin = a
    \/ file # None /\ file.token = t /\ file.sid = s /\ file.pin = a

\* They all say the same.
OneOwner == \A t \in 1..MaxTokens : \A s1, a1, s2, a2 :
    Owns(t, s1, a1) => t <= tokens /\ (Owns(t, s2, a2) => s1 = s2 /\ a1 = a2)

SessionBase == SessionTypes /\ SessionFlags /\ TasksKnow /\ Connected /\ OneOwner

LEMMA SocketsAreNot == None \notin 1..MaxTokens /\ None \notin 1..MaxSids /\ None \notin Accounts
PROOF
  BY NoneIsNothing, MainIsAccount, SessionBoundsAreNats

LEMMA SessionInit == Credentials!Init => SessionBase
PROOF
<1> SUFFICES ASSUME Credentials!Init
             PROVE  SessionBase
  OBVIOUS
<1> USE SessionBoundsAreNats, SocketsAreNot, MainIsAccount
<1>1. /\ file = None /\ mem = None /\ bound = None /\ logout = "no" /\ ws = None /\ mail = {}
      /\ session = [s \in 1..MaxSids |-> None] /\ auto = {} /\ mapping = session /\ records = {}
      /\ trusted = {} /\ sids = 0 /\ tokens = 0 /\ faults = 0 /\ clash = {}
  BY DEF Credentials!Init
<1>2. task = [h \in Handlers |-> [pc |-> "idle", sid |-> 0, account |-> None, trusted |-> TRUE, token |-> None]]
  BY DEF Credentials!Init, Credentials!Done, Handlers
<1>3. suppressed = FALSE /\ open = FALSE
  BY DEF Credentials!Init
<1>4. \A h \in Handlers : task[h].pc = "idle" /\ task[h].token = None
  BY <1>2
<1>5. task \in [Handlers -> Credentials!Tasks]
  BY <1>2 DEF Credentials!Tasks, Credentials!Tokens
<1>6. SessionTypes
  BY <1>1, <1>5 DEF SessionTypes, Credentials!Tokens
<1>7. SessionFlags
  BY <1>3 DEF SessionFlags
<1>8. TasksKnow
  BY <1>4 DEF TasksKnow, Busy
<1>9. Connected
  BY <1>1, <1>3 DEF Connected
<1>10. OneOwner
  BY <1>1, <1>4 DEF OneOwner, Owns
<1> QED
  BY <1>6, <1>7, <1>8, <1>9, <1>10 DEF SessionBase

LEMMA FaultTyped == ASSUME SessionTypes, Credentials!Fault \/ UNCHANGED faults PROVE faults' \in 0..MaxFaults
PROOF
  BY SessionBoundsAreNats DEF SessionTypes, Credentials!Fault

\* The steps of the agent.
LEMMA AgentTyped ==
    ASSUME SessionBase,
           \/ \E u \in BOOLEAN : Credentials!Start(u)
           \/ Credentials!Connect \/ Credentials!Disconnect \/ Credentials!RejectBound
           \/ Credentials!AcceptBound \/ Credentials!LogoutBegins \/ Credentials!LogoutStops
           \/ Credentials!LogoutRemoves \/ Credentials!LogoutSuppresses \/ Credentials!AppDies
    PROVE  SessionTypes'
PROOF
<1> USE SessionBoundsAreNats
<1>1. SessionTypes /\ Connected
  BY DEF SessionBase
<1>2. CASE \E u \in BOOLEAN : Credentials!Start(u)
  <2>1. PICK found \in {file, None} :
           /\ Credentials!Loads(found)
           /\ IF found # None THEN mem' = found /\ UNCHANGED sids
              ELSE sids < MaxSids /\ sids' = sids + 1 /\ mem' = Credentials!Fresh(sids')
    BY <1>2 DEF Credentials!Start
  <2>2. faults' \in 0..MaxFaults
    BY <1>1, <2>1, FaultTyped DEF Credentials!Loads
  <2>3. mem' \in Credentials!Saved /\ sids' \in 0..MaxSids
    BY <1>1, <2>1 DEF SessionTypes, Credentials!Fresh, Credentials!Saved, Credentials!Tokens
  <2>4. UNCHANGED <<file, bound, logout, ws, mail, session, auto, mapping, records, trusted, task, tokens, clash>>
    BY <1>2 DEF Credentials!Start, Credentials!redisVars
  <2> QED
    BY <1>1, <2>2, <2>3, <2>4 DEF SessionTypes
<1>3. CASE Credentials!Connect
  <2>1. /\ mem \in Credentials!Saved /\ mail' = {} /\ file' \in {mem, file}
        /\ ws' = [sid |-> mem.sid, presented |-> mem.token, proved |-> FALSE, bound |-> None]
        /\ clash' \subseteq clash \cup {"moved"}
        /\ UNCHANGED <<mem, bound, logout, session, auto, mapping, records, trusted, task, sids, tokens>>
    BY <1>1, <1>3 DEF Credentials!Connect, Credentials!Running, Credentials!Save, SessionTypes,
                      Credentials!redisVars, Credentials!Clashes
  <2>2. ws' \in Credentials!Sockets
    BY <2>1 DEF Credentials!Saved, Credentials!Sockets
  <2>3. faults' \in 0..MaxFaults
    BY <1>1, <1>3, FaultTyped DEF Credentials!Connect, Credentials!Save
  <2> QED
    BY <1>1, <2>1, <2>2, <2>3 DEF SessionTypes
<1>4. CASE Credentials!AcceptBound
  <2>1. mem \in Credentials!Saved
    BY <1>1, <1>4 DEF Credentials!AcceptBound, Connected, SessionTypes
  <2>2. PICK m \in mail :
           /\ mem' = [mem EXCEPT !.pin = m.account, !.token = IF m.token = None THEN @ ELSE m.token]
           /\ bound' = [account |-> m.account, trusted |-> m.trusted]
           /\ file' \in {mem', [mem EXCEPT !.pin = m.account], file}
           /\ Credentials!Fault \/ UNCHANGED faults
    BY <1>4 DEF Credentials!AcceptBound
  <2>3. m \in Credentials!Notices
    BY <1>1 DEF SessionTypes
  <2>4. mem' \in Credentials!Saved /\ [mem EXCEPT !.pin = m.account] \in Credentials!Saved
    BY <2>1, <2>2, <2>3 DEF Credentials!Saved, Credentials!Notices
  <2>5. bound' \in [account : Accounts, trusted : BOOLEAN]
    BY <2>2, <2>3 DEF Credentials!Notices
  <2>6. faults' \in 0..MaxFaults
    BY <1>1, <2>2, FaultTyped
  <2>7. mail' = {} /\ UNCHANGED <<logout, ws, session, auto, mapping, records, trusted, task, sids, tokens, clash>>
    BY <1>4 DEF Credentials!AcceptBound, Credentials!redisVars
  <2> QED
    BY <1>1, <2>2, <2>4, <2>5, <2>6, <2>7 DEF SessionTypes
<1>5. CASE Credentials!RejectBound \/ Credentials!Disconnect \/ Credentials!AppDies
  <2>1. faults' \in 0..MaxFaults
    BY <1>1, <1>5, FaultTyped DEF Credentials!RejectBound, Credentials!Disconnect, Credentials!AppDies
  <2> QED
    BY <1>1, <1>5, <2>1
       DEF SessionTypes, Credentials!RejectBound, Credentials!Disconnect, Credentials!AppDies, Credentials!Shut,
           Credentials!redisVars
<1>6. CASE \/ Credentials!LogoutBegins \/ Credentials!LogoutStops \/ Credentials!LogoutRemoves
           \/ Credentials!LogoutSuppresses
  BY <1>1, <1>6
     DEF SessionTypes, Credentials!LogoutBegins, Credentials!LogoutStops, Credentials!LogoutRemoves,
         Credentials!LogoutSuppresses, Credentials!Shut, Credentials!redisVars
<1> QED
  BY <1>2, <1>3, <1>4, <1>5, <1>6

\* A handler goes on to its next step.
LEMMA ServeTyped ==
    ASSUME SessionTypes, NEW h \in Handlers, NEW t \in Credentials!Tasks, Credentials!Serve(h, t)
    PROVE  /\ task' \in [Handlers -> Credentials!Tasks]
           /\ task'[h] = t /\ \A g \in Handlers \ {h} : task'[g] = task[g]
PROOF
  BY DEF SessionTypes, Credentials!Serve

\* What a handler begins with.
LEMMA BusyTyped ==
    ASSUME NEW s \in 1..MaxSids, NEW a \in Accounts, NEW pc \in {"trust", "ensure"}
    PROVE  /\ Credentials!Busy(s, a, pc) \in Credentials!Tasks
           /\ Credentials!Busy(s, a, pc) = [pc |-> pc, sid |-> s, account |-> a, trusted |-> TRUE, token |-> None]
PROOF
<1>1. Credentials!Busy(s, a, pc) = [pc |-> pc, sid |-> s, account |-> a, trusted |-> TRUE, token |-> None]
  BY DEF Credentials!Busy
<1> QED
  BY <1>1, SessionBoundsAreNats DEF Credentials!Tasks, Credentials!Tokens

\* The steps of a handler, each with where it leads.
LEMMA HandlerBegins ==
    ASSUME SessionBase, Credentials!Proof \/ Credentials!AutoLogin \/ \E a \in Accounts : Credentials!Callback(a)
    PROVE  /\ SessionTypes'
           /\ open /\ ws # None /\ ws.sid \in 1..MaxSids
           /\ UNCHANGED <<file, mem, bound, suppressed, logout, open, mail, mapping, records, sids, tokens, faults>>
           /\ ws' \in Credentials!Sockets /\ ws'.sid = ws.sid /\ ws'.presented = ws.presented /\ ws'.bound = ws.bound
           /\ clash' = clash \cup {w \in {"handlers"} : ~ Credentials!Idle}
           /\ \/ UNCHANGED task
              \/ \E h \in Handlers, a \in Accounts, pc \in {"trust", "ensure"} :
                    /\ task[h].pc = "idle"
                    /\ task' = [task EXCEPT ![h] = [pc |-> pc, sid |-> ws.sid, account |-> a, trusted |-> TRUE,
                                                   token |-> None]]
PROOF
<1> USE SessionBoundsAreNats, MainIsAccount
<1>1. SessionTypes
  BY DEF SessionBase
<1>2. /\ open /\ ws # None
      /\ UNCHANGED <<file, mem, bound, suppressed, logout, open, mail, mapping, records, sids, tokens, faults>>
      /\ clash' = clash \cup {w \in {"handlers"} : ~ Credentials!Idle}
  BY DEF Credentials!Proof, Credentials!AutoLogin, Credentials!Callback, Credentials!agentVars, Credentials!Clashes
<1>3. ws \in Credentials!Sockets /\ ws.sid \in 1..MaxSids
  BY <1>1, <1>2 DEF SessionTypes, Credentials!Sockets
<1>4. ws' \in Credentials!Sockets /\ ws'.sid = ws.sid /\ ws'.presented = ws.presented /\ ws'.bound = ws.bound
  <2>1. ws' = ws \/ ws' = [ws EXCEPT !.proved = TRUE]
    BY DEF Credentials!Proof, Credentials!AutoLogin, Credentials!Callback
  <2> QED
    BY <1>3, <2>1 DEF Credentials!Sockets
<1>5. \/ UNCHANGED task
      \/ \E h \in Handlers, a \in Accounts, pc \in {"trust", "ensure"} :
            task[h].pc = "idle" /\ Credentials!Serve(h, Credentials!Busy(ws.sid, a, pc))
  <2>1. CASE Credentials!Proof
    <3>1. session[ws.sid] # None => session[ws.sid] \in Accounts
      BY <1>1, <1>3 DEF SessionTypes
    <3>2. \A r \in Credentials!Restorable(ws.sid) : r.account \in Accounts /\ r.sid = ws.sid
      BY <1>1 DEF SessionTypes, Credentials!Restorable
    <3> QED
      BY <2>1, <3>1, <3>2 DEF Credentials!Proof, Credentials!At, Handlers, Credentials!Handlers
  <2>2. CASE Credentials!AutoLogin
    BY <2>2 DEF Credentials!AutoLogin, Credentials!At, Handlers, Credentials!Handlers
  <2>3. CASE \E a \in Accounts : Credentials!Callback(a)
    BY <2>3 DEF Credentials!Callback, Credentials!At, Handlers, Credentials!Handlers
  <2> QED
    BY <2>1, <2>2, <2>3
<1>6. \/ UNCHANGED task
      \/ \E h \in Handlers, a \in Accounts, pc \in {"trust", "ensure"} :
            /\ task[h].pc = "idle"
            /\ task' = [task EXCEPT ![h] = [pc |-> pc, sid |-> ws.sid, account |-> a, trusted |-> TRUE, token |-> None]]
  BY <1>3, <1>5, BusyTyped DEF Credentials!Serve
<1>7. task' \in [Handlers -> Credentials!Tasks]
  <2>1. task \in [Handlers -> Credentials!Tasks]
    BY <1>1 DEF SessionTypes
  <2>2. \A a \in Accounts, pc \in {"trust", "ensure"} :
           [pc |-> pc, sid |-> ws.sid, account |-> a, trusted |-> TRUE, token |-> None] \in Credentials!Tasks
    BY <1>3, BusyTyped
  <2> QED
    BY <1>6, <2>1, <2>2
<1>8. /\ session' \in [1..MaxSids -> Accounts \cup {None}] /\ auto' \subseteq 1..MaxSids
      /\ trusted' \subseteq Accounts
  <2>1. CASE Credentials!Proof
    <3>1. \A r \in Credentials!Restorable(ws.sid) : r.account \in Accounts /\ r.sid = ws.sid
      BY <1>1 DEF SessionTypes, Credentials!Restorable
    <3> QED
      BY <1>1, <1>3, <2>1, <3>1 DEF SessionTypes, Credentials!Proof
  <2>2. CASE Credentials!AutoLogin
    BY <1>1, <1>3, <2>2 DEF SessionTypes, Credentials!AutoLogin
  <2>3. CASE \E a \in Accounts : Credentials!Callback(a)
    BY <1>1, <1>3, <2>3 DEF SessionTypes, Credentials!Callback
  <2> QED
    BY <2>1, <2>2, <2>3
<1>9. clash' \subseteq {"handlers", "issue", "moved"}
  BY <1>1, <1>2 DEF SessionTypes
<1>10. SessionTypes'
  BY <1>1, <1>2, <1>4, <1>7, <1>8, <1>9 DEF SessionTypes
<1> QED
  BY <1>2, <1>3, <1>4, <1>6, <1>10

\* A handler at work has a session and an account.
LEMMA HandlerTyped ==
    ASSUME SessionBase, NEW h \in Handlers, Busy(h)
    PROVE  /\ task[h] \in Credentials!Tasks /\ task[h].sid \in 1..MaxSids /\ task[h].account \in Accounts
           /\ task[h].token \in Credentials!Tokens
           /\ task[h].pc \in {"record", "map"} => task[h].token \in 1..MaxTokens
           /\ Credentials!Done \in Credentials!Tasks
PROOF
  BY SessionBoundsAreNats
     DEF SessionBase, SessionTypes, TasksKnow, Credentials!Tasks, Credentials!Tokens, Credentials!Done

LEMMA HandlerSteps ==
    ASSUME SessionBase, NEW h \in Handlers,
           \/ Credentials!Trust(h) \/ Credentials!Ensure(h) \/ Credentials!Replace(h)
           \/ Credentials!Record(h) \/ Credentials!Map(h) \/ Credentials!Bind(h)
    PROVE  /\ SessionTypes' /\ Busy(h)
           /\ UNCHANGED <<file, mem, bound, suppressed, logout, open, sids, faults>>
PROOF
<1> USE SessionBoundsAreNats
<1>1. SessionTypes
  BY DEF SessionBase
<1>2. Busy(h) /\ UNCHANGED <<file, mem, bound, suppressed, logout, open, sids, faults>>
  BY DEF Credentials!Trust, Credentials!Ensure, Credentials!Replace, Credentials!Record, Credentials!Map,
         Credentials!Bind, Credentials!At, Credentials!agentVars, Busy
<1>3. /\ task[h] \in Credentials!Tasks /\ task[h].sid \in 1..MaxSids /\ task[h].account \in Accounts
      /\ task[h].token \in Credentials!Tokens
      /\ task[h].pc \in {"record", "map"} => task[h].token \in 1..MaxTokens
      /\ Credentials!Done \in Credentials!Tasks
  BY <1>2, HandlerTyped
<1>4. CASE Credentials!Trust(h)
  <2>1. task' \in [Handlers -> Credentials!Tasks]
    <3>1. \E t \in Credentials!Tasks : Credentials!Serve(h, t)
      BY <1>3, <1>4 DEF Credentials!Trust, Credentials!Go, Credentials!Tasks
    <3> QED
      BY <1>1, <3>1, ServeTyped
  <2> QED
    BY <1>1, <1>2, <1>3, <1>4, <2>1 DEF SessionTypes, Credentials!Trust
<1>5. CASE Credentials!Ensure(h)
  <2>1. task' \in [Handlers -> Credentials!Tasks]
    <3>1. \E t \in Credentials!Tasks : Credentials!Serve(h, t)
      BY <1>3, <1>5 DEF Credentials!Ensure, Credentials!Go, Credentials!Tasks
    <3> QED
      BY <1>1, <3>1, ServeTyped
  <2>2. clash' \subseteq {"handlers", "issue", "moved"}
    BY <1>1, <1>5 DEF SessionTypes, Credentials!Ensure, Credentials!Clashes
  <2> QED
    BY <1>1, <1>2, <1>5, <2>1, <2>2 DEF SessionTypes, Credentials!Ensure, Credentials!redisVars
<1>6. CASE Credentials!Replace(h)
  <2>1. tokens' \in 1..MaxTokens
    BY <1>1, <1>6 DEF SessionTypes, Credentials!Replace
  <2>2. task' \in [Handlers -> Credentials!Tasks]
    <3>1. \E t \in Credentials!Tasks : Credentials!Serve(h, t)
      BY <1>3, <1>6, <2>1 DEF Credentials!Replace, Credentials!Tasks, Credentials!Tokens
    <3> QED
      BY <1>1, <3>1, ServeTyped
  <2>3. records' \subseteq records
    BY <1>6 DEF Credentials!Replace, Credentials!WithoutOld
  <2> QED
    BY <1>1, <1>2, <1>6, <2>1, <2>2, <2>3 DEF SessionTypes, Credentials!Replace
<1>7. CASE Credentials!Record(h)
  <2>1. task' \in [Handlers -> Credentials!Tasks]
    <3>1. \E t \in Credentials!Tasks : Credentials!Serve(h, t)
      BY <1>3, <1>7 DEF Credentials!Record, Credentials!Go, Credentials!Tasks
    <3> QED
      BY <1>1, <3>1, ServeTyped
  <2>2. records' \subseteq [token : 1..MaxTokens, sid : 1..MaxSids, account : Accounts]
    BY <1>1, <1>3, <1>7 DEF SessionTypes, Credentials!Record, Credentials!At
  <2> QED
    BY <1>1, <1>2, <1>7, <2>1, <2>2 DEF SessionTypes, Credentials!Record
<1>8. CASE Credentials!Map(h)
  <2>1. task' \in [Handlers -> Credentials!Tasks]
    <3>1. \E t \in Credentials!Tasks : Credentials!Serve(h, t)
      BY <1>3, <1>8 DEF Credentials!Map, Credentials!Go, Credentials!Tasks
    <3> QED
      BY <1>1, <3>1, ServeTyped
  <2>2. ws' \in Credentials!Sockets \cup {None}
    BY <1>1, <1>3, <1>8 DEF SessionTypes, Credentials!Map, Credentials!Sockets
  <2>3. mapping' \in [1..MaxSids -> Credentials!Tokens]
    BY <1>1, <1>3, <1>8 DEF SessionTypes, Credentials!Map
  <2> QED
    BY <1>1, <1>2, <1>8, <2>1, <2>2, <2>3 DEF SessionTypes, Credentials!Map
<1>9. CASE Credentials!Bind(h)
  <2>1. task' \in [Handlers -> Credentials!Tasks]
    BY <1>1, <1>3, <1>9, ServeTyped DEF Credentials!Bind
  <2>2. ws' \in Credentials!Sockets \cup {None}
    BY <1>1, <1>3, <1>9 DEF SessionTypes, Credentials!Bind, Credentials!Sockets, Credentials!Unbound
  <2>3. mail' \subseteq Credentials!Notices
    BY <1>1, <1>3, <1>9 DEF SessionTypes, Credentials!Bind, Credentials!Notices, Credentials!Tasks
  <2> QED
    BY <1>1, <1>2, <1>9, <2>1, <2>2, <2>3 DEF SessionTypes, Credentials!Bind, Credentials!redisVars
<1> QED
  BY <1>2, <1>4, <1>5, <1>6, <1>7, <1>8, <1>9

\* The other steps of the Relay.
LEMMA RelayTyped ==
    ASSUME SessionBase,
           \/ Credentials!Unregister \/ Credentials!Revoke \/ Credentials!RelayRestarts
           \/ \E s \in 1..MaxSids : Credentials!Expire(s)
    PROVE  SessionTypes'
PROOF
<1> USE SessionBoundsAreNats
<1>1. SessionTypes
  BY DEF SessionBase
<1>2. faults' \in 0..MaxFaults
  BY <1>1, FaultTyped
     DEF Credentials!Unregister, Credentials!Revoke, Credentials!RelayRestarts, Credentials!Expire
<1>3. CASE Credentials!Unregister
  BY <1>1, <1>2, <1>3 DEF SessionTypes, Credentials!Unregister, Credentials!agentVars, Credentials!redisVars
<1>4. CASE Credentials!Revoke
  <2>1. CASE Credentials!Revocable
    <3>1. file.sid \in 1..MaxSids
      BY <1>1, <2>1 DEF SessionTypes, Credentials!Revocable, Credentials!Saved
    <3>2. /\ mapping' \in [1..MaxSids -> Credentials!Tokens] /\ session' \in [1..MaxSids -> Accounts \cup {None}]
          /\ records' \subseteq records /\ auto' \subseteq auto
      BY <1>1, <1>4, <3>1 DEF SessionTypes, Credentials!Revoke, Credentials!Tokens
    <3>3. clash' \subseteq {"handlers", "issue", "moved"}
      BY <1>1, <1>4 DEF SessionTypes, Credentials!Revoke, Credentials!Clashes
    <3> QED
      BY <1>1, <1>2, <1>4, <3>2, <3>3 DEF SessionTypes, Credentials!Revoke
  <2>2. CASE ~Credentials!Revocable
    BY <1>1, <1>2, <1>4, <2>2 DEF SessionTypes, Credentials!Revoke
  <2> QED
    BY <2>1, <2>2
<1>5. CASE Credentials!RelayRestarts
  <2>1. task' \in [Handlers -> Credentials!Tasks]
    BY <1>5 DEF Credentials!RelayRestarts, Credentials!Done, Credentials!Tasks, Credentials!Tokens, Handlers
  <2>2. clash' \subseteq {"handlers", "issue", "moved"}
    BY <1>1, <1>5 DEF SessionTypes, Credentials!RelayRestarts, Credentials!Clashes
  <2> QED
    BY <1>1, <1>2, <1>5, <2>1, <2>2 DEF SessionTypes, Credentials!RelayRestarts, Credentials!Shut, Credentials!redisVars
<1>6. CASE \E s \in 1..MaxSids : Credentials!Expire(s)
  BY <1>1, <1>2, <1>6 DEF SessionTypes, Credentials!Expire, Credentials!agentVars
<1> QED
  BY <1>3, <1>4, <1>5, <1>6

\* Where each step of a handler leads.
Trusts(h) ==
    /\ task[h].pc = "trust" /\ task'[h].token = task[h].token
    /\ \/ task'[h].pc = "ensure" /\ task'[h].trusted = task[h].trusted
       \/ task'[h].pc = "bind" /\ task'[h].trusted = FALSE
    /\ UNCHANGED <<ws, mail, mapping, records, tokens, clash>>
Ensures(h) ==
    /\ task[h].pc = "ensure"
    /\ \/ task'[h].pc = "idle"
       \/ /\ Credentials!Unbound(task[h].sid)
          /\ task'[h].token = task[h].token /\ task'[h].trusted = task[h].trusted
          /\ task'[h].pc = IF ws.presented # None /\ ws.presented = mapping[task[h].sid]
                           THEN "bind" ELSE "replace"
    /\ UNCHANGED <<ws, mail, mapping, records, tokens>>
    /\ clash' = clash \cup {w \in {"issue"} : task'[h].pc = "replace" /\ Credentials!Issuing # {}}
Replaces(h) ==
    /\ task[h].pc = "replace" /\ task'[h].pc = "record" /\ task'[h].trusted = task[h].trusted
    /\ tokens' = tokens + 1 /\ task'[h].token = tokens'
    /\ records' = {r \in records : r.token # mapping[task[h].sid]}
    /\ UNCHANGED <<ws, mail, mapping, clash>>
Noted(h) == [token |-> task[h].token, sid |-> task[h].sid, account |-> task[h].account]
Records(h) ==
    /\ task[h].pc = "record" /\ task'[h].pc = "map"
    /\ task'[h].token = task[h].token /\ task'[h].trusted = task[h].trusted
    /\ records' = records \cup {Noted(h)}
    /\ UNCHANGED <<ws, mail, mapping, tokens, clash>>
Maps(h) ==
    /\ task[h].pc = "map" /\ task'[h].pc = "bind"
    /\ task'[h].token = task[h].token /\ task'[h].trusted = task[h].trusted
    /\ mapping' = [mapping EXCEPT ![task[h].sid] = task[h].token]
    /\ ws' = IF ws # None /\ ws.sid = task[h].sid THEN [ws EXCEPT !.presented = task[h].token] ELSE ws
    /\ UNCHANGED <<mail, records, tokens, clash>>
Binds(h) ==
    /\ task[h].pc = "bind" /\ task'[h].pc = "idle"
    /\ \/ UNCHANGED <<ws, mail>> /\ ~Credentials!Unbound(task[h].sid)
       \/ /\ Credentials!Unbound(task[h].sid)
          /\ ws' = [ws EXCEPT !.bound = task[h].account]
          /\ mail' = IF ~open THEN {} ELSE
                 {[account |-> task[h].account, trusted |-> task[h].trusted, token |-> task[h].token]}
    /\ UNCHANGED <<mapping, records, tokens, clash>>

LEMMA HandlerMoves ==
    ASSUME SessionBase, NEW h \in Handlers,
           \/ Credentials!Trust(h) \/ Credentials!Ensure(h) \/ Credentials!Replace(h)
           \/ Credentials!Record(h) \/ Credentials!Map(h) \/ Credentials!Bind(h)
    PROVE  /\ \A g \in Handlers \ {h} : task'[g] = task[g]
           /\ task'[h].pc # "idle" => task'[h].sid = task[h].sid /\ task'[h].account = task[h].account
           /\ task'[h].pc = "idle" => task'[h].token = None
           /\ Trusts(h) \/ Ensures(h) \/ Replaces(h) \/ Records(h) \/ Maps(h) \/ Binds(h)
PROOF
<1> USE SessionBoundsAreNats
<1>1. SessionTypes
  BY DEF SessionBase
<1>2. Busy(h)
  BY HandlerSteps
<1>3. /\ task[h] \in Credentials!Tasks /\ Credentials!Done \in Credentials!Tasks
      /\ Credentials!Done.pc = "idle" /\ Credentials!Done.token = None
  BY <1>2, HandlerTyped DEF Credentials!Done
<1>4. CASE Credentials!Trust(h)
  <2>1. PICK t \in {[task[h] EXCEPT !.pc = "ensure"], [task[h] EXCEPT !.pc = "bind", !.trusted = FALSE]} :
           Credentials!Serve(h, t)
    BY <1>4 DEF Credentials!Trust, Credentials!Go
  <2>2. t \in Credentials!Tasks
    BY <1>3, <2>1 DEF Credentials!Tasks
  <2>3. task'[h] = t /\ \A g \in Handlers \ {h} : task'[g] = task[g]
    BY <1>1, <2>1, <2>2, ServeTyped
  <2> QED
    BY <1>3, <1>4, <2>1, <2>3 DEF Trusts, Credentials!Trust, Credentials!At, Credentials!Tasks
<1>5. CASE Credentials!Ensure(h)
  <2>1. PICK t \in {Credentials!Done, [task[h] EXCEPT !.pc = "bind"], [task[h] EXCEPT !.pc = "replace"]} :
           Credentials!Serve(h, t)
    BY <1>5 DEF Credentials!Ensure, Credentials!Go
  <2>2. t \in Credentials!Tasks
    BY <1>3, <2>1 DEF Credentials!Tasks
  <2>3. task'[h] = t /\ \A g \in Handlers \ {h} : task'[g] = task[g]
    BY <1>1, <2>1, <2>2, ServeTyped
  <2>4. \/ t = Credentials!Done
        \/ /\ Credentials!Unbound(task[h].sid)
           /\ t = [task[h] EXCEPT !.pc = IF ws.presented # None /\ ws.presented = mapping[task[h].sid]
                                         THEN "bind" ELSE "replace"]
    <3>1. \/ task' = [task EXCEPT ![h] = Credentials!Done]
          \/ /\ Credentials!Unbound(task[h].sid)
             /\ task' = [task EXCEPT ![h] = [task[h] EXCEPT !.pc =
                             IF ws.presented # None /\ ws.presented = mapping[task[h].sid] THEN "bind" ELSE "replace"]]
      BY <1>5 DEF Credentials!Ensure, Credentials!Go, Credentials!Serve, Credentials!IsCurrent
    <3> QED
      BY <1>1, <2>3, <3>1 DEF SessionTypes
  <2>5. task[h].pc = "ensure" /\ UNCHANGED <<ws, mail, mapping, records, tokens>>
        /\ clash' = clash \cup {w \in {"issue"} : task'[h].pc = "replace" /\ Credentials!Issuing # {}}
    BY <1>5 DEF Credentials!Ensure, Credentials!At, Credentials!redisVars, Credentials!Clashes
  <2>6. /\ t.pc # "idle" => t.sid = task[h].sid /\ t.account = task[h].account
        /\ t.pc = "idle" => t.token = None
    BY <1>3, <2>4 DEF Credentials!Tasks
  <2>7. Ensures(h)
    BY <1>3, <2>3, <2>4, <2>5 DEF Ensures, Credentials!Tasks
  <2> QED
    BY <2>3, <2>6, <2>7
<1>6. CASE Credentials!Replace(h)
  <2> DEFINE t == [task[h] EXCEPT !.pc = "record", !.token = tokens']
  <2>1. Credentials!Serve(h, t) /\ tokens' \in 1..MaxTokens
    BY <1>1, <1>6 DEF Credentials!Replace, SessionTypes
  <2>2. t \in Credentials!Tasks
    BY <1>3, <2>1 DEF Credentials!Tasks, Credentials!Tokens
  <2>3. t.pc = "record" /\ t.token = tokens' /\ t.sid = task[h].sid /\ t.account = task[h].account /\ t.trusted = task[h].trusted
    BY <1>3 DEF Credentials!Tasks
  <2> HIDE DEF t
  <2>4. task'[h] = t /\ \A g \in Handlers \ {h} : task'[g] = task[g]
    BY <1>1, <2>1, <2>2, ServeTyped
  <2> QED
    BY <1>6, <2>3, <2>4 DEF Replaces, Credentials!Replace, Credentials!At, Credentials!WithoutOld
<1>7. CASE Credentials!Record(h) \/ Credentials!Map(h)
  <2>1. PICK pc \in {"map", "bind"} :
           /\ Credentials!Serve(h, [task[h] EXCEPT !.pc = pc])
           /\ pc = IF Credentials!Record(h) THEN "map" ELSE "bind"
    BY <1>7 DEF Credentials!Record, Credentials!Map, Credentials!Go, Credentials!At
  <2> DEFINE t == [task[h] EXCEPT !.pc = pc]
  <2>2. t \in Credentials!Tasks
    BY <1>3 DEF Credentials!Tasks
  <2>3. /\ t.pc = pc /\ t.token = task[h].token /\ t.sid = task[h].sid /\ t.account = task[h].account
        /\ t.trusted = task[h].trusted
    BY <1>3 DEF Credentials!Tasks
  <2>4. Credentials!Serve(h, t)
    BY <2>1
  <2> HIDE DEF t
  <2>5. task'[h] = t /\ \A g \in Handlers \ {h} : task'[g] = task[g]
    BY <1>1, <2>2, <2>4, ServeTyped
  <2>6. CASE Credentials!Record(h)
    BY <2>1, <2>3, <2>5, <2>6 DEF Records, Noted, Credentials!Record, Credentials!At
  <2>7. CASE Credentials!Map(h) /\ ~Credentials!Record(h)
    BY <2>1, <2>3, <2>5, <2>7 DEF Maps, Credentials!Map, Credentials!At
  <2> QED
    BY <1>7, <2>6, <2>7
<1>8. CASE Credentials!Bind(h)
  <2>1. task'[h] = Credentials!Done /\ \A g \in Handlers \ {h} : task'[g] = task[g]
    BY <1>1, <1>3, <1>8, ServeTyped DEF Credentials!Bind
  <2> QED
    BY <1>3, <1>8, <2>1 DEF Binds, Credentials!Bind, Credentials!At, Credentials!redisVars
<1> QED
  BY <1>4, <1>5, <1>6, <1>7, <1>8

LEMMA TasksKnowKept == ASSUME SessionBase, Credentials!Next PROVE TasksKnow'
PROOF
<1> USE SessionBoundsAreNats
<1>1. SessionTypes /\ TasksKnow
  BY DEF SessionBase
<1>2. CASE UNCHANGED task
  BY <1>1, <1>2 DEF TasksKnow, Busy
<1>3. CASE Credentials!Proof \/ Credentials!AutoLogin \/ \E a \in Accounts : Credentials!Callback(a)
  <2>1. ws.sid \in 1..MaxSids
    BY <1>3, HandlerBegins
  <2>2. ASSUME NEW h \in Handlers, NEW a \in Accounts, NEW pc \in {"trust", "ensure"},
               task' = [task EXCEPT ![h] = [pc |-> pc, sid |-> ws.sid, account |-> a, trusted |-> TRUE, token |-> None]]
        PROVE  TasksKnow'
    BY <1>1, <2>1, <2>2 DEF SessionTypes, TasksKnow, Busy
  <2> QED
    BY <1>2, <1>3, <2>2, HandlerBegins
<1>4. ASSUME NEW h \in Handlers,
             \/ Credentials!Trust(h) \/ Credentials!Ensure(h) \/ Credentials!Replace(h)
             \/ Credentials!Record(h) \/ Credentials!Map(h) \/ Credentials!Bind(h)
      PROVE  TasksKnow'
  <2>1. /\ \A g \in Handlers \ {h} : task'[g] = task[g]
        /\ task'[h].pc # "idle" => task'[h].sid = task[h].sid /\ task'[h].account = task[h].account
        /\ task'[h].pc = "idle" => task'[h].token = None
        /\ Trusts(h) \/ Ensures(h) \/ Replaces(h) \/ Records(h) \/ Maps(h) \/ Binds(h)
    BY <1>4, HandlerMoves
  <2>2. tokens + 1 # None
    BY <1>1, NoneIsNothing DEF SessionTypes
  <2>3. task[h].sid \in 1..MaxSids /\ task[h].account \in Accounts
    BY <1>4, HandlerSteps, HandlerTyped
  <2>4. task'[h].pc \in {"record", "map"} => task'[h].token # None
    BY <1>1, <2>1, <2>2 DEF TasksKnow, Trusts, Ensures, Replaces, Records, Maps, Binds
  <2>5. task'[h].pc \notin {"record", "map", "bind"} => task'[h].token = None
    BY <1>1, <2>1 DEF TasksKnow, Trusts, Ensures, Replaces, Records, Maps, Binds
  <2> QED
    BY <1>1, <2>1, <2>3, <2>4, <2>5 DEF TasksKnow, Busy
<1>5. CASE Credentials!RelayRestarts
  BY <1>1, <1>5 DEF Credentials!RelayRestarts, Credentials!Done, TasksKnow, Busy, Handlers
<1> QED
  BY <1>2, <1>3, <1>4, <1>5
     DEF Credentials!Next, Credentials!Start, Credentials!Connect, Credentials!Disconnect, Credentials!Unregister,
         Credentials!RejectBound, Credentials!AcceptBound, Credentials!LogoutBegins, Credentials!Revoke,
         Credentials!LogoutStops, Credentials!LogoutRemoves, Credentials!LogoutSuppresses, Credentials!AppDies,
         Credentials!Expire, Handlers

LEMMA SessionTyped == ASSUME SessionBase, Credentials!Next PROVE SessionTypes'
PROOF
  BY AgentTyped, RelayTyped, HandlerBegins, HandlerSteps DEF Credentials!Next, Handlers

LEMMA FlagsTyped == ASSUME SessionBase, Credentials!Next PROVE SessionFlags'
PROOF
<1>1. suppressed \in BOOLEAN /\ open \in BOOLEAN
  BY DEF SessionBase, SessionFlags
<1>2. CASE Credentials!Proof \/ Credentials!AutoLogin \/ \E a \in Accounts : Credentials!Callback(a)
  BY <1>1, <1>2, HandlerBegins DEF SessionFlags
<1>3. ASSUME NEW h \in Handlers,
             \/ Credentials!Trust(h) \/ Credentials!Ensure(h) \/ Credentials!Replace(h)
             \/ Credentials!Record(h) \/ Credentials!Map(h) \/ Credentials!Bind(h)
      PROVE  SessionFlags'
  BY <1>1, <1>3, HandlerSteps DEF SessionFlags
<1>4. ASSUME NEW u \in BOOLEAN, Credentials!Start(u)
      PROVE  SessionFlags'
  <2>1. suppressed' = (suppressed /\ ~u) /\ open' = open
    BY <1>4 DEF Credentials!Start
  <2> QED
    BY <1>1, <2>1, Zenon DEF SessionFlags
<1>5. CASE Credentials!Connect
  BY <1>1, <1>5 DEF Credentials!Connect, SessionFlags
<1>6. CASE /\ suppressed' = suppressed \/ suppressed' = TRUE
           /\ open' = open \/ open' = FALSE
  BY <1>1, <1>6, Zenon DEF SessionFlags
<1>7. CASE \/ Credentials!Disconnect \/ Credentials!RejectBound \/ Credentials!AcceptBound
           \/ Credentials!LogoutBegins \/ Credentials!LogoutStops \/ Credentials!LogoutRemoves
           \/ Credentials!LogoutSuppresses \/ Credentials!AppDies
  BY <1>6, <1>7
     DEF Credentials!Disconnect, Credentials!RejectBound, Credentials!AcceptBound, Credentials!LogoutBegins,
         Credentials!LogoutStops, Credentials!LogoutRemoves, Credentials!LogoutSuppresses, Credentials!AppDies,
         Credentials!Shut
<1>8. CASE \/ Credentials!Unregister \/ Credentials!Revoke \/ Credentials!RelayRestarts
           \/ \E s \in 1..MaxSids : Credentials!Expire(s)
  BY <1>6, <1>8
     DEF Credentials!Unregister, Credentials!Revoke, Credentials!RelayRestarts, Credentials!Expire, Credentials!Shut,
         Credentials!agentVars
<1> QED
  BY <1>2, <1>3, <1>4, <1>5, <1>7, <1>8 DEF Credentials!Next, Handlers

\* What an agent makes of the notice it accepts.
LEMMA Accepts ==
    ASSUME SessionBase, Credentials!AcceptBound
    PROVE  \E m \in mail :
              /\ m \in Credentials!Notices /\ open /\ mem \in Credentials!Saved /\ ws # None /\ ws.sid = mem.sid
              /\ mem.pin = None \/ mem.pin = m.account
              /\ mem' \in Credentials!Saved /\ mem'.sid = mem.sid /\ mem'.pin = m.account
              /\ mem'.token = IF m.token = None THEN mem.token ELSE m.token
              /\ bound' = [account |-> m.account, trusted |-> m.trusted]
              /\ \/ file' \in {file, mem'}
                 \/ /\ mem.pin = None /\ file' \in Credentials!Saved
                    /\ file'.token = mem.token /\ file'.pin = m.account
              /\ mail = {m} /\ mail' = {} /\ UNCHANGED <<open, logout, ws, records, mapping, task, tokens, clash>>
PROOF
<1>1. SessionTypes /\ Connected
  BY DEF SessionBase
<1>2. PICK m \in mail :
         /\ Credentials!PinFits(m)
         /\ mem' = [mem EXCEPT !.pin = m.account, !.token = IF m.token = None THEN @ ELSE m.token]
         /\ bound' = [account |-> m.account, trusted |-> m.trusted]
         /\ \/ file' \in {file, mem'}
            \/ mem.pin = None /\ file' = [mem EXCEPT !.pin = m.account]
  BY DEF Credentials!AcceptBound
<1>3. /\ m \in Credentials!Notices /\ open /\ mem \in Credentials!Saved /\ ws # None /\ ws.sid = mem.sid
      /\ mail = {m}
  BY <1>1, <1>2 DEF SessionTypes, Connected
<1>4. /\ mem' \in Credentials!Saved /\ mem'.sid = mem.sid /\ mem'.pin = m.account
      /\ mem'.token = IF m.token = None THEN mem.token ELSE m.token
  BY <1>2, <1>3 DEF Credentials!Saved, Credentials!Notices
<1>5. LET f == [mem EXCEPT !.pin = m.account]
      IN  f \in Credentials!Saved /\ f.token = mem.token /\ f.pin = m.account
  BY <1>3 DEF Credentials!Saved, Credentials!Notices
<1>6. mail' = {} /\ UNCHANGED <<open, logout, ws, records, mapping, task, tokens, clash>>
  BY DEF Credentials!AcceptBound, Credentials!redisVars
<1>7. mem.pin = None \/ mem.pin = m.account
  BY <1>2 DEF Credentials!PinFits
<1> QED
  BY <1>2, <1>3, <1>4, <1>5, <1>6, <1>7

LEMMA ConnectedKept == ASSUME SessionBase, Credentials!Next PROVE Connected'
PROOF
<1> USE SessionBoundsAreNats, NoneIsNoSession, SocketsAreNot
<1>1. SessionTypes /\ SessionTypes' /\ Connected /\ TasksKnow
  BY SessionTyped DEF SessionBase
<1>2. CASE Credentials!Proof \/ Credentials!AutoLogin \/ \E a \in Accounts : Credentials!Callback(a)
  BY <1>1, <1>2, HandlerBegins DEF Connected
<1>3. ASSUME NEW h \in Handlers,
             \/ Credentials!Trust(h) \/ Credentials!Ensure(h) \/ Credentials!Replace(h)
             \/ Credentials!Record(h) \/ Credentials!Map(h) \/ Credentials!Bind(h)
      PROVE  Connected'
  <2>1. /\ UNCHANGED <<file, mem, bound, suppressed, logout, open, sids, faults>>
        /\ task[h].account \in Accounts
    BY <1>3, HandlerSteps, HandlerTyped
  <2>2. Trusts(h) \/ Ensures(h) \/ Replaces(h) \/ Records(h) \/ Maps(h) \/ Binds(h)
    BY <1>3, HandlerMoves
  <2>3. CASE UNCHANGED <<ws, mail>>
    BY <1>1, <2>1, <2>3 DEF Connected
  <2>4. CASE Maps(h)
    <3>1. /\ mail' = mail
          /\ ws' = ws \/ (ws # None /\ ws' # None /\ ws'.sid = ws.sid /\ ws'.bound = ws.bound)
      BY <1>1, <2>4 DEF Maps, SessionTypes, Credentials!Sockets
    <3> QED
      BY <1>1, <2>1, <3>1 DEF Connected
  <2>5. CASE Binds(h) /\ Credentials!Unbound(task[h].sid)
    <3>1. ws # None /\ ws.bound = None /\ ws \in Credentials!Sockets
      BY <1>1, <2>5 DEF Credentials!Unbound, SessionTypes
    <3>2. ws' = [ws EXCEPT !.bound = task[h].account] /\ (~open => mail' = {})
          /\ \A m1, m2 \in mail' : m1 = m2
      BY <2>5 DEF Binds
    <3>3. ws' # None /\ ws'.sid = ws.sid /\ ws'.bound # None
      BY <2>1, <3>1, <3>2 DEF Credentials!Sockets
    <3>4. bound = None
      BY <1>1, <3>1 DEF Connected
    <3> QED
      BY <1>1, <2>1, <3>2, <3>3, <3>4 DEF Connected
  <2> QED
    BY <2>2, <2>3, <2>4, <2>5 DEF Trusts, Ensures, Replaces, Records, Binds
<1>4. ASSUME NEW u \in BOOLEAN, Credentials!Start(u)
      PROVE  Connected'
  <2>1. mem = None /\ logout = "no" /\ UNCHANGED <<file, bound, logout, open, ws, mail>>
    BY <1>4 DEF Credentials!Start, Credentials!Running
  <2>2. mem' = file \/ mem'.token = None
    BY <1>4 DEF Credentials!Start, Credentials!Fresh
  <2> QED
    BY <1>1, <2>1, <2>2 DEF Connected
<1>5. CASE Credentials!Connect
  <2>1. /\ mem # None /\ open' = TRUE /\ mail' = {} /\ file' \in {mem, file} /\ ~open
        /\ ws' = [sid |-> mem.sid, presented |-> mem.token, proved |-> FALSE, bound |-> None]
        /\ UNCHANGED <<mem, bound, logout>>
    BY <1>5 DEF Credentials!Connect, Credentials!Running, Credentials!Save
  <2>2. ws' \in Credentials!Sockets /\ ws'.sid = mem.sid
    BY <1>1, <2>1 DEF SessionTypes, Credentials!Saved, Credentials!Sockets
  <2> QED
    BY <1>1, <2>1, <2>2 DEF Connected
<1>6. CASE Credentials!AcceptBound
  <2>1. PICK m \in mail :
              /\ m \in Credentials!Notices /\ open /\ mem \in Credentials!Saved /\ ws # None /\ ws.sid = mem.sid
              /\ mem' \in Credentials!Saved /\ mem'.sid = mem.sid /\ mem'.pin = m.account
              /\ \/ file' \in {file, mem'}
                 \/ /\ mem.pin = None /\ file' \in Credentials!Saved
                    /\ file'.token = mem.token /\ file'.pin = m.account
              /\ mail' = {} /\ UNCHANGED <<open, logout, ws>>
    BY <1>6, Accepts
  <2>2. m.account # None
    BY <2>1 DEF Credentials!Notices
  <2> QED
    BY <1>1, <2>1, <2>2 DEF Connected
<1>7. CASE Credentials!Disconnect \/ Credentials!Unregister
  BY <1>1, <1>7 DEF Connected, Credentials!Disconnect, Credentials!Unregister, Credentials!Shut, Credentials!agentVars
<1>8. CASE Credentials!RejectBound \/ Credentials!LogoutStops \/ Credentials!AppDies
  BY <1>1, <1>8 DEF Connected, Credentials!RejectBound, Credentials!LogoutStops, Credentials!AppDies, Credentials!Shut
<1>9. CASE Credentials!LogoutBegins \/ Credentials!LogoutRemoves \/ Credentials!LogoutSuppresses
  BY <1>1, <1>9 DEF Connected, Credentials!LogoutBegins, Credentials!LogoutRemoves, Credentials!LogoutSuppresses
<1>10. CASE Credentials!Revoke \/ Credentials!RelayRestarts \/ \E s \in 1..MaxSids : Credentials!Expire(s)
  BY <1>1, <1>10 DEF Connected, Credentials!Revoke, Credentials!RelayRestarts, Credentials!Expire, Credentials!Shut,
                     Credentials!agentVars
<1> QED
  BY <1>2, <1>3, <1>4, <1>5, <1>6, <1>7, <1>8, <1>9, <1>10 DEF Credentials!Next, Handlers

\* No step but the issue of a token makes another owner of it.
LEMMA SameOwners ==
    ASSUME OneOwner, tokens' = tokens,
           \A t \in 1..MaxTokens : \A s, a : Owns(t, s, a)' => Owns(t, s, a)
    PROVE  OneOwner'
PROOF
  BY DEF OneOwner

LEMMA OneOwnerKept == ASSUME SessionBase, Credentials!Next PROVE OneOwner'
PROOF
<1> USE SessionBoundsAreNats, NoneIsNoSession, SocketsAreNot
<1>1. SessionTypes /\ SessionTypes' /\ Connected /\ TasksKnow /\ OneOwner
  BY SessionTyped DEF SessionBase
<1>2. CASE Credentials!Proof \/ Credentials!AutoLogin \/ \E a \in Accounts : Credentials!Callback(a)
  <2>1. /\ UNCHANGED <<file, mem, mail, records, tokens>> /\ ws'.sid = ws.sid
        /\ \/ UNCHANGED task
           \/ \E h \in Handlers, a \in Accounts, pc \in {"trust", "ensure"} :
                 task' = [task EXCEPT ![h] = [pc |-> pc, sid |-> ws.sid, account |-> a, trusted |-> TRUE,
                                              token |-> None]]
    BY <1>2, HandlerBegins
  <2>2. \A h \in Handlers : task'[h] = task[h] \/ task'[h].token = None
    BY <1>1, <2>1 DEF SessionTypes
  <2>3. \A t \in 1..MaxTokens : \A s, a : Owns(t, s, a)' => Owns(t, s, a)
    BY <2>1, <2>2 DEF Owns
  <2> QED
    BY <1>1, <2>1, <2>3, SameOwners
<1>3. ASSUME NEW h \in Handlers,
             \/ Credentials!Trust(h) \/ Credentials!Ensure(h) \/ Credentials!Replace(h)
             \/ Credentials!Record(h) \/ Credentials!Map(h) \/ Credentials!Bind(h)
      PROVE  OneOwner'
  <2>1. /\ UNCHANGED <<file, mem>>
        /\ task[h].account \in Accounts /\ task[h].sid \in 1..MaxSids
    BY <1>3, HandlerSteps, HandlerTyped
  <2>2. /\ \A g \in Handlers \ {h} : task'[g] = task[g]
        /\ task'[h].pc # "idle" => task'[h].sid = task[h].sid /\ task'[h].account = task[h].account
        /\ task'[h].pc = "idle" => task'[h].token = None
        /\ Trusts(h) \/ Ensures(h) \/ Replaces(h) \/ Records(h) \/ Maps(h) \/ Binds(h)
    BY <1>3, HandlerMoves
  <2>3. CASE task'[h].pc = "idle" \/ task'[h].token = task[h].token
    <3>1. \A g \in Handlers : \A t \in 1..MaxTokens : \A s, a :
             task'[g].token = t /\ task'[g].sid = s /\ task'[g].account = a =>
                task[g].token = t /\ task[g].sid = s /\ task[g].account = a
      BY <2>2, <2>3
    <3>2. CASE Trusts(h) \/ Ensures(h) \/ Records(h)
      <4>1. /\ UNCHANGED <<ws, mail, tokens>> /\ records' \subseteq records \cup {Noted(h)}
        BY <3>2 DEF Trusts, Ensures, Records
      <4>2. \A t \in 1..MaxTokens : \A s, a : Owns(t, s, a)' => Owns(t, s, a)
        BY <2>1, <3>1, <4>1 DEF Owns, Noted
      <4> QED
        BY <1>1, <4>1, <4>2, SameOwners
    <3>3. CASE Maps(h)
      <4>1. /\ UNCHANGED <<mail, tokens, records>>
            /\ ws' = ws \/ ws'.sid = ws.sid
        BY <1>1, <3>3 DEF Maps, SessionTypes, Credentials!Sockets
      <4>2. \A t \in 1..MaxTokens : \A s, a : Owns(t, s, a)' => Owns(t, s, a)
        BY <2>1, <3>1, <4>1 DEF Owns
      <4> QED
        BY <1>1, <4>1, <4>2, SameOwners
    <3>4. CASE Binds(h)
      <4>1. /\ UNCHANGED <<tokens, records>>
            /\ \/ UNCHANGED <<mail, ws>>
               \/ /\ ws'.sid = task[h].sid
                  /\ \A m \in mail' : m.token = task[h].token /\ m.account = task[h].account
        BY <1>1, <3>4 DEF Binds, SessionTypes, Credentials!Sockets, Credentials!Unbound
      <4>2. \A t \in 1..MaxTokens : \A s, a : Owns(t, s, a)' => Owns(t, s, a)
        BY <2>1, <3>1, <4>1 DEF Owns
      <4> QED
        BY <1>1, <4>1, <4>2, SameOwners
    <3>5. CASE Replaces(h)
      BY <1>1, <2>3, <3>5, NoneIsNothing DEF Replaces, TasksKnow, SessionTypes
    <3> QED
      BY <2>2, <3>2, <3>3, <3>4, <3>5
  <2>4. CASE Replaces(h)
    <3>1. /\ tokens' = tokens + 1 /\ task'[h].token = tokens' /\ task'[h].sid = task[h].sid
          /\ task'[h].account = task[h].account /\ records' \subseteq records
          /\ UNCHANGED <<ws, mail>> /\ tokens \in Nat
      BY <1>1, <2>2, <2>4 DEF Replaces, SessionTypes
    <3>2. \A t \in 1..MaxTokens : \A s, a :
             Owns(t, s, a)' => Owns(t, s, a) \/ (t = tokens' /\ s = task[h].sid /\ a = task[h].account)
      BY <2>1, <2>2, <3>1 DEF Owns
    <3>3. \A t \in 1..MaxTokens : \A s, a : Owns(t, s, a) => t < tokens'
      BY <1>1, <3>1 DEF OneOwner
    <3> QED
      BY <1>1, <3>1, <3>2, <3>3 DEF OneOwner
  <2> QED
    BY <2>2, <2>3, <2>4 DEF Trusts, Ensures, Records, Maps, Binds
<1>4. ASSUME NEW u \in BOOLEAN, Credentials!Start(u)
      PROVE  OneOwner'
  <2>1. UNCHANGED <<file, ws, mail, records, task, tokens>>
    BY <1>4 DEF Credentials!Start, Credentials!redisVars
  <2>2. mem' = file \/ mem'.token = None
    BY <1>4 DEF Credentials!Start, Credentials!Fresh
  <2>3. \A t \in 1..MaxTokens : \A s, a : Owns(t, s, a)' => Owns(t, s, a)
    BY <2>1, <2>2 DEF Owns
  <2> QED
    BY <1>1, <2>1, <2>3, SameOwners
<1>5. CASE Credentials!AcceptBound
  <2>1. PICK m \in mail :
              /\ m \in Credentials!Notices /\ mem \in Credentials!Saved /\ ws.sid = mem.sid
              /\ mem.pin = None \/ mem.pin = m.account
              /\ mem' \in Credentials!Saved /\ mem'.sid = mem.sid /\ mem'.pin = m.account
              /\ mem'.token = IF m.token = None THEN mem.token ELSE m.token
              /\ \/ file' \in {file, mem'}
                 \/ mem.pin = None /\ file'.token = mem.token
              /\ mail' = {} /\ UNCHANGED <<ws, records, task, tokens>>
    BY <1>5, Accepts
  <2>2. mem.token # None => mem.pin # None
    BY <1>1, <2>1 DEF Connected
  <2>3. \A t \in 1..MaxTokens : \A s, a : mem'.token = t /\ mem'.sid = s /\ mem'.pin = a => Owns(t, s, a)
    BY <2>1, <2>2 DEF Owns
  <2>4. \A t \in 1..MaxTokens : \A s, a : Owns(t, s, a)' => Owns(t, s, a)
    BY <2>1, <2>2, <2>3 DEF Owns
  <2> QED
    BY <1>1, <2>1, <2>4, SameOwners
<1>6. CASE /\ UNCHANGED <<task, tokens>> /\ records' \subseteq records
           /\ mail' = {} \/ UNCHANGED <<mail, ws>>
           /\ mem' \in {mem, None} /\ file' \in {file, mem, None}
  <2>1. \A t \in 1..MaxTokens : \A s, a : Owns(t, s, a)' => Owns(t, s, a)
    BY <1>6 DEF Owns
  <2> QED
    BY <1>1, <1>6, <2>1, SameOwners
<1>7. CASE Credentials!Connect
  BY <1>6, <1>7 DEF Credentials!Connect, Credentials!Save, Credentials!redisVars
<1>8. CASE \/ Credentials!Disconnect \/ Credentials!RejectBound \/ Credentials!LogoutBegins
           \/ Credentials!LogoutStops \/ Credentials!LogoutRemoves \/ Credentials!LogoutSuppresses \/ Credentials!AppDies
  BY <1>6, <1>8
     DEF Credentials!Disconnect, Credentials!RejectBound, Credentials!LogoutBegins, Credentials!LogoutStops,
         Credentials!LogoutRemoves, Credentials!LogoutSuppresses, Credentials!AppDies, Credentials!Shut,
         Credentials!redisVars
<1>9. CASE Credentials!Unregister
  <2>1. mail = {}
    BY <1>1, <1>9 DEF Credentials!Unregister, Connected
  <2> QED
    BY <1>6, <1>9, <2>1 DEF Credentials!Unregister, Credentials!agentVars, Credentials!redisVars
<1>10. CASE Credentials!Revoke \/ \E s \in 1..MaxSids : Credentials!Expire(s)
  BY <1>6, <1>10 DEF Credentials!Revoke, Credentials!Expire, Credentials!agentVars
<1>11. CASE Credentials!RelayRestarts
  <2>1. /\ \A h \in Handlers : task'[h].token = None
        /\ UNCHANGED <<file, mem, records, tokens>> /\ mail' = {}
    BY <1>11 DEF Credentials!RelayRestarts, Credentials!Done, Credentials!Shut, Credentials!redisVars, Handlers
  <2>2. \A t \in 1..MaxTokens : \A s, a : Owns(t, s, a)' => Owns(t, s, a)
    BY <2>1 DEF Owns
  <2> QED
    BY <1>1, <2>1, <2>2, SameOwners
<1> QED
  BY <1>2, <1>3, <1>4, <1>5, <1>7, <1>8, <1>9, <1>10, <1>11 DEF Credentials!Next, Handlers

-------------------------------------------------------------------------------
\* While no issue has met another, a revocation or a restart: one handler issues
\* at a time, and every record is the mapped one or about to be.
Issues(h) == task[h].pc \in {"replace", "record", "map"}

IssueInv == "issue" \notin clash =>
    /\ \A g, h \in Handlers : Issues(g) /\ Issues(h) => g = h
    /\ \A r \in records : mapping[r.sid] = r.token \/ \E h \in Handlers : task[h].pc = "map" /\ task[h].sid = r.sid
    /\ \A h \in Handlers, r \in records : r.sid = task[h].sid =>
          task[h].pc # "record" /\ (task[h].pc = "map" => r.token = task[h].token)

LEMMA IssuingIs == Credentials!Issuing = {h \in Handlers : Issues(h)}
PROOF
  BY DEF Credentials!Issuing, Issues, Handlers

LEMMA IssueKept == ASSUME SessionBase, IssueInv, Credentials!Next PROVE IssueInv'
PROOF
<1> USE SessionBoundsAreNats, SocketsAreNot
<1>1. SessionTypes /\ TasksKnow
  BY DEF SessionBase
<1>2. CASE "issue" \in clash'
  BY <1>2 DEF IssueInv
<1>3. CASE Credentials!Proof \/ Credentials!AutoLogin \/ \E a \in Accounts : Credentials!Callback(a)
  <2>1. /\ UNCHANGED <<mapping, records>> /\ clash \subseteq clash'
        /\ \/ UNCHANGED task
           \/ \E h \in Handlers, a \in Accounts, pc \in {"trust", "ensure"} :
                 /\ task[h].pc = "idle"
                 /\ task' = [task EXCEPT ![h] = [pc |-> pc, sid |-> ws.sid, account |-> a, trusted |-> TRUE,
                                                 token |-> None]]
    BY <1>3, HandlerBegins
  <2>2. \A h \in Handlers : \/ task'[h] = task[h]
                            \/ task'[h].pc \in {"trust", "ensure"} /\ task[h].pc = "idle"
    BY <1>1, <2>1 DEF SessionTypes
  <2> QED
    BY <2>1, <2>2 DEF IssueInv, Issues
<1>4. ASSUME NEW h \in Handlers,
             \/ Credentials!Trust(h) \/ Credentials!Ensure(h) \/ Credentials!Replace(h)
             \/ Credentials!Record(h) \/ Credentials!Map(h) \/ Credentials!Bind(h),
             "issue" \notin clash'
      PROVE  IssueInv'
  <2>1. task[h].sid \in 1..MaxSids
    BY <1>4, HandlerSteps, HandlerTyped
  <2>2. /\ \A g \in Handlers \ {h} : task'[g] = task[g]
        /\ task'[h].pc # "idle" => task'[h].sid = task[h].sid /\ task'[h].account = task[h].account
        /\ Trusts(h) \/ Ensures(h) \/ Replaces(h) \/ Records(h) \/ Maps(h) \/ Binds(h)
    BY <1>4, HandlerMoves
  <2>3. "issue" \notin clash
    BY <1>4, <2>2 DEF Trusts, Ensures, Replaces, Records, Maps, Binds
  <2>4. CASE Trusts(h) \/ Binds(h)
    <3>1. ~Issues(h) /\ ~Issues(h)' /\ UNCHANGED <<mapping, records>>
      BY <2>4 DEF Trusts, Binds, Issues
    <3> QED
      BY <2>2, <2>3, <3>1 DEF IssueInv, Issues
  <2>5. CASE Ensures(h)
    <3>1. /\ UNCHANGED <<mapping, records>> /\ task[h].pc = "ensure" /\ task'[h].pc \notin {"record", "map"}
          /\ Issues(h)' => \A g \in Handlers : ~Issues(g)
      BY <1>4, <2>5, IssuingIs DEF Ensures, Issues
    <3> QED
      BY <2>2, <2>3, <3>1 DEF IssueInv, Issues
  <2>6. CASE Replaces(h)
    <3>1. /\ task[h].pc = "replace" /\ task'[h].pc = "record" /\ mapping' = mapping
          /\ records' = {r \in records : r.token # mapping[task[h].sid]} /\ task'[h].sid = task[h].sid
      BY <2>2, <2>6 DEF Replaces
    <3>2. \A g \in Handlers \ {h} : ~Issues(g)
      BY <2>3, <3>1 DEF IssueInv, Issues
    <3>3. \A r \in records : mapping[r.sid] = r.token
      BY <2>3, <3>1, <3>2 DEF IssueInv, Issues
    <3>4. \A r \in records' : r.sid # task[h].sid
      BY <3>1, <3>3
    <3> QED
      BY <2>2, <3>1, <3>2, <3>3, <3>4 DEF IssueInv, Issues
  <2>7. CASE Records(h)
    <3>1. /\ task[h].pc = "record" /\ task'[h].pc = "map" /\ mapping' = mapping
          /\ records' = records \cup {Noted(h)} /\ task'[h].sid = task[h].sid /\ task'[h].token = task[h].token
          /\ Noted(h).sid = task[h].sid /\ Noted(h).token = task[h].token
      BY <2>2, <2>7 DEF Records, Noted
    <3>2. \A g \in Handlers \ {h} : ~Issues(g)
      BY <2>3, <3>1 DEF IssueInv, Issues
    <3>3. \A r \in records : mapping[r.sid] = r.token /\ r.sid # task[h].sid
      BY <2>3, <3>1, <3>2 DEF IssueInv, Issues
    <3> QED
      BY <2>2, <3>1, <3>2, <3>3 DEF IssueInv, Issues
  <2>8. CASE Maps(h)
    <3>1. /\ task[h].pc = "map" /\ task'[h].pc = "bind" /\ records' = records
          /\ mapping' = [mapping EXCEPT ![task[h].sid] = task[h].token]
      BY <2>8 DEF Maps
    <3>2. \A g \in Handlers \ {h} : ~Issues(g)
      BY <2>3, <3>1 DEF IssueInv, Issues
    <3>3. \A r \in records : IF r.sid = task[h].sid THEN r.token = task[h].token ELSE mapping[r.sid] = r.token
      BY <2>3, <3>1, <3>2 DEF IssueInv, Issues
    <3>4. \A r \in records : mapping'[r.sid] = r.token
      BY <1>1, <2>1, <3>1, <3>3 DEF SessionTypes
    <3> QED
      BY <2>2, <3>1, <3>2, <3>4 DEF IssueInv, Issues
  <2> QED
    BY <2>2, <2>4, <2>5, <2>6, <2>7, <2>8
<1>5. CASE Credentials!Revoke
  <2>1. CASE Credentials!Revocable /\ "issue" \notin clash'
    <3>1. /\ records' \subseteq {r \in records : r.token # file.token} \/ (records' = records /\ mapping' = mapping)
          /\ task' = task /\ clash \subseteq clash'
      BY <1>5 DEF Credentials!Revoke, Credentials!Clashes
    <3>2. CASE records' = records /\ mapping' = mapping
      BY <3>1, <3>2, <2>1 DEF IssueInv, Issues
    <3>3. CASE /\ records' = {r \in records : r.token # file.token}
               /\ mapping' = [mapping EXCEPT ![file.sid] = None]
               /\ clash' = Credentials!Clashes("issue", Credentials!Issuing # {})
                           \cup Credentials!Clashes("handlers", ~ Credentials!Idle)
      <4>1. \A h \in Handlers : ~Issues(h)
        BY <2>1, <3>3, IssuingIs DEF Credentials!Clashes
      <4>2. \A r \in records : mapping[r.sid] = r.token
        BY <2>1, <3>1, <4>1 DEF IssueInv, Issues
      <4>3. mapping[file.sid] = file.token
        BY <2>1 DEF Credentials!Revocable
      <4>4. \A r \in records' : r.sid # file.sid /\ r.sid \in 1..MaxSids
        BY <1>1, <3>3, <4>2, <4>3 DEF SessionTypes
      <4>5. \A r \in records' : mapping'[r.sid] = r.token
        BY <1>1, <3>3, <4>2, <4>4 DEF SessionTypes
      <4> QED
        BY <3>1, <4>1, <4>5 DEF IssueInv, Issues
    <3> QED
      BY <1>5, <2>1, <3>2, <3>3 DEF Credentials!Revoke
  <2>2. CASE ~Credentials!Revocable
    <3>1. UNCHANGED <<task, records, mapping, clash>>
      BY <1>5, <2>2 DEF Credentials!Revoke
    <3> QED
      BY <3>1 DEF IssueInv, Issues
  <2> QED
    BY <1>2, <2>1, <2>2
<1>6. CASE Credentials!RelayRestarts
  <2>1. /\ \A h \in Handlers : task'[h].pc = "idle"
        /\ UNCHANGED <<records, mapping>> /\ clash' = clash \cup {w \in {"issue"} : Credentials!Issuing # {}}
    BY <1>6 DEF Credentials!RelayRestarts, Credentials!Done, Credentials!redisVars, Credentials!Clashes, Handlers
  <2>2. CASE "issue" \notin clash'
    <3>1. "issue" \notin clash /\ \A h \in Handlers : ~Issues(h)
      BY <2>1, <2>2, IssuingIs
    <3> QED
      BY <2>1, <3>1 DEF IssueInv, Issues
  <2> QED
    BY <1>2, <2>2
<1>7. CASE UNCHANGED <<task, records, mapping>> /\ clash \subseteq clash'
  BY <1>7 DEF IssueInv, Issues
<1>8. CASE \/ \E u \in BOOLEAN : Credentials!Start(u)
           \/ Credentials!Connect \/ Credentials!Disconnect \/ Credentials!Unregister \/ Credentials!RejectBound
           \/ Credentials!AcceptBound \/ Credentials!LogoutBegins \/ Credentials!LogoutStops
           \/ Credentials!LogoutRemoves \/ Credentials!LogoutSuppresses \/ Credentials!AppDies
           \/ \E s \in 1..MaxSids : Credentials!Expire(s)
  BY <1>7, <1>8
     DEF Credentials!Start, Credentials!Connect, Credentials!Disconnect, Credentials!Unregister,
         Credentials!RejectBound, Credentials!AcceptBound, Credentials!LogoutBegins, Credentials!LogoutStops,
         Credentials!LogoutRemoves, Credentials!LogoutSuppresses, Credentials!AppDies, Credentials!Expire,
         Credentials!redisVars, Credentials!Clashes
<1> QED
  BY <1>2, <1>3, <1>4, <1>5, <1>6, <1>8 DEF Credentials!Next, Handlers

-------------------------------------------------------------------------------
\* While one handler at a time was under way and the connection did not move under
\* one, the token a bound agent holds, or is about to be told, is the mapped one:
\* the handler that binds presents it, and none issues another behind the bind.
Held(t) == t # None /\ mapping[ws.sid] = t

OneBusy == \A g, h \in Handlers : Busy(g) /\ Busy(h) => g = h
BindsMapped == \A h \in Handlers :
    task[h].pc = "bind" /\ task[h].token # None => mapping[task[h].sid] = task[h].token
PresentsHeld == open /\ ws.bound = None =>
    \/ ws.presented = mem.token
    \/ \E h \in Handlers : /\ task[h].pc = "bind" /\ task[h].sid = ws.sid
                           /\ task[h].token = ws.presented /\ ws.presented # None
NoneBehind == open /\ ws.bound # None => \A h \in Handlers : Issues(h) => task[h].sid # ws.sid
BindsHeld == \A h \in Handlers :
    /\ task[h].pc = "bind" /\ task[h].trusted /\ task[h].token = None
    /\ open /\ ws.sid = task[h].sid /\ ws.bound = None
    => Held(mem.token)
TellsHeld == \A m \in mail : m.trusted => Held(IF m.token = None THEN mem.token ELSE m.token)
BoundHolds == bound # None /\ bound.trusted => Held(mem.token)

CurrentInv == clash = {} =>
    /\ OneBusy /\ BindsMapped
    /\ logout \in {"no", "revoke"} => PresentsHeld /\ NoneBehind /\ BindsHeld /\ TellsHeld /\ BoundHolds

\* Nothing is claimed of an agent that is not connected.
LEMMA ShutIsCurrent ==
    ASSUME Connected, ~open
    PROVE  PresentsHeld /\ NoneBehind /\ BindsHeld /\ TellsHeld /\ BoundHolds
PROOF
  BY DEF Connected, PresentsHeld, NoneBehind, BindsHeld, TellsHeld, BoundHolds

LEMMA CurrentKept == ASSUME SessionBase, CurrentInv, Credentials!Next PROVE CurrentInv'
PROOF
<1> USE SessionBoundsAreNats, SocketsAreNot
<1>1. SessionTypes /\ SessionTypes' /\ TasksKnow /\ Connected /\ Connected'
  BY SessionTyped, ConnectedKept DEF SessionBase
<1>2. CASE clash' # {}
  BY <1>2 DEF CurrentInv
<1>3. CASE Credentials!Proof \/ Credentials!AutoLogin \/ \E a \in Accounts : Credentials!Callback(a)
  <2> SUFFICES ASSUME clash' = {}
               PROVE  CurrentInv'
    BY DEF CurrentInv
  <2>1. /\ open /\ UNCHANGED <<mem, bound, logout, open, mail, mapping>>
        /\ ws'.sid = ws.sid /\ ws'.presented = ws.presented /\ ws'.bound = ws.bound
        /\ clash' = clash \cup {w \in {"handlers"} : ~ Credentials!Idle}
        /\ \/ UNCHANGED task
           \/ \E h \in Handlers, a \in Accounts, pc \in {"trust", "ensure"} :
                 /\ task[h].pc = "idle"
                 /\ task' = [task EXCEPT ![h] = [pc |-> pc, sid |-> ws.sid, account |-> a, trusted |-> TRUE,
                                                 token |-> None]]
    BY <1>3, HandlerBegins
  <2>2. clash = {} /\ \A h \in Handlers : task[h].pc = "idle"
    BY <2>1 DEF Credentials!Idle, Handlers
  <2>3. (\A h \in Handlers : task'[h].pc \in {"idle", "trust", "ensure"}) /\ OneBusy'
    <3>1. CASE UNCHANGED task
      BY <2>2, <3>1 DEF OneBusy, Busy
    <3>2. ASSUME NEW h \in Handlers, NEW a \in Accounts, NEW pc \in {"trust", "ensure"},
                 task' = [task EXCEPT ![h] = [pc |-> pc, sid |-> ws.sid, account |-> a, trusted |-> TRUE,
                                              token |-> None]]
          PROVE  (\A g \in Handlers : task'[g].pc \in {"idle", "trust", "ensure"}) /\ OneBusy'
      <4>1. task'[h].pc = pc /\ \A g \in Handlers \ {h} : task'[g] = task[g]
        BY <1>1, <3>2 DEF SessionTypes
      <4> QED
        BY <2>2, <4>1 DEF OneBusy, Busy
    <3> QED
      BY <2>1, <3>1, <3>2
  <2>4. BindsMapped' /\ BindsHeld' /\ NoneBehind'
    BY <2>3 DEF BindsMapped, BindsHeld, NoneBehind, Issues
  <2>5. ASSUME logout' \in {"no", "revoke"}
        PROVE  PresentsHeld' /\ TellsHeld' /\ BoundHolds'
    <3>1. PresentsHeld /\ TellsHeld /\ BoundHolds
      BY <2>1, <2>2, <2>5 DEF CurrentInv
    <3>2. PresentsHeld'
      BY <2>1, <2>2, <3>1 DEF PresentsHeld
    <3>3. TellsHeld' /\ BoundHolds'
      BY <2>1, <3>1 DEF TellsHeld, BoundHolds, Held
    <3> QED
      BY <3>2, <3>3
  <2> QED
    BY <2>3, <2>4, <2>5 DEF CurrentInv
<1>4. ASSUME NEW h \in Handlers,
             \/ Credentials!Trust(h) \/ Credentials!Ensure(h) \/ Credentials!Replace(h)
             \/ Credentials!Record(h) \/ Credentials!Map(h) \/ Credentials!Bind(h),
             clash' = {}
      PROVE  CurrentInv'
  <2>1. /\ UNCHANGED <<mem, bound, logout, open>> /\ Busy(h)
        /\ task[h].sid \in 1..MaxSids /\ task[h].account \in Accounts
    BY <1>4, HandlerSteps, HandlerTyped
  <2>2. /\ \A g \in Handlers \ {h} : task'[g] = task[g]
        /\ task'[h].pc # "idle" => task'[h].sid = task[h].sid /\ task'[h].account = task[h].account
        /\ task'[h].pc = "idle" => task'[h].token = None
        /\ Trusts(h) \/ Ensures(h) \/ Replaces(h) \/ Records(h) \/ Maps(h) \/ Binds(h)
    BY <1>4, HandlerMoves
  <2>3. clash = {}
    BY <1>4, <2>2 DEF Trusts, Ensures, Replaces, Records, Maps, Binds
  <2>4. OneBusy /\ BindsMapped
    BY <2>3 DEF CurrentInv
  <2>5. \A g \in Handlers \ {h} : task[g].pc = "idle" /\ task'[g].pc = "idle"
    BY <2>1, <2>2, <2>4 DEF OneBusy, Busy
  <2>6. OneBusy'
    BY <2>5 DEF OneBusy, Busy
  <2>7. BindsMapped'
    <3>1. \/ task'[h].pc # "bind" \/ task'[h].token = None
          \/ Maps(h)
      BY <1>1, <2>2 DEF Trusts, Ensures, Replaces, Records, Binds, TasksKnow
    <3>2. Maps(h) => mapping'[task'[h].sid] = task'[h].token
      BY <1>1, <2>1, <2>2 DEF Maps, SessionTypes
    <3> QED
      BY <2>5, <3>1, <3>2 DEF BindsMapped
  <2>8. ASSUME logout' \in {"no", "revoke"}
        PROVE  PresentsHeld' /\ NoneBehind' /\ BindsHeld' /\ TellsHeld' /\ BoundHolds'
    <3>1. PresentsHeld /\ NoneBehind /\ BindsHeld /\ TellsHeld /\ BoundHolds
      BY <2>1, <2>3, <2>8 DEF CurrentInv
    <3>2. CASE Trusts(h)
      <4>1. /\ UNCHANGED <<ws, mail, mapping>> /\ task[h].pc = "trust"
            /\ task'[h].pc = "ensure" \/ (task'[h].pc = "bind" /\ task'[h].trusted = FALSE)
        BY <3>2 DEF Trusts
      <4>2. PresentsHeld' /\ NoneBehind'
        BY <2>1, <2>5, <3>1, <4>1 DEF PresentsHeld, NoneBehind, Issues
      <4>3. BindsHeld'
        BY <2>5, <4>1 DEF BindsHeld
      <4>4. TellsHeld' /\ BoundHolds'
        BY <2>1, <3>1, <4>1 DEF TellsHeld, BoundHolds, Held
      <4> QED
        BY <4>2, <4>3, <4>4
    <3>3. CASE Ensures(h)
      <4>1. /\ UNCHANGED <<ws, mail, mapping>> /\ task[h].pc = "ensure"
            /\ \/ task'[h].pc = "idle"
               \/ Credentials!Unbound(task[h].sid) /\ task'[h].pc = "replace"
               \/ /\ task'[h].pc = "bind" /\ ws.presented # None /\ ws.presented = mapping[task[h].sid]
                  /\ task'[h].sid = task[h].sid
        BY <2>2, <3>3 DEF Ensures
      <4>2. open /\ ws.bound = None => ws.presented = mem.token
        BY <2>5, <3>1, <4>1 DEF PresentsHeld
      <4>3. PresentsHeld' /\ NoneBehind'
        BY <2>1, <2>2, <2>5, <3>1, <4>1, <4>2 DEF PresentsHeld, NoneBehind, Issues, Credentials!Unbound
      <4>4. BindsHeld'
        BY <2>1, <2>5, <4>1, <4>2 DEF BindsHeld, Held
      <4>5. TellsHeld' /\ BoundHolds'
        BY <2>1, <3>1, <4>1 DEF TellsHeld, BoundHolds, Held
      <4> QED
        BY <4>3, <4>4, <4>5
    <3>4. CASE Replaces(h) \/ Records(h)
      <4>1. UNCHANGED <<ws, mail, mapping>> /\ Issues(h) /\ task'[h].pc \in {"record", "map"} /\ task'[h].sid = task[h].sid
        BY <2>2, <3>4 DEF Replaces, Records, Issues
      <4>2. PresentsHeld' /\ NoneBehind'
        BY <2>1, <2>5, <3>1, <4>1 DEF PresentsHeld, NoneBehind, Issues
      <4>3. BindsHeld'
        BY <2>5, <4>1 DEF BindsHeld
      <4>4. TellsHeld' /\ BoundHolds'
        BY <2>1, <3>1, <4>1 DEF TellsHeld, BoundHolds, Held
      <4> QED
        BY <4>2, <4>3, <4>4
    <3>5. CASE Maps(h)
      <4>1. /\ task[h].pc = "map" /\ task'[h].pc = "bind" /\ task'[h].token = task[h].token /\ task'[h].sid = task[h].sid
            /\ mapping' = [mapping EXCEPT ![task[h].sid] = task[h].token] /\ mail' = mail /\ task[h].token # None
            /\ ws' = IF ws # None /\ ws.sid = task[h].sid THEN [ws EXCEPT !.presented = task[h].token] ELSE ws
        BY <1>1, <2>2, <3>5 DEF Maps, TasksKnow
      <4>2. open => /\ ws \in Credentials!Sockets /\ ws # None
                    /\ ws'.sid = ws.sid /\ ws'.bound = ws.bound
                    /\ ws'.presented = IF ws.sid = task[h].sid THEN task[h].token ELSE ws.presented
        BY <1>1, <4>1 DEF Connected, SessionTypes, Credentials!Sockets
      <4>3. open /\ ws.bound = None => ws.presented = mem.token
        BY <2>5, <3>1, <4>1 DEF PresentsHeld
      <4>4. PresentsHeld'
        BY <2>1, <4>1, <4>2, <4>3 DEF PresentsHeld
      <4>5. NoneBehind' /\ BindsHeld'
        BY <2>5, <4>1 DEF NoneBehind, BindsHeld, Issues
      <4>6. open /\ ws.bound # None => ws.sid # task[h].sid /\ mapping'[ws.sid] = mapping[ws.sid]
        BY <1>1, <3>1, <4>1, <4>2 DEF NoneBehind, Issues, SessionTypes, Credentials!Sockets
      <4>7. TellsHeld' /\ BoundHolds'
        BY <1>1, <2>1, <3>1, <4>1, <4>2, <4>6 DEF TellsHeld, BoundHolds, Held, Connected
      <4> QED
        BY <4>4, <4>5, <4>7
    <3>6. CASE Binds(h) /\ ~Credentials!Unbound(task[h].sid)
      <4>1. UNCHANGED <<ws, mail, mapping>> /\ task[h].pc = "bind" /\ task'[h].pc = "idle"
        BY <3>6 DEF Binds
      <4>2. open /\ ws.bound = None => task[h].sid # ws.sid
        BY <1>1, <3>6 DEF Credentials!Unbound, Connected
      <4>3. PresentsHeld' /\ NoneBehind' /\ BindsHeld'
        BY <2>1, <2>5, <3>1, <4>1, <4>2 DEF PresentsHeld, NoneBehind, BindsHeld, Issues
      <4>4. TellsHeld' /\ BoundHolds'
        BY <2>1, <3>1, <4>1 DEF TellsHeld, BoundHolds, Held
      <4> QED
        BY <4>3, <4>4
    <3>7. CASE Binds(h) /\ Credentials!Unbound(task[h].sid)
      <4> DEFINE note == [account |-> task[h].account, trusted |-> task[h].trusted, token |-> task[h].token]
      <4>1. /\ task[h].pc = "bind" /\ task'[h].pc = "idle" /\ mapping' = mapping
            /\ ws # None /\ ws.sid = task[h].sid /\ ws.bound = None /\ ws' = [ws EXCEPT !.bound = task[h].account]
            /\ mail' = IF ~open THEN {} ELSE {note}
        BY <3>7 DEF Binds, Credentials!Unbound
      <4>2. ws'.sid = ws.sid /\ ws'.bound # None
        BY <1>1, <2>1, <4>1 DEF SessionTypes, Credentials!Sockets
      <4>3. bound' = None
        BY <1>1, <2>1, <4>1 DEF Connected
      <4>4. PresentsHeld' /\ NoneBehind' /\ BindsHeld' /\ BoundHolds'
        BY <2>5, <4>1, <4>2, <4>3 DEF PresentsHeld, NoneBehind, BindsHeld, BoundHolds, Issues
      <4>5. note.trusted = task[h].trusted /\ note.token = task[h].token
        OBVIOUS
      <4> HIDE DEF note
      <4>6. ASSUME open, task[h].trusted
            PROVE  Held(IF task[h].token = None THEN mem.token ELSE task[h].token)
        BY <2>4, <3>1, <4>1, <4>6 DEF BindsHeld, BindsMapped, Held
      <4>7. TellsHeld'
        BY <2>1, <4>1, <4>2, <4>5, <4>6 DEF TellsHeld, Held
      <4> QED
        BY <4>4, <4>7
    <3> QED
      BY <2>2, <3>2, <3>3, <3>4, <3>5, <3>6, <3>7
  <2> QED
    BY <2>6, <2>7, <2>8 DEF CurrentInv
<1>5. CASE Credentials!AcceptBound /\ clash' = {}
  <2>1. PICK m \in mail :
              /\ m \in Credentials!Notices /\ open
              /\ mem'.token = IF m.token = None THEN mem.token ELSE m.token
              /\ bound' = [account |-> m.account, trusted |-> m.trusted]
              /\ mail = {m} /\ mail' = {} /\ UNCHANGED <<open, logout, ws, mapping, task, clash>>
    BY <1>5, Accepts
  <2>2. ws.bound # None
    BY <1>1, <2>1 DEF Connected
  <2>3. bound'.trusted = m.trusted
    BY <2>1
  <2>4. OneBusy' /\ BindsMapped'
    BY <1>5, <2>1 DEF CurrentInv, OneBusy, BindsMapped, Busy
  <2>5. ASSUME logout' \in {"no", "revoke"}
        PROVE  PresentsHeld' /\ NoneBehind' /\ BindsHeld' /\ TellsHeld' /\ BoundHolds'
    <3>1. NoneBehind /\ TellsHeld
      BY <1>5, <2>1, <2>5 DEF CurrentInv
    <3>2. PresentsHeld' /\ NoneBehind' /\ BindsHeld' /\ TellsHeld'
      BY <2>1, <2>2, <3>1 DEF PresentsHeld, NoneBehind, BindsHeld, TellsHeld, Issues
    <3>3. BoundHolds'
      BY <2>1, <2>3, <3>1 DEF BoundHolds, TellsHeld, Held
    <3> QED
      BY <3>2, <3>3
  <2> QED
    BY <2>4, <2>5 DEF CurrentInv
<1>6. CASE Credentials!Connect /\ clash' = {}
  <2>1. /\ mem # None /\ mail' = {} /\ ~open
        /\ ws' = [sid |-> mem.sid, presented |-> mem.token, proved |-> FALSE, bound |-> None]
        /\ UNCHANGED <<mem, bound, logout, mapping, task>>
        /\ clash' = clash \cup {w \in {"moved"} : \E h \in Credentials!Handlers :
                      task[h].pc = "bind" /\ task[h].trusted /\ task[h].token = None}
    BY <1>6 DEF Credentials!Connect, Credentials!Running, Credentials!redisVars, Credentials!Clashes
  <2>2. clash = {} /\ \A h \in Handlers : ~(task[h].pc = "bind" /\ task[h].trusted /\ task[h].token = None)
    BY <1>6, <2>1 DEF Handlers
  <2>3. OneBusy' /\ BindsMapped'
    BY <2>1, <2>2 DEF CurrentInv, OneBusy, BindsMapped, Busy
  <2>4. ws'.presented = mem'.token /\ ws'.bound = None
    BY <2>1
  <2>5. BindsHeld'
    BY <2>1, <2>2 DEF BindsHeld
  <2>6. bound' = None
    BY <1>1, <2>1 DEF Connected
  <2>7. PresentsHeld' /\ NoneBehind' /\ TellsHeld' /\ BoundHolds'
    BY <2>1, <2>4, <2>6 DEF PresentsHeld, NoneBehind, TellsHeld, BoundHolds
  <2> QED
    BY <2>3, <2>5, <2>7 DEF CurrentInv
<1>7. CASE ~open' /\ task' = task /\ mapping' = mapping /\ clash' = clash
  <2>1. clash' = {} => OneBusy' /\ BindsMapped'
    BY <1>7 DEF CurrentInv, OneBusy, BindsMapped, Busy
  <2> QED
    BY <1>1, <1>7, <2>1, ShutIsCurrent DEF CurrentInv, PresentsHeld, NoneBehind, BindsHeld, TellsHeld, BoundHolds,
                                           Connected
<1>8. ASSUME NEW u \in BOOLEAN, Credentials!Start(u)
      PROVE  CurrentInv'
  BY <1>1, <1>7, <1>8 DEF Credentials!Start, Credentials!Running, Credentials!redisVars, Connected
<1>9. CASE \/ Credentials!Disconnect \/ Credentials!RejectBound \/ Credentials!LogoutStops \/ Credentials!AppDies
           \/ Credentials!Unregister
  BY <1>7, <1>9
     DEF Credentials!Disconnect, Credentials!RejectBound, Credentials!LogoutStops, Credentials!AppDies,
         Credentials!Unregister, Credentials!Shut, Credentials!agentVars, Credentials!redisVars
<1>10. CASE Credentials!LogoutRemoves \/ Credentials!LogoutSuppresses
  <2>1. ~open /\ UNCHANGED <<open, task, mapping, clash>>
    BY <1>1, <1>10 DEF Credentials!LogoutRemoves, Credentials!LogoutSuppresses, Credentials!redisVars, Connected
  <2> QED
    BY <1>7, <2>1
<1>11. CASE UNCHANGED <<mem, bound, open, ws, mail, mapping, task, clash>>
            /\ (logout' \in {"no", "revoke"} => logout \in {"no", "revoke"})
  BY <1>11 DEF CurrentInv, OneBusy, BindsMapped, PresentsHeld, NoneBehind, BindsHeld, TellsHeld, BoundHolds, Held,
               Busy, Issues
<1>12. CASE Credentials!LogoutBegins \/ \E s \in 1..MaxSids : Credentials!Expire(s)
  BY <1>11, <1>12 DEF Credentials!LogoutBegins, Credentials!Expire, Credentials!redisVars, Credentials!agentVars
<1>13. CASE Credentials!Revoke
  <2>1. CASE Credentials!Revocable /\ clash' = {}
    <3>1. logout' = "stop" /\ UNCHANGED task /\ clash = {}
          /\ (mapping' = mapping \/ Credentials!Idle)
      BY <1>13, <2>1 DEF Credentials!Revoke, Credentials!Clashes
    <3>2. OneBusy' /\ BindsMapped'
      BY <3>1 DEF CurrentInv, OneBusy, BindsMapped, Busy, Credentials!Idle, Handlers
    <3> QED
      BY <3>1, <3>2 DEF CurrentInv
  <2>2. CASE ~Credentials!Revocable
    <3>1. logout' = "stop" /\ UNCHANGED <<mapping, task, clash>>
      BY <1>13, <2>2 DEF Credentials!Revoke
    <3> QED
      BY <3>1 DEF CurrentInv, OneBusy, BindsMapped, Busy
  <2> QED
    BY <1>2, <2>1, <2>2
<1>14. CASE Credentials!RelayRestarts /\ clash' = {}
  <2>1. ~open' /\ \A h \in Handlers : task'[h].pc = "idle"
    BY <1>14 DEF Credentials!RelayRestarts, Credentials!Done, Credentials!Shut, Handlers
  <2>2. OneBusy' /\ BindsMapped'
    BY <2>1 DEF OneBusy, BindsMapped, Busy
  <2> QED
    BY <1>1, <2>1, <2>2 DEF CurrentInv, PresentsHeld, NoneBehind, BindsHeld, TellsHeld, BoundHolds, Connected
<1> QED
  BY <1>2, <1>3, <1>4, <1>5, <1>6, <1>8, <1>9, <1>10, <1>12, <1>13, <1>14 DEF Credentials!Next, Handlers

-------------------------------------------------------------------------------
SessionInv == SessionBase /\ IssueInv /\ CurrentInv

LEMMA SameSessionCardinality == \A S : Credentials!Cardinality(S) = Cardinality(S)
PROOF
  BY DEF Credentials!Cardinality, Cardinality

LEMMA SessionSafety == ASSUME SessionInv PROVE SessionSafe
PROOF
<1>1. SessionTypes /\ SessionFlags /\ Connected /\ OneOwner /\ IssueInv /\ CurrentInv
  BY DEF SessionInv, SessionBase
<1>2. Credentials!Cardinality(mail) <= 1
  <2>1. \A m1, m2 \in mail : m1 = m2
    BY <1>1 DEF Connected
  <2>2. mail = {} \/ \E m : mail = {m}
    BY <2>1
  <2>3. Cardinality(mail) \in {0, 1}
    BY <2>2, FS_EmptySet, FS_Singleton
  <2> QED
    BY <2>3, SameSessionCardinality
<1>3. Credentials!TypeOK
  BY <1>1, <1>2 DEF Credentials!TypeOK, SessionTypes, SessionFlags, Handlers
<1>4. Credentials!RecordsCurrent
  BY <1>1 DEF Credentials!RecordsCurrent, Credentials!Idle, IssueInv, Handlers
<1>5. Credentials!HeldIsPinned
  <2>1. ASSUME mem # None, mem.token # None, NEW r \in records, r.token = mem.token
        PROVE  r.sid = mem.sid /\ r.account = mem.pin
    <3>1. r.token \in 1..MaxTokens
      BY <1>1 DEF SessionTypes
    <3>2. Owns(r.token, r.sid, r.account) /\ Owns(r.token, mem.sid, mem.pin)
      BY <2>1 DEF Owns
    <3> QED
      BY <1>1, <3>1, <3>2 DEF OneOwner
  <2> QED
    BY <2>1 DEF Credentials!HeldIsPinned
<1>6. Credentials!BoundHoldsCurrent
  <2>1. ASSUME bound # None, bound.trusted, logout = "no", clash = {}
        PROVE  mem.token # None /\ mapping[mem.sid] = mem.token
    <3>1. BoundHolds
      BY <1>1, <2>1 DEF CurrentInv
    <3>2. open /\ ws.sid = mem.sid
      BY <1>1, <2>1 DEF Connected, SessionFlags
    <3> QED
      BY <2>1, <3>1, <3>2 DEF BoundHolds, Held
  <2> QED
    BY <2>1 DEF Credentials!BoundHoldsCurrent
<1> QED
  BY <1>3, <1>4, <1>5, <1>6 DEF SessionSafe

\* The records of the Relay are the mapped ones, what the agent holds is pinned to
\* its account, and a bound agent of a trusted device holds the current token
\* (session/mod.rs, app.py), for any number of sessions, tokens and faults.
THEOREM SessionsKeepTheirTokens == Spec => []SessionSafe
PROOF
<1> DEFINE Inv == part = "session" => SessionInv
<1>1. Init => Inv
  <2> SUFFICES ASSUME Init, part = "session"
               PROVE  SessionInv
    OBVIOUS
  <2>1. Credentials!Init
    BY DEF Init
  <2>2. SessionBase
    BY <2>1, SessionInit
  <2>3. IssueInv /\ CurrentInv
    BY <2>1, <2>2
       DEF Credentials!Init, Credentials!Done, IssueInv, CurrentInv, OneBusy, BindsMapped, PresentsHeld, NoneBehind,
           BindsHeld, TellsHeld, BoundHolds, Issues, Busy, Handlers
  <2> QED
    BY <2>2, <2>3 DEF SessionInv
<1>2. Inv /\ [Next]_vars => Inv'
  <2> SUFFICES ASSUME Inv, [Next]_vars, part' = "session"
               PROVE  SessionInv'
    OBVIOUS
  <2>1. CASE SessionNext
    <3>1. SessionInv /\ Credentials!Next
      BY <2>1 DEF SessionNext
    <3>2. SessionBase'
      BY <3>1, SessionTyped, FlagsTyped, TasksKnowKept, ConnectedKept, OneOwnerKept DEF SessionInv, SessionBase
    <3> QED
      BY <3>1, <3>2, IssueKept, CurrentKept DEF SessionInv
  <2>2. CASE JournalNext \/ HeartbeatNext \/ CommandsNext \/ ClientNext
    BY <2>2 DEF JournalNext, HeartbeatNext, CommandsNext, ClientNext
  <2>3. CASE UNCHANGED vars
    <3>1. part = "session" /\ UNCHANGED sessionVars
      BY <2>3 DEF vars
    <3> QED
      BY <3>1
         DEF sessionVars, SessionInv, SessionBase, SessionTypes, SessionFlags, TasksKnow, Connected, OneOwner, Owns,
             IssueInv, CurrentInv, OneBusy, BindsMapped, PresentsHeld, NoneBehind, BindsHeld, TellsHeld, BoundHolds,
             Held, Issues, Busy
  <2> QED
    BY <2>1, <2>2, <2>3 DEF Next
<1>3. Inv => SessionSafe
  BY SessionSafety DEF SessionSafe
<1> QED
  BY <1>1, <1>2, <1>3, PTL DEF Spec, vars
-------------------------------------------------------------------------------
(* What the Bot is told of the client                                         *)

Kinds == Snapshots!Kinds
Plan(p) == Snapshots!Plan(p)
Shown == Snapshots!Phases \cup {"None"}
Statuses == {"none", "offline", "in_game", "champ_select", "lobby", "waiting"} \X Shown
Memories == [pid : 0..MaxChanges, available : {"unknown", "yes", "no"}, phase : Shown,
             ready : 0..2, champ : 0..2, lobby : 0..2, status : Statuses]
Batches == [phase : Shown, ready : 0..2, champ : 0..2, lobby : 0..2, status : Statuses]

\* The snapshot of one kind.
Of(s, k) == s[k]

ClientTypes ==
    /\ client \in [pid : 0..MaxChanges, phase : Snapshots!Phases, data : [Kinds -> 0..2]]
    /\ wire \in 0..MaxWire /\ nudges \in 0..Room
    /\ socket \in [at : {"off", "search", "connect", "open"}, pid : 0..MaxChanges]
    /\ conn \in {"down", "up", "bound"} /\ cached \in {"unknown", "none", "path"}
    /\ poll \in [at : {"idle", "discover", "phase"} \cup Kinds, pid : 0..MaxChanges, phase : Shown]
    /\ poller \in Memories /\ batch \in Batches /\ told \in Batches
    /\ changes \in 0..MaxChanges /\ lost \in 0..MaxLost
    /\ answered \subseteq Kinds /\ forgot \subseteq Kinds \cup {"status"}

\* Where a poll is: it has sent nothing before its first question, and it puts the
\* questions of the phase it found to a client that is there.
Polling ==
    /\ poll.at \in {"idle", "discover"} => batch = told
    /\ poll.at \in Kinds => poll.at \in Plan(poll.phase) /\ poller.available = "yes"
    /\ poll.at \in {"discover", "phase"} => answered = {}

\* What the poller remembers is what the Bot will have been told, and what it does
\* not remember was taken back or is forgotten.
Remembers ==
    /\ \A k \in Kinds : Of(poller, k) # 0 \/ k \notin forgot => Of(batch, k) = Of(poller, k)
    /\ poller.status # Snapshots!NoStatus => batch.status = poller.status
    /\ poller.status = Snapshots!NoStatus /\ "status" \notin forgot => batch.status = Snapshots!Offline
    /\ poller.available # "yes" => poller.status \in {Snapshots!NoStatus, Snapshots!Offline}

\* Since the poll began nothing of the client went unnoticed.
Fresh == wire = 0 /\ nudges = 0 /\ ~missed

\* Then what was answered is as the client has it, and from the answer about the
\* phase on nothing is left that belongs to another one.
Knows == Fresh =>
    /\ \A k \in answered : Of(poller, k) = client.data[k] /\ Of(poller, k) # 0
    /\ "lobby" \in answered => poller.status = Snapshots!Status(client.phase, TRUE)
    /\ poll.at \in Kinds => poll.phase = client.phase
    /\ poll.at \in Kinds \cup {"idle"} =>
          /\ batch.phase = client.phase
          /\ \A k \in Kinds \ Plan(client.phase) : Of(poller, k) = 0
          /\ "lobby" \notin Plan(client.phase) => poller.status = Snapshots!Status(client.phase, FALSE)

ClientInv == ClientTypes /\ missed \in BOOLEAN /\ Polling /\ Remembers /\ Knows

LEMMA StatusIs ==
    ASSUME NEW p \in Shown, NEW q \in BOOLEAN
    PROVE  /\ Snapshots!Status(p, q) \in Statuses
           /\ Snapshots!Status(p, q) # Snapshots!NoStatus /\ Snapshots!Status(p, q) # Snapshots!Offline
PROOF
<1>1. PICK s \in {"in_game", "champ_select", "lobby", "waiting"} : Snapshots!Status(p, q) = <<s, p>>
  BY DEF Snapshots!Status
<1> QED
  BY <1>1 DEF Statuses, Snapshots!NoStatus, Snapshots!Offline

LEMMA NamesOfStatus ==
    /\ Snapshots!Offline \in Statuses /\ Snapshots!NoStatus \in Statuses
    /\ Snapshots!Offline # Snapshots!NoStatus
PROOF
  BY DEF Statuses, Shown, Snapshots!NoStatus, Snapshots!Offline

LEMMA PlanIs == \A p : Plan(p) \subseteq Kinds
PROOF
  BY DEF Plan, Kinds, Snapshots!Plan, Snapshots!Kinds

\* push_changed.
LEMMA PushedKind ==
    ASSUME NEW b \in Batches, NEW p \in Memories, NEW k \in Kinds, NEW v \in 0..2,
           NEW c, c = Snapshots!Pushed(b, p, k, v)
    PROVE  c \in Batches /\ c.phase = b.phase /\ c.status = b.status
PROOF
  BY DEF Batches, Memories, Kinds, Snapshots!Kinds, Snapshots!Pushed, Of

LEMMA PushedKindIs ==
    ASSUME NEW b \in Batches, NEW p \in Memories, NEW k \in Kinds, NEW v \in 0..2,
           NEW c, c = Snapshots!Pushed(b, p, k, v)
    PROVE  /\ Of(c, k) = IF Of(p, k) # v THEN v ELSE Of(b, k)
           /\ \A j \in Kinds \ {k} : Of(c, j) = Of(b, j)
PROOF
  BY DEF Batches, Memories, Kinds, Snapshots!Kinds, Snapshots!Pushed, Of

LEMMA PushedStatus ==
    ASSUME NEW b \in Batches, NEW p \in Memories, NEW v \in Statuses
    PROVE  /\ Snapshots!Pushed(b, p, "status", v) \in Batches
           /\ Snapshots!Pushed(b, p, "status", v).phase = b.phase
           /\ Snapshots!Pushed(b, p, "status", v).status = IF p.status # v THEN v ELSE b.status
PROOF
  BY DEF Batches, Memories, Snapshots!Pushed

LEMMA PushedStatusIs ==
    ASSUME NEW b \in Batches, NEW p \in Memories, NEW v \in Statuses, NEW j \in Kinds
    PROVE  Of(Snapshots!Pushed(b, p, "status", v), j) = Of(b, j)
PROOF
  BY DEF Batches, Memories, Kinds, Snapshots!Kinds, Snapshots!Pushed, Of

\* The next question.
LEMMA NextQuestion ==
    ASSUME NEW at \in {"phase"} \cup Kinds, NEW left, left \subseteq Snapshots!After(at), left # {}
    PROVE  \E k \in left : Snapshots!After(k) \cap left = left \ {k}
PROOF
<1> USE DEF Snapshots!After, Kinds, Snapshots!Kinds
<1>1. CASE "ready" \in left
  <2>1. at = "phase"
    BY <1>1
  <2>2. Snapshots!After("ready") \cap left = left \ {"ready"}
    BY <1>1, <2>1
  <2> QED
    BY <1>1, <2>2
<1>2. CASE "ready" \notin left /\ "champ" \in left
  <2>1. Snapshots!After("champ") \cap left = left \ {"champ"}
    BY <1>2
  <2> QED
    BY <1>2, <2>1
<1>3. CASE left = {"lobby"}
  <2>1. Snapshots!After("lobby") \cap left = left \ {"lobby"}
    BY <1>3
  <2> QED
    BY <1>3, <2>1
<1> QED
  BY <1>1, <1>2, <1>3

LEMMA ProceedIs ==
    ASSUME ClientTypes, NEW at \in {"phase"} \cup Kinds, NEW p \in Shown, Snapshots!Proceed(at, p)
    PROVE  /\ poll' \in [at : {"idle", "discover", "phase"} \cup Kinds, pid : 0..MaxChanges, phase : Shown]
           /\ \/ poll'.at = "idle" /\ told' = batch'
              \/ poll'.at \in Kinds /\ poll'.at \in Plan(p) /\ poll'.phase = p /\ told' = told
PROOF
<1> DEFINE left == Snapshots!After(at) \cap Snapshots!Plan(p)
           next == CHOOSE k \in left : Snapshots!After(k) \cap left = left \ {k}
<1>1. CASE left = {}
  <2>1. poll' = Snapshots!Idle /\ told' = batch'
    BY <1>1 DEF Snapshots!Proceed
  <2> QED
    BY <2>1, ClientBoundsAreNats DEF Snapshots!Idle, Shown
<1>2. CASE left # {}
  <2>1. poll' = [poll EXCEPT !.phase = p, !.at = next] /\ told' = told
    BY <1>2 DEF Snapshots!Proceed
  <2>2. left \subseteq Snapshots!After(at) /\ left \subseteq Plan(p) /\ left \subseteq Kinds
    BY PlanIs DEF Plan
  <2>3. \E k \in left : Snapshots!After(k) \cap left = left \ {k}
    BY <1>2, <2>2, NextQuestion
  <2> HIDE DEF left
  <2>4. next \in left
    BY <2>3
  <2> HIDE DEF next
  <2>5. next \in Kinds /\ next \in Plan(p)
    BY <2>2, <2>4
  <2>6. next \notin {"idle"}
    BY <2>5 DEF Kinds, Snapshots!Kinds
  <2> QED
    BY <2>1, <2>5 DEF ClientTypes
<1> QED
  BY <1>1, <1>2

\* clear_inactive_phase_snapshots: what memory p and batch b become in phase f.
IsCleared(p, b, f, cp, cb) ==
    /\ cp \in Memories /\ cb \in Batches /\ cp.available = p.available /\ cb.phase = b.phase
    /\ cp.status = IF "lobby" \in Plan(f) THEN p.status ELSE Snapshots!Status(f, FALSE)
    /\ cb.status = IF "lobby" \in Plan(f) \/ p.status = Snapshots!Status(f, FALSE) THEN b.status
                                                                             ELSE Snapshots!Status(f, FALSE)
    /\ \A k \in Kinds : /\ Of(cp, k) = IF k \in Plan(f) THEN Of(p, k) ELSE 0
                        /\ Of(cb, k) = IF k \notin Plan(f) /\ Of(p, k) # 0 THEN 0 ELSE Of(b, k)

LEMMA ClearedIs ==
    ASSUME NEW b \in Batches, NEW p \in Memories, NEW f \in Snapshots!Phases
    PROVE  IsCleared(p, b, f, Snapshots!Cleared(p, b, f).poller, Snapshots!Cleared(p, b, f).batch)
PROOF
<1> DEFINE s == Snapshots!Status(f, FALSE)
           cp == Snapshots!Cleared(p, b, f).poller
           cb == Snapshots!Cleared(p, b, f).batch
           out == {k \in Kinds \ Plan(f) : Of(p, k) # 0}
           b1 == [k \in DOMAIN b |-> IF k \in out THEN 0 ELSE b[k]]
           p1 == [k \in DOMAIN p |-> CASE k \in out -> 0
                                       [] k = "status" /\ "lobby" \notin Plan(f) -> s
                                       [] OTHER -> p[k]]
           b2 == IF "lobby" \in Plan(f) THEN b1 ELSE Snapshots!Pushed(b1, p, "status", s)
<1>1. Snapshots!Cleared(p, b, f) = [poller |-> p1, batch |-> b2]
  BY DEF Snapshots!Cleared, Kinds, Plan, Of
<1>2. out \subseteq Kinds /\ s \in Statuses
  BY StatusIs DEF Shown
<1>3. /\ b1 \in Batches /\ b1.phase = b.phase /\ b1.status = b.status
      /\ \A k \in Kinds : Of(b1, k) = IF k \in out THEN 0 ELSE Of(b, k)
  <2>1. DOMAIN b = {"phase", "ready", "champ", "lobby", "status"}
    BY DEF Batches
  <2>2. \A k \in DOMAIN b : b1[k] = IF k \in out THEN 0 ELSE b[k]
    OBVIOUS
  <2>3. DOMAIN b1 = DOMAIN b
    OBVIOUS
  <2>4. b1.phase = b.phase /\ b1.status = b.status
    BY <1>2, <2>1, <2>2 DEF Kinds, Snapshots!Kinds
  <2>5. \A k \in Kinds : Of(b1, k) = IF k \in out THEN 0 ELSE Of(b, k)
    BY <2>1, <2>2 DEF Kinds, Snapshots!Kinds, Of
  <2>6. b1.ready \in 0..2 /\ b1.champ \in 0..2 /\ b1.lobby \in 0..2
    BY <2>5 DEF Batches, Kinds, Snapshots!Kinds, Of
  <2>7. b1 \in Batches
    BY <2>1, <2>3, <2>4, <2>6 DEF Batches, Of
  <2> QED
    BY <2>4, <2>5, <2>7
<1>4. /\ p1 \in Memories /\ p1.available = p.available /\ p1.pid = p.pid
      /\ p1.status = IF "lobby" \in Plan(f) THEN p.status ELSE s
      /\ \A k \in Kinds : Of(p1, k) = IF k \in out THEN 0 ELSE Of(p, k)
  <2>1. DOMAIN p = {"pid", "available", "phase", "ready", "champ", "lobby", "status"}
    BY DEF Memories
  <2>2. \A k \in DOMAIN p : p1[k] = IF k \in out THEN 0
                                    ELSE IF k = "status" /\ "lobby" \notin Plan(f) THEN s ELSE p[k]
    <3> SUFFICES ASSUME NEW k \in DOMAIN p
                 PROVE  p1[k] = IF k \in out THEN 0
                                ELSE IF k = "status" /\ "lobby" \notin Plan(f) THEN s ELSE p[k]
      OBVIOUS
    <3>1. CASE k \in out
      <4>1. k # "status"
        BY <1>2, <3>1 DEF Kinds, Snapshots!Kinds
      <4> HIDE DEF out
      <4> QED
        BY <3>1, <4>1
    <3>2. CASE k \notin out /\ k = "status" /\ "lobby" \notin Plan(f)
      BY <3>2
    <3>3. CASE k \notin out /\ ~(k = "status" /\ "lobby" \notin Plan(f))
      BY <3>3
    <3> QED
      BY <3>1, <3>2, <3>3
  <2>3. DOMAIN p1 = DOMAIN p
    OBVIOUS
  <2>4. /\ p1.pid = p.pid /\ p1.available = p.available /\ p1.phase = p.phase
        /\ p1.status = IF "lobby" \in Plan(f) THEN p.status ELSE s
    BY <1>2, <2>1, <2>2 DEF Kinds, Snapshots!Kinds
  <2>5. \A k \in Kinds : Of(p1, k) = IF k \in out THEN 0 ELSE Of(p, k)
    BY <2>1, <2>2 DEF Kinds, Snapshots!Kinds, Of
  <2>6. p1.ready \in 0..2 /\ p1.champ \in 0..2 /\ p1.lobby \in 0..2
    BY <2>5 DEF Memories, Kinds, Snapshots!Kinds, Of
  <2>7. p1 \in Memories
    BY <1>2, <2>1, <2>3, <2>4, <2>6 DEF Memories, Of
  <2> QED
    BY <2>4, <2>5, <2>7
<1> HIDE DEF b1, p1, s
<1>5. /\ b2 \in Batches /\ b2.phase = b.phase
      /\ b2.status = IF "lobby" \in Plan(f) \/ p.status = s THEN b.status ELSE s
      /\ \A k \in Kinds : Of(b2, k) = Of(b1, k)
  <2>1. CASE "lobby" \in Plan(f)
    <3>1. b2 = b1
      BY <2>1
    <3> QED
      BY <1>3, <2>1, <3>1
  <2>2. CASE "lobby" \notin Plan(f)
    <3>1. b2 = Snapshots!Pushed(b1, p, "status", s)
      BY <2>2
    <3>4. b1 \in Batches /\ s \in Statuses
      BY <1>2, <1>3
    <3> HIDE DEF b2, out
    <3>2. b2 \in Batches /\ b2.phase = b1.phase /\ b2.status = IF p.status # s THEN s ELSE b1.status
      BY <3>1, <3>4, PushedStatus
    <3>3. \A k \in Kinds : Of(b2, k) = Of(b1, k)
      BY <3>1, <3>4, PushedStatusIs
    <3> QED
      BY <1>3, <2>2, <3>2, <3>3
  <2> QED
    BY <2>1, <2>2
<1>6. \A k \in Kinds : Of(p1, k) = IF k \in Plan(f) THEN Of(p, k) ELSE 0
  BY <1>4
<1> HIDE DEF b2
<1>7. cp = p1 /\ cb = b2
  BY <1>1
<1>8. \A k \in Kinds : Of(b2, k) = IF k \notin Plan(f) /\ Of(p, k) # 0 THEN 0 ELSE Of(b, k)
  BY <1>3, <1>5
<1> HIDE DEF cp, cb
<1>9. /\ cp \in Memories /\ cb \in Batches /\ cp.available = p.available
      /\ cp.status = IF "lobby" \in Plan(f) THEN p.status ELSE s
      /\ cb.phase = b.phase /\ cb.status = IF "lobby" \in Plan(f) \/ p.status = s THEN b.status ELSE s
      /\ \A k \in Kinds : /\ Of(cp, k) = IF k \in Plan(f) THEN Of(p, k) ELSE 0
                          /\ Of(cb, k) = IF k \notin Plan(f) /\ Of(p, k) # 0 THEN 0 ELSE Of(b, k)
  BY <1>4, <1>5, <1>6, <1>7, <1>8
<1> QED
  BY <1>9 DEF cp, cb, s, IsCleared

\* mark_lcu_unavailable.
LEMMA UnavailableIs ==
    ASSUME ClientTypes, Remembers, NEW d \in BOOLEAN, Snapshots!Unavailable(d)
    PROVE  /\ poller' \in Memories /\ batch' \in Batches /\ told' = batch' /\ poll' = Snapshots!Idle
           /\ missed' = TRUE /\ answered' = answered /\ forgot' \subseteq Kinds \cup {"status"}
           /\ Remembers'
PROOF
<1> USE NamesOfStatus
<1> DEFINE ends == d /\ poller.pid # 0
           p0 == IF ends THEN Snapshots!Reset(poller, 0) ELSE poller
           gone == IF ends THEN Snapshots!Remembered(poller) \ {"status"} ELSE {}
           was == poller.available = "yes"
<1>1. /\ poller' = [p0 EXCEPT !.available = "no", !.status = IF was THEN Snapshots!Offline ELSE p0.status]
      /\ batch' = IF was THEN Snapshots!Pushed(batch, p0, "status", Snapshots!Offline) ELSE batch
      /\ told' = batch'
      /\ forgot' = {k \in forgot \cup gone : k # "status" \/ batch'.status # Snapshots!Offline}
      /\ poll' = Snapshots!Idle /\ missed' = TRUE /\ answered' = answered
  BY DEF Snapshots!Unavailable, Snapshots!WasAvailable
<1>2. gone = IF ends THEN {k \in Kinds : Of(poller, k) # 0} ELSE {}
  BY DEF Snapshots!Remembered, Kinds, Snapshots!Kinds, Of
<1>3. /\ p0 \in Memories
      /\ \A k \in Kinds : Of(p0, k) = IF ends THEN 0 ELSE Of(poller, k)
      /\ p0.status = IF ends THEN Snapshots!NoStatus ELSE poller.status
  BY ClientBoundsAreNats DEF ClientTypes, Snapshots!Reset, Snapshots!Unknown, Memories, Shown, Kinds, Snapshots!Kinds, Of
<1> HIDE DEF p0, gone
<1>4. /\ poller' \in Memories /\ poller'.available = "no"
      /\ \A k \in Kinds : Of(poller', k) = Of(p0, k)
      /\ poller'.status = IF was THEN Snapshots!Offline ELSE p0.status
  BY <1>1, <1>3 DEF Memories, Kinds, Snapshots!Kinds, Of
<1>5. /\ batch' \in Batches /\ \A k \in Kinds : Of(batch', k) = Of(batch, k)
      /\ batch'.status = IF was /\ p0.status # Snapshots!Offline THEN Snapshots!Offline ELSE batch.status
  BY <1>1, <1>3, PushedStatus, PushedStatusIs DEF ClientTypes
<1>6. forgot' \subseteq Kinds \cup {"status"}
  BY <1>1, <1>2 DEF ClientTypes
<1>7. \A k \in Kinds : k # "status"
  BY DEF Kinds, Snapshots!Kinds
<1>8. \A k \in Kinds : Of(poller', k) # 0 \/ k \notin forgot' => Of(batch', k) = Of(poller', k)
  <2> SUFFICES ASSUME NEW k \in Kinds, Of(poller', k) # 0 \/ k \notin forgot'
               PROVE  Of(batch', k) = Of(poller', k)
    OBVIOUS
  <2>1. CASE ends
    <3>1. Of(poller', k) = 0 /\ k \notin forgot /\ Of(poller, k) = 0
      BY <1>1, <1>2, <1>3, <1>4, <1>7, <2>1
    <3> QED
      BY <1>5, <3>1 DEF Remembers
  <2>2. CASE ~ends
    BY <1>1, <1>2, <1>3, <1>4, <1>5, <1>7, <2>2 DEF Remembers
  <2> QED
    BY <2>1, <2>2
<1>9. poller'.status \in {Snapshots!NoStatus, Snapshots!Offline}
  BY <1>3, <1>4 DEF Remembers
<1>10. poller'.status # Snapshots!NoStatus => batch'.status = poller'.status
  BY <1>3, <1>4, <1>5 DEF Remembers
<1>11. poller'.status = Snapshots!NoStatus /\ "status" \notin forgot' => batch'.status = Snapshots!Offline
  <2> SUFFICES ASSUME poller'.status = Snapshots!NoStatus, "status" \notin forgot', batch'.status # Snapshots!Offline
               PROVE  FALSE
    OBVIOUS
  <2>1. "status" \notin forgot
    BY <1>1
  <2>2. ~was /\ batch'.status = batch.status
    BY <1>4, <1>5
  <2> QED
    BY <2>1, <2>2 DEF Remembers
<1> QED
  BY <1>1, <1>4, <1>5, <1>6, <1>8, <1>9, <1>10, <1>11 DEF Remembers

LEMMA ClientInit == Snapshots!Init => ClientInv
PROOF
<1> SUFFICES ASSUME Snapshots!Init
             PROVE  ClientInv
  OBVIOUS
<1> USE ClientBoundsAreNats, NamesOfStatus
<1>1. /\ client = [pid |-> 0, phase |-> "Lobby", data |-> [k \in Kinds |-> 0]]
      /\ wire = 0 /\ socket = [at |-> "off", pid |-> 0] /\ nudges = 0
      /\ conn = "down" /\ cached = "unknown"
      /\ poller = Snapshots!Unknown /\ poll = Snapshots!Idle
      /\ batch = Snapshots!Nothing /\ told = Snapshots!Nothing
      /\ changes = 0 /\ lost = 0 /\ answered = {} /\ missed = TRUE /\ forgot = {}
  BY DEF Snapshots!Init, Kinds
<1>2. Snapshots!Nothing \in Batches /\ Snapshots!Unknown \in Memories
  BY DEF Snapshots!Nothing, Snapshots!Unknown, Batches, Memories, Shown, Of
<1>3. ClientTypes
  BY <1>1, <1>2 DEF ClientTypes, Snapshots!Idle, Snapshots!Phases, Shown
<1>4. /\ \A k \in Kinds : Of(Snapshots!Nothing, k) = 0 /\ Of(Snapshots!Unknown, k) = 0
      /\ Snapshots!Nothing.status = Snapshots!Offline /\ Snapshots!Unknown.status = Snapshots!NoStatus
  BY DEF Snapshots!Nothing, Snapshots!Unknown, Kinds, Snapshots!Kinds, Of
<1>5. Remembers
  BY <1>1, <1>4 DEF Remembers
<1>6. Polling
  BY <1>1 DEF Polling, Snapshots!Idle, Kinds, Snapshots!Kinds
<1>7. missed \in BOOLEAN /\ Knows
  BY <1>1 DEF Knows, Fresh
<1> QED
  BY <1>3, <1>5, <1>6, <1>7 DEF ClientInv

\* What depends on nothing but the poller and its poll.
LEMMA PollerRests ==
    ASSUME Polling, Remembers, UNCHANGED <<poller, poll, batch, told, answered, forgot>>
    PROVE  Polling' /\ Remembers'
PROOF
  BY DEF Polling, Remembers

\* The client does something: it is missed, or an event is on its way.
LEMMA ClientMoves ==
    ASSUME ClientInv, Snapshots!Starts \/ Snapshots!Changes \/ Snapshots!Quits
    PROVE  ClientInv'
PROOF
<1> USE ClientBoundsAreNats
<1>1. ClientTypes /\ Polling /\ Remembers
  BY DEF ClientInv
<1>2. UNCHANGED <<socket, nudges, conn, cached, poller, poll, batch, told, answered, lost, forgot>>
  BY DEF Snapshots!Starts, Snapshots!Changes, Snapshots!Quits, Snapshots!watchVars, Snapshots!pollVars
<1>3. Polling' /\ Remembers'
  BY <1>1, <1>2, PollerRests
<1>4. /\ client' \in [pid : 0..MaxChanges, phase : Snapshots!Phases, data : [Kinds -> 0..2]]
      /\ changes' \in 0..MaxChanges /\ wire' \in 0..MaxWire
  <2>1. CASE Snapshots!Starts
    <3>1. PICK d \in Snapshots!Data("Lobby") : client' = [pid |-> changes', phase |-> "Lobby", data |-> d]
      BY <2>1 DEF Snapshots!Starts
    <3>2. d \in [Kinds -> 0..2]
      BY <3>1 DEF Snapshots!Data, Kinds
    <3>3. changes' \in 0..MaxChanges /\ wire' = wire
      BY <1>1, <2>1 DEF ClientTypes, Snapshots!Starts, Snapshots!watchVars
    <3> QED
      BY <1>1, <3>1, <3>2, <3>3 DEF ClientTypes, Snapshots!Phases
  <2>2. CASE Snapshots!Changes
    <3>0. PICK p \in Snapshots!Follows[client.phase] \cup {client.phase} :
             \E d \in Snapshots!Data(p) : client' = [client EXCEPT !.phase = p, !.data = d]
      BY <2>2 DEF Snapshots!Changes
    <3>1. PICK d \in Snapshots!Data(p) : client' = [client EXCEPT !.phase = p, !.data = d]
      BY <3>0
    <3>2. d \in [Kinds -> 0..2]
      BY <3>1 DEF Snapshots!Data, Kinds
    <3>3. client.phase \in Snapshots!Phases
      BY <1>1 DEF ClientTypes
    <3>4. Snapshots!Follows[client.phase] \subseteq Snapshots!Phases
      BY <3>3 DEF Snapshots!Phases, Snapshots!Follows
    <3>5. p \in Snapshots!Phases
      BY <3>0, <3>3, <3>4
    <3>6. client' \in [pid : 0..MaxChanges, phase : Snapshots!Phases, data : [Kinds -> 0..2]]
      BY <1>1, <3>1, <3>2, <3>5 DEF ClientTypes
    <3>7. changes < MaxChanges /\ wire < MaxWire /\ changes' = changes + 1 /\ wire' \in {wire, wire + 1}
      BY <2>2 DEF Snapshots!Changes, Snapshots!Published
    <3>8. changes' \in 0..MaxChanges /\ wire' \in 0..MaxWire
      BY <1>1, <3>7 DEF ClientTypes
    <3> QED
      BY <3>6, <3>8
  <2>3. CASE Snapshots!Quits
    <3>1. client' = [client EXCEPT !.pid = 0, !.data = [k \in Kinds |-> 0]] /\ UNCHANGED <<changes, wire>>
      BY <2>3 DEF Snapshots!Quits, Snapshots!watchVars, Kinds
    <3>2. [k \in Kinds |-> 0] \in [Kinds -> 0..2]
      OBVIOUS
    <3>3. client' = [pid |-> 0, phase |-> client.phase, data |-> [k \in Kinds |-> 0]]
      BY <1>1, <3>1 DEF ClientTypes
    <3>4. client.phase \in Snapshots!Phases
      BY <1>1 DEF ClientTypes
    <3> HIDE DEF Kinds
    <3>5. client' \in [pid : 0..MaxChanges, phase : Snapshots!Phases, data : [Kinds -> 0..2]]
      BY <3>2, <3>3, <3>4
    <3> QED
      BY <1>1, <3>1, <3>5 DEF ClientTypes
  <2> QED
    BY <2>1, <2>2, <2>3
<1>5. ClientTypes'
  BY <1>1, <1>2, <1>4 DEF ClientTypes
<1>6. missed' \in BOOLEAN
  <2>1. missed' = TRUE \/ missed' = missed
    BY DEF Snapshots!Starts, Snapshots!Changes, Snapshots!Quits, Snapshots!Published
  <2> QED
    BY <2>1, Zenon DEF ClientInv
<1>7. ~Fresh'
  <2>1. missed' = TRUE \/ wire' = wire + 1
    BY DEF Snapshots!Starts, Snapshots!Changes, Snapshots!Quits, Snapshots!Published
  <2>2. wire + 1 # 0
    BY <1>1 DEF ClientTypes
  <2> QED
    BY <2>1, <2>2 DEF Fresh
<1> QED
  BY <1>3, <1>5, <1>6, <1>7 DEF ClientInv, Knows

\* The watcher of the socket turns an event into a nudge, and misses what it loses.
LEMMA WatcherMoves ==
    ASSUME ClientInv, Snapshots!Search \/ Snapshots!Subscribe \/ Snapshots!Event \/ Snapshots!SocketEnds
    PROVE  ClientInv'
PROOF
<1> USE ClientBoundsAreNats
<1>1. ClientTypes /\ Polling /\ Remembers /\ Knows
  BY DEF ClientInv
<1>2. UNCHANGED <<client, changes, conn, cached, poller, poll, batch, told, answered, forgot>>
  BY DEF Snapshots!Search, Snapshots!Subscribe, Snapshots!Event, Snapshots!SocketEnds, Snapshots!clientVars,
         Snapshots!pollVars
<1>3. Polling' /\ Remembers'
  BY <1>1, <1>2, PollerRests
<1>4. ClientTypes'
  <2>1. socket' \in [at : {"off", "search", "connect", "open"}, pid : 0..MaxChanges]
    BY <1>1 DEF ClientTypes, Snapshots!Search, Snapshots!Subscribe, Snapshots!Event, Snapshots!SocketEnds
  <2>2. wire' \in 0..MaxWire /\ nudges' \in 0..Room /\ lost' \in 0..MaxLost
    BY <1>1 DEF ClientTypes, Snapshots!Search, Snapshots!Subscribe, Snapshots!Event, Snapshots!SocketEnds,
                Snapshots!Gone
  <2> QED
    BY <1>1, <1>2, <2>1, <2>2 DEF ClientTypes
<1>5. missed' \in BOOLEAN /\ (Fresh' => Fresh)
  <2>1. CASE Snapshots!SocketEnds
    <3>1. missed' = (missed \/ wire > 0) /\ wire \in Nat /\ nudges' = nudges
      BY <1>1, <2>1 DEF ClientTypes, Snapshots!SocketEnds
    <3>2. missed' \in BOOLEAN
      BY <3>1, Zenon
    <3>3. ~missed' => ~missed /\ ~(wire > 0)
      BY <3>1, Zenon
    <3> QED
      BY <3>1, <3>2, <3>3 DEF Fresh
  <2>2. CASE Snapshots!Event
    <3>1. nudges' # 0 /\ missed' = missed
      BY <1>1, <2>2 DEF ClientTypes, Snapshots!Event
    <3> QED
      BY <3>1 DEF Fresh, ClientInv
  <2>3. CASE Snapshots!Search \/ Snapshots!Subscribe
    BY <2>3 DEF Snapshots!Search, Snapshots!Subscribe, Fresh, ClientInv
  <2> QED
    BY <2>1, <2>2, <2>3
<1>6. Knows'
  BY <1>1, <1>2, <1>5 DEF Knows
<1> QED
  BY <1>3, <1>4, <1>5, <1>6 DEF ClientInv

\* The connection to the Relay.
LEMMA ConnectionMoves ==
    ASSUME ClientInv, Snapshots!Connect \/ Snapshots!Bound \/ Snapshots!Disconnect
    PROVE  ClientInv'
PROOF
<1> USE ClientBoundsAreNats, NamesOfStatus
<1>1. ClientTypes /\ Polling /\ Remembers /\ Knows
  BY DEF ClientInv
<1>2. CASE Snapshots!Connect \/ Snapshots!Bound
  <2>1. /\ UNCHANGED <<client, changes, wire, nudges, cached, poller, poll, batch, told, answered, lost, missed, forgot>>
        /\ conn' \in {"up", "bound"} /\ socket' \in {socket, [at |-> "search", pid |-> 0]}
    BY <1>2 DEF Snapshots!Connect, Snapshots!Bound, Snapshots!clientVars, Snapshots!watchVars, Snapshots!pollVars
  <2>2. ClientTypes'
    BY <1>1, <2>1 DEF ClientTypes
  <2>3. Polling' /\ Remembers'
    BY <1>1, <2>1, PollerRests
  <2>4. missed' \in BOOLEAN /\ Knows'
    BY <1>1, <2>1 DEF ClientInv, Knows, Fresh
  <2> QED
    BY <2>2, <2>3, <2>4 DEF ClientInv
<1>3. CASE Snapshots!Disconnect
  <2>1. /\ UNCHANGED <<client, changes, told>> /\ lost < MaxLost /\ lost' = lost + 1
        /\ conn' = "down" /\ wire' = 0 /\ nudges' = 0 /\ socket' = [at |-> "off", pid |-> 0]
        /\ poller' = Snapshots!Unknown /\ poll' = Snapshots!Idle /\ batch' = told
        /\ cached' = "unknown" /\ answered' = {} /\ missed' = TRUE /\ forgot' = Snapshots!Told(told)
    BY <1>3 DEF Snapshots!Disconnect, Snapshots!clientVars
  <2>2. Snapshots!Unknown \in Memories /\ Snapshots!Idle.at = "idle"
        /\ Snapshots!Idle \in [at : {"idle", "discover", "phase"} \cup Kinds, pid : 0..MaxChanges, phase : Shown]
    BY DEF Snapshots!Unknown, Memories, Shown, Snapshots!Idle
  <2>3. forgot' = {k \in Kinds : Of(told, k) # 0} \cup {k \in {"status"} : told.status # Snapshots!Offline}
    BY <2>1 DEF Snapshots!Told, Kinds, Of
  <2>4. ClientTypes'
    BY <1>1, <2>1, <2>2, <2>3 DEF ClientTypes
  <2>5. Polling'
    BY <2>1, <2>2 DEF Polling, Kinds, Snapshots!Kinds
  <2>6. (\A k \in Kinds : Of(poller', k) = 0) /\ poller'.status = Snapshots!NoStatus
    BY <2>1 DEF Snapshots!Unknown, Kinds, Snapshots!Kinds, Of
  <2>7. Remembers'
    BY <2>1, <2>3, <2>6 DEF Remembers
  <2> QED
    BY <2>1, <2>4, <2>5, <2>7 DEF ClientInv, Knows, Fresh
<1> QED
  BY <1>2, <1>3

\* The poll begins, and looks for the client.
LEMMA PollBegins ==
    ASSUME ClientInv, Snapshots!PollStart
    PROVE  ClientInv'
PROOF
<1> USE ClientBoundsAreNats
<1>1. ClientTypes /\ Polling /\ Remembers
  BY DEF ClientInv
<1>2. /\ poll.at = "idle" /\ poll' = [Snapshots!Idle EXCEPT !.at = "discover"]
      /\ answered' = {} /\ missed' = FALSE /\ (nudges' = nudges \/ (nudges > 0 /\ nudges' = nudges - 1))
      /\ UNCHANGED <<client, changes, wire, socket, conn, cached, poller, batch, told, lost, forgot>>
  BY DEF Snapshots!PollStart, Snapshots!Taken, Snapshots!Due, Snapshots!clientVars
<1>3. /\ poll' \in [at : {"idle", "discover", "phase"} \cup Kinds, pid : 0..MaxChanges, phase : Shown]
      /\ poll'.at = "discover"
  BY <1>2 DEF Snapshots!Idle, Shown
<1>4. ClientTypes'
  BY <1>1, <1>2, <1>3 DEF ClientTypes
<1>5. Polling' /\ Remembers'
  BY <1>1, <1>2, <1>3 DEF Polling, Remembers, Kinds, Snapshots!Kinds
<1>6. Knows'
  BY <1>2, <1>3 DEF Knows, Kinds, Snapshots!Kinds
<1> QED
  BY <1>2, <1>4, <1>5, <1>6 DEF ClientInv

\* A poll that ends without an answer leaves what was pushed and knows nothing.
LEMMA PollEnds ==
    ASSUME ClientInv, UNCHANGED <<client, changes, wire, socket, nudges, conn>>, cached' \in {"unknown", "none", "path"},
           lost' \in 0..MaxLost, NEW d \in BOOLEAN, Snapshots!Unavailable(d)
    PROVE  ClientInv'
PROOF
<1>1. ClientTypes /\ Polling /\ Remembers
  BY DEF ClientInv
<1>2. /\ poller' \in Memories /\ batch' \in Batches /\ told' = batch' /\ poll' = Snapshots!Idle
      /\ missed' = TRUE /\ answered' = answered /\ forgot' \subseteq Kinds \cup {"status"}
      /\ Remembers'
  BY <1>1, UnavailableIs
<1>3. Snapshots!Idle \in [at : {"idle", "discover", "phase"} \cup Kinds, pid : 0..MaxChanges, phase : Shown]
      /\ Snapshots!Idle.at = "idle"
  BY ClientBoundsAreNats DEF Snapshots!Idle, Shown
<1>4. ClientTypes'
  BY <1>1, <1>2, <1>3 DEF ClientTypes
<1>5. Polling'
  BY <1>2, <1>3 DEF Polling, Kinds, Snapshots!Kinds
<1> QED
  BY <1>2, <1>4, <1>5 DEF ClientInv, Knows, Fresh

LEMMA Discovers ==
    ASSUME ClientInv, Snapshots!Discover
    PROVE  ClientInv'
PROOF
<1> USE ClientBoundsAreNats
<1>1. ClientTypes /\ Polling /\ Remembers /\ Knows /\ missed \in BOOLEAN
  BY DEF ClientInv
<1>2. poll.at = "discover" /\ UNCHANGED <<client, changes, wire, socket, nudges, conn>>
  BY DEF Snapshots!Discover, Snapshots!clientVars, Snapshots!watchVars
<1>3. PICK c \in {"unknown", "none", "path"} :
        /\ Snapshots!Discovered(c)
        /\ cached' = c
        /\ lost' = IF c = "unknown" THEN lost + 1 ELSE lost
        /\ \/ /\ c = "unknown"
              /\ poll' = Snapshots!Idle /\ missed' = TRUE
              /\ UNCHANGED <<poller, batch, told, answered, forgot>>
           \/ Snapshots!Unavailable(TRUE)
           \/ /\ poll' = [at |-> "phase", pid |-> client.pid, phase |-> "None"]
              /\ poller' = IF poller.pid = client.pid THEN poller
                           ELSE Snapshots!Reset(poller, client.pid)
              /\ forgot' = IF poller.pid = client.pid THEN forgot
                           ELSE forgot \cup Snapshots!Remembered(poller)
              /\ UNCHANGED <<batch, told, answered, missed>>
  BY DEF Snapshots!Discover
<1>4. lost' \in 0..MaxLost
  <2>1. c = "unknown" => lost < MaxLost
    BY <1>1, <1>3 DEF Snapshots!Discovered
  <2> QED
    BY <1>1, <1>3, <2>1 DEF ClientTypes
<1>5. CASE poll' = Snapshots!Idle /\ missed' = TRUE /\ UNCHANGED <<poller, batch, told, answered, forgot>>
  <2>1. Snapshots!Idle \in [at : {"idle", "discover", "phase"} \cup Kinds, pid : 0..MaxChanges, phase : Shown]
        /\ Snapshots!Idle.at = "idle"
    BY DEF Snapshots!Idle, Shown
  <2>2. ClientTypes'
    BY <1>1, <1>2, <1>3, <1>4, <1>5, <2>1 DEF ClientTypes
  <2>3. Polling' /\ Remembers'
    BY <1>1, <1>2, <1>5, <2>1 DEF Polling, Remembers, Kinds, Snapshots!Kinds
  <2> QED
    BY <1>5, <2>2, <2>3 DEF ClientInv, Knows, Fresh
<1>6. CASE Snapshots!Unavailable(TRUE)
  BY <1>2, <1>3, <1>4, <1>6, PollEnds
<1>7. CASE /\ poll' = [at |-> "phase", pid |-> client.pid, phase |-> "None"]
           /\ poller' = IF poller.pid = client.pid THEN poller ELSE Snapshots!Reset(poller, client.pid)
           /\ forgot' = IF poller.pid = client.pid THEN forgot ELSE forgot \cup Snapshots!Remembered(poller)
           /\ UNCHANGED <<batch, told, answered, missed>>
  <2>1. poll' \in [at : {"idle", "discover", "phase"} \cup Kinds, pid : 0..MaxChanges, phase : Shown]
    BY <1>1, <1>7 DEF ClientTypes, Shown
  <2>2. answered = {}
    BY <1>1, <1>2 DEF Polling
  <2>3. CASE poller' = poller /\ forgot' = forgot
    <3>1. ClientTypes'
      BY <1>1, <1>2, <1>3, <1>4, <1>7, <2>1, <2>3 DEF ClientTypes
    <3>2. Polling' /\ Remembers' /\ Knows'
      BY <1>1, <1>7, <2>2, <2>3 DEF Polling, Remembers, Knows, Kinds, Snapshots!Kinds
    <3> QED
      BY <1>1, <1>7, <3>1, <3>2 DEF ClientInv
  <2>4. CASE poller' = Snapshots!Reset(poller, client.pid) /\ forgot' = forgot \cup Snapshots!Remembered(poller)
    <3>1. client.pid \in 0..MaxChanges
      BY <1>1 DEF ClientTypes
    <3>2. /\ poller' \in Memories /\ poller'.status = Snapshots!NoStatus
          /\ \A k \in Kinds : Of(poller', k) = 0
      BY <2>4, <3>1, NamesOfStatus DEF Snapshots!Reset, Snapshots!Unknown, Memories, Shown, Kinds, Snapshots!Kinds, Of
    <3>3. forgot' = forgot \cup {k \in Kinds : Of(poller, k) # 0}
                           \cup {k \in {"status"} : poller.status # Snapshots!NoStatus}
      BY <2>4 DEF Snapshots!Remembered, Kinds, Of
    <3>4. ClientTypes'
      BY <1>1, <1>2, <1>3, <1>4, <1>7, <2>1, <3>2, <3>3 DEF ClientTypes
    <3>5. Polling' /\ Knows'
      BY <1>1, <1>7, <2>2 DEF Polling, Knows, Kinds, Snapshots!Kinds
    <3>6. Remembers'
      BY <1>1, <1>7, <3>2, <3>3 DEF Remembers
    <3> QED
      BY <1>1, <1>7, <3>4, <3>5, <3>6 DEF ClientInv
  <2> QED
    BY <1>7, <2>3, <2>4
<1> QED
  BY <1>3, <1>5, <1>6, <1>7

\* The answer about the phase.
LEMMA PhaseAnswered ==
    ASSUME ClientInv, Snapshots!Gameflow
    PROVE  ClientInv'
PROOF
<1> USE ClientBoundsAreNats
<1>1. ClientTypes /\ Polling /\ Remembers /\ missed \in BOOLEAN
  BY DEF ClientInv
<1> DEFINE f == client.phase
           s == Snapshots!Status(f, FALSE)
           became == poller.available # "yes"
           p == [poller EXCEPT !.phase = f, !.available = "yes", !.status = IF became THEN s ELSE @]
           b0 == IF became THEN Snapshots!Pushed(batch, poller, "status", s) ELSE batch
           b == [b0 EXCEPT !.phase = f]
           c == Snapshots!Cleared(p, b, f)
<1>2. /\ poll.at = "phase" /\ poller' = c.poller /\ batch' = c.batch
      /\ forgot' = IF became \/ "lobby" \notin Plan(f) THEN forgot \ {"status"} ELSE forgot
      /\ Snapshots!Proceed("phase", f)
      /\ UNCHANGED <<client, changes, wire, socket, nudges, conn, cached, lost, answered, missed>>
  BY DEF Snapshots!Gameflow, Snapshots!clientVars, Snapshots!watchVars, Plan
<1>3. f \in Snapshots!Phases /\ f \in Shown /\ answered = {}
  BY <1>1, <1>2 DEF ClientTypes, Polling, Shown
<1>4. s \in Statuses /\ s # Snapshots!NoStatus
  BY <1>3, StatusIs
<1> HIDE DEF f, s
<1>5. /\ p \in Memories /\ p.available = "yes" /\ p.status = IF became THEN s ELSE poller.status
      /\ \A k \in Kinds : Of(p, k) = Of(poller, k)
  BY <1>1, <1>3, <1>4 DEF ClientTypes, Memories, Kinds, Snapshots!Kinds, Of
<1>6. /\ b0 \in Batches /\ \A k \in Kinds : Of(b0, k) = Of(batch, k)
      /\ b0.status = IF became /\ poller.status # s THEN s ELSE batch.status
  BY <1>1, <1>4, PushedStatus, PushedStatusIs DEF ClientTypes
<1> HIDE DEF p, b0
<1>7. /\ b \in Batches /\ b.phase = f /\ b.status = b0.status
      /\ \A k \in Kinds : Of(b, k) = Of(batch, k)
  BY <1>3, <1>6 DEF Batches, Kinds, Snapshots!Kinds, Of
<1> HIDE DEF b
<1> HIDE DEF c
<1>8. /\ poller' \in Memories /\ batch' \in Batches /\ poller'.available = "yes" /\ batch'.phase = f
      /\ \A k \in Kinds : /\ Of(poller', k) = IF k \in Plan(f) THEN Of(poller, k) ELSE 0
                          /\ Of(batch', k) = IF k \notin Plan(f) /\ Of(poller, k) # 0 THEN 0 ELSE Of(batch, k)
      /\ poller'.status = IF "lobby" \in Plan(f) THEN p.status ELSE s
      /\ batch'.status = IF "lobby" \in Plan(f) \/ p.status = s THEN b.status ELSE s
  <2>1. /\ poller' \in Memories /\ poller'.available = p.available
        /\ \A k \in Kinds : Of(poller', k) = IF k \in Plan(f) THEN Of(p, k) ELSE 0
        /\ poller'.status = IF "lobby" \in Plan(f) THEN p.status ELSE s
        /\ batch' \in Batches /\ batch'.phase = b.phase
        /\ \A k \in Kinds : Of(batch', k) = IF k \notin Plan(f) /\ Of(p, k) # 0 THEN 0 ELSE Of(b, k)
        /\ batch'.status = IF "lobby" \in Plan(f) \/ p.status = s THEN b.status ELSE s
    <3>1. poller' = Snapshots!Cleared(p, b, f).poller /\ batch' = Snapshots!Cleared(p, b, f).batch
      BY <1>2 DEF c
    <3>2. p \in Memories /\ b \in Batches
      BY <1>5, <1>7
    <3>3. IsCleared(p, b, f, poller', batch')
      BY <1>3, <3>1, <3>2, ClearedIs
    <3> QED
      BY <3>3 DEF IsCleared, s
  <2> QED
    BY <1>5, <1>7, <2>1
<1>9. /\ poll' \in [at : {"idle", "discover", "phase"} \cup Kinds, pid : 0..MaxChanges, phase : Shown]
      /\ \/ poll'.at = "idle" /\ told' = batch'
         \/ poll'.at \in Kinds /\ poll'.at \in Plan(f) /\ poll'.phase = f /\ told' = told
  BY <1>1, <1>2, <1>3, ProceedIs
<1>10. ClientTypes'
  BY <1>1, <1>2, <1>8, <1>9 DEF ClientTypes
<1>11. Polling'
  BY <1>8, <1>9 DEF Polling, Kinds, Snapshots!Kinds
<1>12. \A k \in Kinds : Of(poller', k) # 0 \/ k \notin forgot' => Of(batch', k) = Of(poller', k)
  <2>1. \A k \in Kinds : k \notin forgot' => k \notin forgot
    BY <1>2 DEF Kinds, Snapshots!Kinds
  <2> QED
    BY <1>1, <1>8, <2>1 DEF Remembers
<1>13. poller'.status # Snapshots!NoStatus => batch'.status = poller'.status
  BY <1>1, <1>5, <1>6, <1>7, <1>8 DEF Remembers
<1>14. poller'.status = Snapshots!NoStatus /\ "status" \notin forgot' => batch'.status = Snapshots!Offline
  BY <1>1, <1>2, <1>4, <1>5, <1>6, <1>7, <1>8 DEF Remembers
<1>15. Remembers'
  BY <1>8, <1>12, <1>13, <1>14 DEF Remembers
<1>16. Knows'
  <2>1. "idle" \notin Kinds /\ client'.phase = f /\ answered' = {}
    BY <1>2, <1>3 DEF Kinds, Snapshots!Kinds, f
  <2>2. "lobby" \notin Plan(f) => poller'.status = Snapshots!Status(client'.phase, FALSE)
    BY <1>2, <1>8 DEF f, s
  <2>3. \A k \in Kinds \ Plan(f) : Of(poller', k) = 0
    BY <1>8
  <2> QED
    BY <1>8, <1>9, <2>1, <2>2, <2>3 DEF Knows
<1> QED
  BY <1>1, <1>2, <1>10, <1>11, <1>15, <1>16 DEF ClientInv

LEMMA PhaseFails ==
    ASSUME ClientInv, Snapshots!GameflowFails
    PROVE  ClientInv'
PROOF
<1>1. /\ Snapshots!Unavailable(FALSE) /\ (lost' = lost \/ (lost < MaxLost /\ lost' = lost + 1))
      /\ UNCHANGED <<client, changes, wire, socket, nudges, conn, cached>>
  BY DEF Snapshots!GameflowFails, Snapshots!clientVars, Snapshots!watchVars
<1>2. lost' \in 0..MaxLost /\ cached' \in {"unknown", "none", "path"}
  BY <1>1, ClientBoundsAreNats DEF ClientInv, ClientTypes
<1> QED
  BY <1>1, <1>2, PollEnds

\* An answer about the ready check, the champion select or the party.
LEMMA Answers ==
    ASSUME ClientInv, NEW k \in Kinds, Snapshots!Ask(k)
    PROVE  ClientInv'
PROOF
<1>1. ClientTypes /\ Polling /\ Remembers /\ Knows /\ missed \in BOOLEAN
  BY DEF ClientInv
<1> DEFINE v == client.data[k]
           b == Snapshots!Pushed(batch, poller, k, v)
           s == Snapshots!Status(poll.phase, TRUE)
<1>2. /\ poll.at = k /\ v # 0
      /\ IF k = "lobby" THEN /\ poller' = [poller EXCEPT ![k] = v, !.status = s]
                             /\ batch' = Snapshots!Pushed(b, poller, "status", s)
                        ELSE poller' = [poller EXCEPT ![k] = v] /\ batch' = b
      /\ answered' = answered \cup {k}
      /\ forgot' = forgot \ (IF k = "lobby" THEN {k, "status"} ELSE {k})
      /\ Snapshots!Proceed(k, poll.phase)
      /\ UNCHANGED <<client, changes, wire, socket, nudges, conn, cached, lost, missed>>
  BY DEF Snapshots!Ask, Snapshots!clientVars, Snapshots!watchVars
<1>3. v \in 0..2 /\ poll.phase \in Shown /\ k \in Plan(poll.phase)
  BY <1>1, <1>2 DEF ClientTypes, Polling
<1>4. s \in Statuses /\ s # Snapshots!NoStatus
  BY <1>3, StatusIs
<1>5. poller.available = "yes"
  BY <1>1, <1>2 DEF Polling
<1> HIDE DEF s
<1>6. /\ poller' \in Memories /\ poller'.available = poller.available /\ Of(poller', k) = v
      /\ \A j \in Kinds \ {k} : Of(poller', j) = Of(poller, j)
      /\ poller'.status = IF k = "lobby" THEN s ELSE poller.status
  <2>1. poller \in Memories
    BY <1>1 DEF ClientTypes
  <2>2. CASE k = "lobby"
    BY <1>2, <1>3, <1>4, <2>1, <2>2 DEF Memories, Kinds, Snapshots!Kinds, Of
  <2>3. CASE k # "lobby"
    BY <1>2, <1>3, <1>4, <2>1, <2>3 DEF Memories, Kinds, Snapshots!Kinds, Of
  <2> QED
    BY <2>2, <2>3
<1>7. /\ b \in Batches /\ b.phase = batch.phase /\ b.status = batch.status
      /\ Of(b, k) = IF Of(poller, k) # v THEN v ELSE Of(batch, k)
      /\ \A j \in Kinds \ {k} : Of(b, j) = Of(batch, j)
  <2>1. batch \in Batches /\ poller \in Memories
    BY <1>1 DEF ClientTypes
  <2> HIDE DEF v
  <2> QED
    BY <1>3, <2>1, PushedKind, PushedKindIs
<1> HIDE DEF b
<1>8. /\ batch' \in Batches /\ batch'.phase = batch.phase /\ \A j \in Kinds : Of(batch', j) = Of(b, j)
      /\ batch'.status = IF k = "lobby" /\ poller.status # s THEN s ELSE batch.status
  <2>1. poller \in Memories
    BY <1>1 DEF ClientTypes
  <2>2. CASE k = "lobby"
    <3>1. batch' = Snapshots!Pushed(b, poller, "status", s)
      BY <1>2, <2>2 DEF b
    <3> QED
      BY <1>4, <1>7, <2>1, <2>2, <3>1, PushedStatus, PushedStatusIs
  <2>3. CASE k # "lobby"
    <3>1. batch' = b
      BY <1>2, <2>3 DEF b
    <3> QED
      BY <1>7, <2>3, <3>1
  <2> QED
    BY <2>2, <2>3
<1>9. /\ poll' \in [at : {"idle", "discover", "phase"} \cup Kinds, pid : 0..MaxChanges, phase : Shown]
      /\ \/ poll'.at = "idle" /\ told' = batch'
         \/ poll'.at \in Kinds /\ poll'.at \in Plan(poll.phase) /\ poll'.phase = poll.phase /\ told' = told
  BY <1>1, <1>2, <1>3, ProceedIs
<1> HIDE DEF v
<1>10. ClientTypes'
  BY <1>1, <1>2, <1>6, <1>8, <1>9 DEF ClientTypes
<1>11. Polling'
  BY <1>5, <1>6, <1>9 DEF Polling, Kinds, Snapshots!Kinds
<1>12. \A j \in Kinds : Of(poller', j) # 0 \/ j \notin forgot' => Of(batch', j) = Of(poller', j)
  <2>1. \A j \in Kinds \ {k} : j \notin forgot' => j \notin forgot
    BY <1>2 DEF Kinds, Snapshots!Kinds
  <2>2. Of(batch', k) = Of(poller', k)
    BY <1>1, <1>2, <1>6, <1>7, <1>8 DEF Remembers
  <2> QED
    BY <1>1, <1>6, <1>7, <1>8, <2>1, <2>2 DEF Remembers
<1>13. poller'.status # Snapshots!NoStatus => batch'.status = poller'.status
  BY <1>1, <1>4, <1>6, <1>8 DEF Remembers
<1>14. poller'.status = Snapshots!NoStatus /\ "status" \notin forgot' => batch'.status = Snapshots!Offline
  <2>1. CASE k = "lobby"
    BY <1>4, <1>6, <2>1
  <2>2. CASE k # "lobby"
    <3>1. "status" \notin forgot' => "status" \notin forgot
      BY <1>2, <2>2 DEF Kinds, Snapshots!Kinds
    <3> QED
      BY <1>1, <1>6, <1>8, <2>2, <3>1 DEF Remembers
  <2> QED
    BY <2>1, <2>2
<1>15. Remembers'
  BY <1>5, <1>6, <1>12, <1>13, <1>14 DEF Remembers
<1>16. Knows'
  <2> SUFFICES ASSUME Fresh
               PROVE  Knows'
    BY <1>2 DEF Knows, Fresh
  <2>1. poll.phase = client.phase /\ poll.at \in Kinds
    BY <1>1, <1>2 DEF Knows
  <2>2. \A j \in answered' : Of(poller', j) = client'.data[j] /\ Of(poller', j) # 0
    BY <1>1, <1>2, <1>6 DEF Knows, ClientTypes, v
  <2>3. "lobby" \in answered' => poller'.status = Snapshots!Status(client'.phase, TRUE)
    BY <1>1, <1>2, <1>6, <2>1 DEF Knows, s
  <2>4. batch'.phase = client'.phase /\ (poll'.at \in Kinds => poll'.phase = client'.phase)
    BY <1>1, <1>2, <1>8, <1>9, <2>1 DEF Knows, Kinds, Snapshots!Kinds
  <2>5. \A j \in Kinds \ Plan(client'.phase) : Of(poller', j) = 0
    BY <1>1, <1>2, <1>3, <1>6, <2>1 DEF Knows
  <2>6. "lobby" \notin Plan(client'.phase) => poller'.status = Snapshots!Status(client'.phase, FALSE)
    BY <1>1, <1>2, <1>3, <1>6, <2>1 DEF Knows
  <2> QED
    BY <2>2, <2>3, <2>4, <2>5, <2>6 DEF Knows
<1> QED
  BY <1>1, <1>2, <1>10, <1>11, <1>15, <1>16 DEF ClientInv

LEMMA AnswerFails ==
    ASSUME ClientInv, NEW k \in Kinds, Snapshots!AskFails(k)
    PROVE  ClientInv'
PROOF
<1>1. ClientTypes /\ Polling /\ Remembers /\ Knows /\ missed \in BOOLEAN
  BY DEF ClientInv
<1>2. /\ poll.at = k /\ batch' = batch /\ Snapshots!Proceed(k, poll.phase)
      /\ lost' = lost \/ (lost < MaxLost /\ lost' = lost + 1)
      /\ UNCHANGED <<client, changes, wire, socket, nudges, conn, cached, poller, answered, missed, forgot>>
  BY DEF Snapshots!AskFails, Snapshots!clientVars, Snapshots!watchVars
<1>3. poll.phase \in Shown
  BY <1>1 DEF ClientTypes
<1>4. /\ poll' \in [at : {"idle", "discover", "phase"} \cup Kinds, pid : 0..MaxChanges, phase : Shown]
      /\ \/ poll'.at = "idle" /\ told' = batch'
         \/ poll'.at \in Kinds /\ poll'.at \in Plan(poll.phase) /\ poll'.phase = poll.phase /\ told' = told
  BY <1>1, <1>2, <1>3, ProceedIs
<1>5. lost' \in 0..MaxLost
  BY <1>1, <1>2, ClientBoundsAreNats DEF ClientTypes
<1>6. ClientTypes'
  BY <1>1, <1>2, <1>4, <1>5 DEF ClientTypes
<1>7. Polling' /\ Remembers'
  BY <1>1, <1>2, <1>4 DEF Polling, Remembers, Kinds, Snapshots!Kinds
<1>8. Knows'
  <2>1. "idle" \notin Kinds
    BY DEF Kinds, Snapshots!Kinds
  <2> QED
    BY <1>1, <1>2, <1>4, <2>1 DEF Knows, Fresh
<1> QED
  BY <1>1, <1>2, <1>6, <1>7, <1>8 DEF ClientInv

LEMMA ClientStep == ASSUME ClientInv, Snapshots!Next PROVE ClientInv'
PROOF
  BY ClientMoves, WatcherMoves, ConnectionMoves, PollBegins, Discovers, PhaseAnswered, PhaseFails, Answers, AnswerFails
     DEF Snapshots!Next, Kinds

LEMMA ClientSafety == ASSUME ClientInv PROVE ClientSafe
PROOF
<1>1. ClientTypes /\ missed \in BOOLEAN /\ Polling /\ Remembers /\ Knows
  BY DEF ClientInv
<1>2. Snapshots!TypeOK
  <2>1. \A k \in Kinds : Of(poller, k) \in 0..2 /\ Of(batch, k) \in 0..2 /\ Of(told, k) \in 0..2
    BY <1>1 DEF ClientTypes, Memories, Batches, Kinds, Snapshots!Kinds, Of
  <2>2. poller.available \in {"unknown", "yes", "no"}
    BY <1>1 DEF ClientTypes, Memories
  <2>3. /\ client.pid \in 0..MaxChanges /\ client.phase \in Snapshots!Phases /\ client.data \in [Kinds -> 0..2]
        /\ socket.at \in {"off", "search", "connect", "open"} /\ socket.pid \in 0..MaxChanges
        /\ poll.at \in {"idle", "discover", "phase"} \cup Kinds
    BY <1>1 DEF ClientTypes
  <2> QED
    BY <1>1, <2>1, <2>2, <2>3 DEF ClientTypes, Snapshots!TypeOK, Kinds, Of
<1>3. Snapshots!BotKnowsClient
  <2> SUFFICES ASSUME Snapshots!Quiet
               PROVE  /\ told.phase = client.phase
                      /\ \A k \in Plan(client.phase) \cap answered : Of(told, k) = client.data[k]
                      /\ \A k \in Kinds \ (Plan(client.phase) \cup forgot) : Of(told, k) = 0
                      /\ "lobby" \notin Plan(client.phase) => told.status = Snapshots!Status(client.phase, FALSE)
                      /\ "lobby" \in Plan(client.phase) \cap answered => told.status = Snapshots!Status(client.phase, TRUE)
    BY DEF Snapshots!BotKnowsClient, Plan, Kinds, Of
  <2>1. Fresh /\ poll.at = "idle" /\ told = batch
    BY <1>1 DEF Fresh, Snapshots!Quiet, Polling
  <2>2. client.phase \in Shown /\ answered \subseteq Kinds
    BY <1>1 DEF ClientTypes, Shown
  <2>3. /\ Snapshots!Status(client.phase, FALSE) # Snapshots!NoStatus
        /\ Snapshots!Status(client.phase, TRUE) # Snapshots!NoStatus
    BY <2>2, StatusIs
  <2> QED
    BY <1>1, <2>1, <2>2, <2>3 DEF Knows, Remembers
<1>4. Snapshots!GoneIsTold
  BY <1>1 DEF Snapshots!GoneIsTold, Polling, Remembers
<1> QED
  BY <1>2, <1>3, <1>4 DEF ClientSafe

\* When the poller rests and no nudge is left, the Bot knows the client as far as
\* the last poll was answered, and a client found gone took its status back
\* (LcuEventPoller::poll, watch_socket), for any room in the channel of nudges and
\* any number of changes and faults.
THEOREM TheBotKnowsTheClient == Spec => []ClientSafe
PROOF
<1> DEFINE Inv == part = "client" => ClientInv
<1>1. Init => Inv
  BY ClientInit DEF Init
<1>2. Inv /\ [Next]_vars => Inv'
  <2> SUFFICES ASSUME Inv, [Next]_vars, part' = "client"
               PROVE  ClientInv'
    OBVIOUS
  <2>1. CASE ClientNext
    BY <2>1, ClientStep DEF ClientNext
  <2>2. CASE SessionNext \/ JournalNext \/ HeartbeatNext \/ CommandsNext
    BY <2>2 DEF SessionNext, JournalNext, HeartbeatNext, CommandsNext
  <2>3. CASE UNCHANGED vars
    <3>1. part = "client" /\ UNCHANGED clientVars
      BY <2>3 DEF vars
    <3>2. ClientInv
      BY <3>1
    <3>3. ClientTypes' /\ missed' \in BOOLEAN
      BY <3>1, <3>2 DEF clientVars, ClientInv, ClientTypes
    <3>4. Polling' /\ Remembers'
      BY <3>1, <3>2, PollerRests DEF clientVars, ClientInv
    <3>5. Knows'
      BY <3>1, <3>2 DEF clientVars, ClientInv, Knows, Fresh
    <3> QED
      BY <3>3, <3>4, <3>5 DEF ClientInv
  <2> QED
    BY <2>1, <2>2, <2>3 DEF Next
<1>3. Inv => ClientSafe
  BY ClientSafety DEF ClientSafe
<1> QED
  BY <1>1, <1>2, <1>3, PTL DEF Spec, vars
===============================================================================
