---------------------------- MODULE LiveDeltaProofs ----------------------------
(***************************************************************************)
(* Proofs about LiveDelta. First the lemmas about Kept, which is defined by *)
(* recursion over a sequence; then the type invariant; then Ordered, the    *)
(* inductive invariant behind Faithful and DeliveredInOrder: what Redis      *)
(* stores of a stream and everything below a frame being handled has been   *)
(* delivered.                                                               *)
(***************************************************************************)
EXTENDS LiveDelta, SequenceTheorems, WellFoundedInduction, TLAPS

USE CapacitiesArePositive, BoundsAreNats

-------------------------------------------------------------------------------
(* Induction over the natural numbers, for a set in place of a predicate.     *)

\* A set of natural numbers that is not empty has a least element.
LEMMA LeastExists ==
    ASSUME NEW T, T \subseteq Nat, T # {}
    PROVE  \E x \in T : \A y \in T : x <= y
PROOF
<1> DEFINE R == OpToRel(<, Nat)
<1>1. R = {ss \in Nat \X Nat : ss[1] < ss[2]}
  BY Zenon DEF OpToRel
<1>2. IsWellFoundedOn(R, Nat)
  BY NatLessThanWellFounded
<1> HIDE DEF R
<1>3. PICK x \in T : \A y \in T : <<y, x>> \notin R
  BY <1>2, WFMin, Zenon
<1>4. ASSUME NEW y \in T PROVE x <= y
  <2>1. <<y, x>> \notin R
    BY <1>3
  <2>2. ~(y < x)
    BY <1>1, <2>1
  <2> QED
    BY <2>2
<1> QED
  BY <1>3, <1>4

\* What holds of 0 and of the successor of every number it holds of.
LEMMA Induction ==
    ASSUME NEW S, 0 \in S, \A n \in Nat : n \in S => n + 1 \in S
    PROVE  Nat \subseteq S
PROOF
<1> SUFFICES ASSUME NEW k \in Nat, k \notin S
             PROVE  FALSE
  OBVIOUS
<1> DEFINE T == {n \in Nat : n \notin S}
<1>1. T \subseteq Nat /\ T # {}
  OBVIOUS
<1>2. PICK x \in T : \A y \in T : x <= y
  <2> HIDE DEF T
  <2> QED
    BY <1>1, LeastExists
<1>3. x # 0 /\ x - 1 \in Nat
  OBVIOUS
<1>4. x - 1 \in S
  BY <1>2, <1>3
<1>5. (x - 1) + 1 \in S
  BY <1>3, <1>4
<1> QED
  BY <1>5

-------------------------------------------------------------------------------
(* Kept                                                                       *)

\* The prefix of length n contributes k[n].
Filters(k, b, S, m) ==
    k = [n \in 0..m |->
            IF n = 0 THEN <<>>
            ELSE IF b[n] \in S THEN Append(k[n - 1], b[n]) ELSE k[n - 1]]

FirstOnes(b, n) == {b[i] : i \in 1..n}

\* There is such a function: the recursion of Kept defines something.
LEMMA FilterExists ==
    ASSUME NEW b, NEW S, NEW m \in Nat
    PROVE  \E k : Filters(k, b, S, m)
PROOF
<1> DEFINE G == {n \in Nat : \E k : Filters(k, b, S, n)}
<1>1. 0 \in G
  <2> DEFINE k == [n \in 0..0 |-> <<>>]
  <2>1. Filters(k, b, S, 0)
    BY DEF Filters
  <2> QED
    BY <2>1
<1>2. ASSUME NEW n \in Nat, n \in G PROVE n + 1 \in G
  <2>1. PICK k : Filters(k, b, S, n)
    BY <1>2
  <2> DEFINE l == [i \in 0..(n + 1) |->
                      IF i \in 0..n THEN k[i]
                      ELSE IF b[i] \in S THEN Append(k[n], b[i]) ELSE k[n]]
  <2>2. ASSUME NEW i \in 0..(n + 1)
        PROVE  l[i] = IF i = 0 THEN <<>>
                      ELSE IF b[i] \in S THEN Append(l[i - 1], b[i]) ELSE l[i - 1]
    <3>1. l[i] = IF i \in 0..n THEN k[i]
                 ELSE IF b[i] \in S THEN Append(k[n], b[i]) ELSE k[n]
      OBVIOUS
    <3>2. CASE i \in 0..n
      <4>1. l[i] = k[i] /\ (i # 0 => l[i - 1] = k[i - 1])
        BY <3>2
      <4>2. k[i] = IF i = 0 THEN <<>>
                   ELSE IF b[i] \in S THEN Append(k[i - 1], b[i]) ELSE k[i - 1]
        BY <2>1, <3>2 DEF Filters
      <4> HIDE DEF l
      <4> QED
        BY <4>1, <4>2, Zenon
    <3>3. CASE i \notin 0..n
      <4>1. i = n + 1 /\ i - 1 = n /\ i # 0
        BY <3>3
      <4>2. l[i - 1] = k[n]
        BY <4>1
      <4> HIDE DEF l
      <4> QED
        BY <3>1, <3>3, <4>1, <4>2
    <3> QED
      BY <3>2, <3>3
  <2>3. Filters(l, b, S, n + 1)
    <3> HIDE DEF l
    <3>1. l = [i \in 0..(n + 1) |-> l[i]]
      BY DEF l
    <3> QED
      BY <2>2, <3>1, Zenon DEF Filters
  <2> QED
    BY <2>3
<1>3. Nat \subseteq G
  <2> HIDE DEF G
  <2> QED
    BY <1>1, <1>2, Induction
<1> QED
  BY <1>3

LEMMA ElementsOfAppend ==
    ASSUME NEW A, NEW q \in Seq(A), NEW e \in A
    PROVE  Elements(Append(q, e)) = Elements(q) \cup {e}
PROOF
<1>1. Len(Append(q, e)) = Len(q) + 1 /\ Append(q, e)[Len(q) + 1] = e
  OBVIOUS
<1>2. ASSUME NEW i \in 1..Len(q) PROVE Append(q, e)[i] = q[i]
  OBVIOUS
<1>3. 1..(Len(q) + 1) = (1..Len(q)) \cup {Len(q) + 1}
  OBVIOUS
<1> DEFINE r == Append(q, e)
<1> HIDE DEF r
<1>4. {r[i] : i \in 1..Len(r)} = {r[i] : i \in 1..Len(q)} \cup {r[Len(q) + 1]}
  BY <1>1, <1>3 DEF r
<1>5. {r[i] : i \in 1..Len(q)} = {q[i] : i \in 1..Len(q)}
  BY <1>2 DEF r
<1> QED
  BY <1>1, <1>4, <1>5 DEF r, Elements

\* A filter keeps frames only, those in S, and makes nothing longer.
LEMMA FilterPrefix ==
    ASSUME NEW A, NEW b \in Seq(A), NEW S, NEW k, Filters(k, b, S, Len(b)), NEW n \in 0..Len(b)
    PROVE  /\ k[n] \in Seq(A) /\ Len(k[n]) <= n
           /\ Elements(k[n]) = FirstOnes(b, n) \cap S
PROOF
<1> DEFINE Good(i) == /\ k[i] \in Seq(A) /\ Len(k[i]) <= i
                      /\ Elements(k[i]) = FirstOnes(b, i) \cap S
           G == {i \in Nat : i <= Len(b) => Good(i)}
<1>1. 0 \in G
  <2>1. 0 \in 0..Len(b) /\ k[0] = <<>>
    BY DEF Filters
  <2>2. FirstOnes(b, 0) = {} /\ Elements(<<>>) = {}
    BY DEF Elements, FirstOnes
  <2>3. Good(0)
    BY <2>1, <2>2
  <2> QED
    BY <2>3
<1>2. ASSUME NEW i \in Nat, i \in G PROVE i + 1 \in G
  <2> SUFFICES ASSUME i + 1 <= Len(b)
               PROVE  Good(i + 1)
    OBVIOUS
  <2>1. Good(i)
    BY <1>2
  <2>2. k[i + 1] = IF b[i + 1] \in S THEN Append(k[i], b[i + 1]) ELSE k[i]
    <3>1. i + 1 \in 0..Len(b) /\ i + 1 # 0 /\ (i + 1) - 1 = i
      OBVIOUS
    <3> QED
      BY <3>1 DEF Filters
  <2>3. FirstOnes(b, i + 1) = FirstOnes(b, i) \cup {b[i + 1]}
    BY DEF FirstOnes
  <2>4. b[i + 1] \in A
    OBVIOUS
  <2>5. CASE b[i + 1] \in S
    <3>1. Elements(Append(k[i], b[i + 1])) = Elements(k[i]) \cup {b[i + 1]}
      BY <2>1, <2>4, ElementsOfAppend
    <3> QED
      BY <2>1, <2>2, <2>3, <2>4, <2>5, <3>1
  <2>6. CASE b[i + 1] \notin S
    BY <2>1, <2>2, <2>3, <2>6
  <2> QED
    BY <2>5, <2>6
<1>3. Nat \subseteq G
  <2> HIDE DEF G
  <2> QED
    BY <1>1, <1>2, Induction
<1>4. n \in Nat /\ n <= Len(b)
  OBVIOUS
<1> QED
  BY <1>3, <1>4

\* What retain does: exactly the elements in S are left, none twice as often.
LEMMA KeptElements ==
    ASSUME NEW A, NEW b \in Seq(A), NEW S
    PROVE  /\ Kept(b, S) \in Seq(A) /\ Len(Kept(b, S)) <= Len(b)
           /\ Elements(Kept(b, S)) = Elements(b) \cap S
PROOF
<1> DEFINE k == CHOOSE k : Filters(k, b, S, Len(b))
<1>1. Filters(k, b, S, Len(b))
  <2>1. Len(b) \in Nat
    OBVIOUS
  <2> QED
    BY <2>1, FilterExists
<1>2. Kept(b, S) = k[Len(b)]
  BY DEF Kept, Filters
<1> HIDE DEF k
<1>3. Len(b) \in 0..Len(b)
  OBVIOUS
<1>4. /\ k[Len(b)] \in Seq(A) /\ Len(k[Len(b)]) <= Len(b)
      /\ Elements(k[Len(b)]) = FirstOnes(b, Len(b)) \cap S
  BY <1>1, <1>3, FilterPrefix
<1> QED
  BY <1>2, <1>4 DEF Elements, FirstOnes

-------------------------------------------------------------------------------
(* Types                                                                      *)

\* A handler has a frame in its hands exactly while it works on one: without
\* this the types would not be kept.
Working == \A c \in Conns : current[c] # None <=> phase[c] \in {"api", "commit"}

\* Frames are never None, and no message is lost track of by its type.
LEMMA NoneIsNoFrame == None \notin Frames
PROOF
  BY NoneIsNew

LEMMA TrackedIsTyped ==
    ASSUME NEW b \in Seq(Frames), Len(b) <= Capacity, NEW f \in Frames
    PROVE  Tracked(b, f) \in Seq(Frames) /\ Len(Tracked(b, f)) <= Capacity
PROOF
  BY DEF Tracked

\* What the channel to the agent holds after the handler of c has spoken.
LEMMA TellIsTyped ==
    ASSUME toAgent \in Seq(Messages), NEW c, NEW m \in Messages, Tell(c, m)
    PROVE  toAgent' \in Seq(Messages)
PROOF
  BY DEF Tell

LEMMA SendIsTyped ==
    ASSUME toRelay \in [Conns -> Seq(Frames)], NEW c \in Conns, NEW q \in Seq(Frames), Send(c, q)
    PROVE  toRelay' \in [Conns -> Seq(Frames)]
PROOF
<1>1. toRelay[c] \o q \in Seq(Frames)
  OBVIOUS
<1> QED
  BY <1>1 DEF Send

LEMMA TypeInit == Init => TypeOK
PROOF
<1> SUFFICES ASSUME Init
             PROVE  TypeOK
  OBVIOUS
<1> USE DEF Init
<1>1. batches \in Seq(Frames) /\ Len(batches) <= BatchCap /\ buffer \in Seq(Frames) /\ Len(buffer) <= Capacity
  OBVIOUS
<1>2. toRelay \in [Conns -> Seq(Frames)] /\ toAgent \in Seq(Messages)
  OBVIOUS
<1>3. rebuilt \in [Conns -> 0..Torn] /\ baseSeq \in [Streams -> 0..MaxSeq] /\ baseState \in [Streams -> 0..Torn]
  BY DEF Torn
<1>4. stream \in 0..MaxStreams /\ seq \in 0..MaxSeq /\ started \in 0..MaxStreams
  OBVIOUS
<1>5. resyncs \in 0..ResyncCap /\ faults \in 0..MaxFaults
  OBVIOUS
<1>8. stuck \in BOOLEAN
  OBVIOUS
<1>6. current \in [Conns -> Frames \cup {None}] /\ phase \in [Conns -> {"none", "idle", "api", "commit"}]
  OBVIOUS
<1>7. /\ conn \in Conns \cup {None} /\ routed \in Conns \cup {None} /\ held \in Frames \cup {None}
      /\ skipped \subseteq Frames /\ blocked \subseteq Streams /\ delivered \subseteq Frames
  OBVIOUS
<1> HIDE DEF Init
<1> QED
  BY <1>1, <1>2, <1>3, <1>4, <1>5, <1>6, <1>7, <1>8 DEF TypeOK

LEMMA PollerTyped == ASSUME TypeOK, Poller PROVE TypeOK'
PROOF
<1> USE DEF TypeOK, redis, relay, agent, poller
<1>1. CASE Capture
  <2>1. NextFrame \in Frames /\ NextFrame[1] \in Streams /\ NextFrame[2] \in 1..MaxSeq
    BY <1>1 DEF Capture, Frames
  <2>2. started' \in 0..MaxStreams
    BY <1>1, <2>1 DEF Capture, NextFrame, Streams
  <2>3. stream' \in 0..MaxStreams /\ seq' \in 0..MaxSeq /\ held' \in Frames \cup {None}
    <3>1. held' = NextFrame /\ stream' = NextFrame[1] /\ seq' = NextFrame[2]
      BY <1>1 DEF Capture
    <3> HIDE DEF TypeOK, NextFrame
    <3> QED
      BY <2>1, <3>1 DEF Streams
  <2> QED
    BY <1>1, <2>2, <2>3 DEF Capture
<1>2. CASE SendBatch
  <2>1. held \in Frames
    BY <1>2 DEF SendBatch
  <2> QED
    BY <1>2, <2>1 DEF SendBatch
<1>3. CASE ForceResync
  BY <1>3 DEF ForceResync
<1> QED
  BY <1>1, <1>2, <1>3 DEF Poller

LEMMA DropTyped ==
    ASSUME TypeOK, NEW s, DropStream(s)
    PROVE  /\ buffer' \in Seq(Frames) /\ Len(buffer') <= Capacity
           /\ resyncs' \in 0..ResyncCap /\ stuck' \in BOOLEAN
PROOF
<1>1. buffer \in Seq(Frames) /\ Len(buffer) <= Capacity
  BY DEF TypeOK
<1>2. buffer' \in Seq(Frames) /\ Len(buffer') <= Len(buffer)
  BY <1>1, KeptElements DEF DropStream
<1>3. resyncs' \in 0..ResyncCap /\ stuck' \in BOOLEAN
  <2>1. resyncs \in Nat /\ resyncs <= ResyncCap /\ ResyncCap \in Nat /\ stuck \in BOOLEAN
    BY DEF TypeOK
  <2>2. CASE resyncs < ResyncCap
    BY <2>1, <2>2 DEF DropStream, SignalPoller
  <2>3. CASE ~(resyncs < ResyncCap)
    BY <2>1, <2>3 DEF DropStream, SignalPoller
  <2> QED
    BY <2>2, <2>3
<1> QED
  BY <1>1, <1>2, <1>3

LEMMA DisconnectedTyped ==
    ASSUME TypeOK, Disconnected
    PROVE  /\ conn' \in Conns \cup {None}
           /\ stream' \in 0..MaxStreams /\ seq' \in 0..MaxSeq /\ started' \in 0..MaxStreams
           /\ held' \in Frames \cup {None}
           /\ batches' \in Seq(Frames) /\ Len(batches') <= BatchCap
           /\ resyncs' \in 0..ResyncCap /\ stuck' \in BOOLEAN
           /\ toAgent' \in Seq(Messages)
           /\ buffer' \in Seq(Frames) /\ Len(buffer') <= Capacity /\ skipped' \subseteq Frames
PROOF
<1>1. batches' \in Seq(Frames) /\ Len(batches') <= BatchCap /\ toAgent' \in Seq(Messages)
  BY DEF Disconnected
<1>2. buffer' \in Seq(Frames) /\ Len(buffer') <= Capacity /\ skipped' \subseteq Frames
  BY DEF Disconnected, TypeOK
<1>3. /\ conn' \in Conns \cup {None} /\ held' \in Frames \cup {None}
      /\ stream' \in 0..MaxStreams /\ seq' \in 0..MaxSeq /\ started' \in 0..MaxStreams
      /\ resyncs' \in 0..ResyncCap
  BY DEF Disconnected, TypeOK
<1>4. stuck' \in BOOLEAN
  BY DEF Disconnected
<1> QED
  BY <1>1, <1>2, <1>3, <1>4

LEMMA MessageTyped ==
    ASSUME TypeOK, NEW type, Message(type)
    PROVE  Head(toAgent) \in Messages /\ toAgent' \in Seq(Messages) /\ conn \in Conns
PROOF
<1>1. toAgent \in Seq(Messages) /\ toAgent # <<>> /\ toAgent' = Tail(toAgent)
  BY DEF TypeOK, Message
<1>2. conn \in Conns
  BY DEF Message, Running, TypeOK
<1> HIDE DEF Messages
<1> QED
  BY <1>1, <1>2
LEMMA SupervisorTyped == ASSUME TypeOK, Supervisor PROVE TypeOK'
PROOF
<1> USE DEF redis, relay, agent, poller
<1>1. CASE Track
  <2>1. batches \in Seq(Frames) /\ batches # <<>> /\ Len(batches) <= BatchCap /\ conn \in Conns
    BY <1>1 DEF Track, Running, TypeOK
  <2>2. Head(batches) \in Frames /\ Tail(batches) \in Seq(Frames) /\ Len(Tail(batches)) <= BatchCap
    BY <2>1
  <2>3. buffer' \in Seq(Frames) /\ Len(buffer') <= Capacity
    BY <1>1, <2>2, TrackedIsTyped DEF Track, TypeOK
  <2>4. <<Head(batches)>> \in Seq(Frames)
    BY <2>2
  <2>5. toRelay' \in [Conns -> Seq(Frames)]
    BY <1>1, <2>1, <2>4, SendIsTyped DEF Track, TypeOK
  <2> QED
    BY <1>1, <2>2, <2>3, <2>5 DEF Track, TypeOK
<1>2. CASE SkipOversized
  <2>1. batches \in Seq(Frames) /\ batches # <<>> /\ Len(batches) <= BatchCap
    BY <1>2 DEF SkipOversized, TypeOK
  <2>2. Head(batches) \in Frames /\ Tail(batches) \in Seq(Frames) /\ Len(Tail(batches)) <= BatchCap
    BY <2>1
  <2>3. faults' \in 0..MaxFaults
    BY <1>2 DEF SkipOversized, Fault, TypeOK
  <2> QED
    BY <1>2, <2>2, <2>3 DEF SkipOversized, TypeOK
<1>3. CASE Tick
  <2>1. conn \in Conns
    BY <1>3 DEF Tick, Running, TypeOK
  <2>2. toRelay' \in [Conns -> Seq(Frames)]
    BY <1>3, <2>1, SendIsTyped DEF Tick, TypeOK
  <2> QED
    BY <1>3, <2>2 DEF Tick, TypeOK
<1>4. CASE AckReceived
  <2>1. toAgent' \in Seq(Messages)
    BY <1>4, MessageTyped DEF AckReceived
  <2>2. buffer' \in Seq(Frames) /\ Len(buffer') <= Capacity
    <3>1. buffer \in Seq(Frames) /\ Len(buffer) <= Capacity
      BY DEF TypeOK
    <3>2. buffer' \in Seq(Frames) /\ Len(buffer') <= Len(buffer)
      BY <1>4, <3>1, KeptElements DEF AckReceived
    <3> QED
      BY <3>1, <3>2
  <2> QED
    BY <1>4, <2>1, <2>2 DEF AckReceived, TypeOK
<1>5. CASE ResendReceived
  <2>1. toAgent' \in Seq(Messages) /\ conn \in Conns
    BY <1>5, MessageTyped DEF ResendReceived
  <2> DEFINE m == Head(toAgent)
             range == LiveRange(m.stream, m.from, m.to)
  <2>2. /\ \/ Send(conn, range) /\ UNCHANGED <<buffer, resyncs, stuck>>
           \/ DropStream(m.stream) /\ UNCHANGED toRelay
        /\ UNCHANGED <<conn, poller, batches, skipped, relay, redis, faults>>
    BY <1>5 DEF ResendReceived
  <2> HIDE DEF m
  <2>3. CASE Send(conn, range) /\ UNCHANGED <<buffer, resyncs, stuck>>
    <3>1. range \in Seq(Frames)
      <4>1. buffer \in Seq(Frames)
        BY DEF TypeOK
      <4> QED
        BY <4>1, KeptElements DEF LiveRange
    <3> HIDE DEF range
    <3>2. toRelay' \in [Conns -> Seq(Frames)]
      BY <2>1, <2>3, <3>1, SendIsTyped DEF TypeOK
    <3> QED
      BY <2>1, <2>2, <2>3, <3>2 DEF TypeOK
  <2>4. CASE DropStream(m.stream) /\ UNCHANGED toRelay
    <3>1. /\ buffer' \in Seq(Frames) /\ Len(buffer') <= Capacity
          /\ resyncs' \in 0..ResyncCap /\ stuck' \in BOOLEAN
      BY <2>4, DropTyped
    <3> QED
      BY <2>1, <2>2, <2>4, <3>1 DEF TypeOK
  <2> QED
    BY <2>2, <2>3, <2>4
<1>6. CASE ResyncReceived
  <2>1. toAgent' \in Seq(Messages)
    BY <1>6, MessageTyped DEF ResyncReceived
  <2>2. /\ buffer' \in Seq(Frames) /\ Len(buffer') <= Capacity
        /\ resyncs' \in 0..ResyncCap /\ stuck' \in BOOLEAN
    BY <1>6, DropTyped DEF ResyncReceived
  <2> QED
    BY <1>6, <2>1, <2>2 DEF ResyncReceived, TypeOK
<1>7. CASE Unstuck
  <2>1. resyncs' \in 0..ResyncCap
    BY <1>7 DEF Unstuck, TypeOK
  <2>2. stuck' \in BOOLEAN
    BY <1>7 DEF Unstuck
  <2>3. UNCHANGED <<conn, poller, batches, buffer, skipped, toRelay, toAgent, relay, redis, faults>>
    BY <1>7 DEF Unstuck
  <2> QED
    BY <2>1, <2>2, <2>3 DEF TypeOK
<1>8. CASE Disconnect
  <2>1. faults' \in 0..MaxFaults
    BY <1>8 DEF Disconnect, Fault, TypeOK
  <2>2. Disconnected /\ UNCHANGED <<toRelay, relay, redis>>
    BY <1>8 DEF Disconnect
  <2> QED
    BY <2>1, <2>2, DisconnectedTyped DEF TypeOK
<1>9. CASE HardRevive
  <2>1. Disconnected /\ UNCHANGED <<toRelay, relay, redis, faults>>
    BY <1>9 DEF HardRevive
  <2> QED
    BY <2>1, DisconnectedTyped DEF TypeOK
<1> QED
  BY <1>1, <1>2, <1>3, <1>4, <1>5, <1>6, <1>7, <1>8, <1>9 DEF Supervisor
LEMMA StatusIs ==
    ASSUME TypeOK, NEW f \in Frames
    PROVE  /\ Status(f) = "ready" => f[2] = 1 \/ f[2] = baseSeq[f[1]] + 1
           /\ Status(f) = "gap" => baseSeq[f[1]] < f[2]
           /\ Status(f) = "duplicate" => f[2] <= baseSeq[f[1]]
           /\ f[1] \in Streams /\ f[2] \in 1..MaxSeq /\ baseSeq[f[1]] \in 0..MaxSeq
PROOF
  BY DEF Status, Frames, TypeOK

LEMMA RebuildTyped == ASSUME NEW f \in Frames PROVE Rebuild(f) \in 0..Torn
PROOF
  BY DEF Rebuild, Torn, Frames

LEMMA AnswersTyped ==
    ASSUME TypeOK, NEW f \in Frames
    PROVE  /\ Ack(f) \in Messages /\ Resync(f[1]) \in Messages
           /\ Status(f) = "gap" => Resend(f[1], baseSeq[f[1]] + 1, f[2]) \in Messages
PROOF
<1>1. f[1] \in Streams /\ f[2] \in 1..MaxSeq
  BY DEF Frames
<1>2. Status(f) = "gap" => baseSeq[f[1]] + 1 \in 1..MaxSeq
  BY StatusIs, <1>1
<1> QED
  BY <1>1, <1>2 DEF Messages

LEMMA HandlerTyped == ASSUME TypeOK, Working, NEW c \in Conns, Handler(c) PROVE TypeOK'
PROOF
<1> USE DEF redis, agent, poller
<1>1. CASE Receive(c)
  <2> DEFINE f == Head(toRelay[c])
  <2>1. f \in Frames /\ toRelay' \in [Conns -> Seq(Frames)]
    <3>1. toRelay[c] \in Seq(Frames) /\ toRelay[c] # <<>> /\ toRelay' = [toRelay EXCEPT ![c] = Tail(@)]
      BY <1>1 DEF Receive, TypeOK
    <3> QED
      BY <3>1 DEF TypeOK
  <2>2. \/ UNCHANGED <<phase, current, rebuilt, toAgent>>
        \/ Tell(c, Ack(f)) /\ UNCHANGED <<phase, current, rebuilt>>
        \/ /\ Status(f) = "gap" /\ Tell(c, Resend(f[1], baseSeq[f[1]] + 1, f[2]))
           /\ UNCHANGED <<phase, current, rebuilt>>
        \/ Tell(c, Resync(f[1])) /\ UNCHANGED <<phase, current, rebuilt>>
        \/ /\ phase' = [phase EXCEPT ![c] = "api"] /\ current' = [current EXCEPT ![c] = f]
           /\ rebuilt' = [rebuilt EXCEPT ![c] = Rebuild(f)] /\ UNCHANGED toAgent
    BY <1>1 DEF Receive, Move
  <2>3. UNCHANGED <<conn, agent, routed, delivered, redis, faults>>
    BY <1>1 DEF Receive
  <2> HIDE DEF f
  <2>4. toAgent' \in Seq(Messages)
    BY <2>1, <2>2, AnswersTyped, TellIsTyped DEF TypeOK
  <2>5. /\ phase' \in [Conns -> {"none", "idle", "api", "commit"}]
        /\ current' \in [Conns -> Frames \cup {None}] /\ rebuilt' \in [Conns -> 0..Torn]
    BY <2>1, <2>2, RebuildTyped DEF TypeOK
  <2> QED
    BY <2>1, <2>3, <2>4, <2>5 DEF TypeOK
<1>2. CASE Deliver(c)
  <2>1. phase' \in [Conns -> {"none", "idle", "api", "commit"}]
    BY <1>2 DEF Deliver, Move, TypeOK
  <2>2. delivered' \subseteq Frames
    BY <1>2 DEF Deliver, TypeOK, Working
  <2> QED
    BY <1>2, <2>1, <2>2 DEF Deliver, TypeOK
<1>3. ASSUME Finish(c)
      PROVE  /\ phase' \in [Conns -> {"none", "idle", "api", "commit"}]
             /\ current' \in [Conns -> Frames \cup {None}] /\ rebuilt' \in [Conns -> 0..Torn]
  BY <1>3 DEF Finish, Move, TypeOK, Torn
<1>4. phase[c] \in {"api", "commit"} => current[c] \in Frames /\ current[c][1] \in Streams /\ current[c][2] \in 1..MaxSeq
  BY DEF Working, TypeOK, Frames
<1>5. CASE NotHandled(c)
  <2>1. delivered' \subseteq Frames /\ blocked' \subseteq Streams /\ faults' \in 0..MaxFaults
    BY <1>4, <1>5 DEF NotHandled, Fault, TypeOK
  <2>2. Finish(c) /\ UNCHANGED <<conn, agent, toRelay, toAgent, routed, baseSeq, baseState>>
    BY <1>5 DEF NotHandled
  <2> QED
    BY <1>3, <2>1, <2>2 DEF TypeOK
<1>6. CASE Commit(c)
  <2> DEFINE f == current[c]
  <2>1. /\ baseSeq' = [baseSeq EXCEPT ![f[1]] = f[2]] /\ baseState' = [baseState EXCEPT ![f[1]] = rebuilt[c]]
        /\ blocked' = blocked \ {f[1]} /\ Tell(c, Ack(f)) /\ Finish(c)
        /\ UNCHANGED <<conn, agent, toRelay, routed, delivered, faults>>
    BY <1>6 DEF Commit
  <2>2. f \in Frames /\ f[1] \in Streams /\ f[2] \in 1..MaxSeq
    BY <1>4, <1>6 DEF Commit
  <2> HIDE DEF f
  <2>3. baseSeq' \in [Streams -> 0..MaxSeq] /\ baseState' \in [Streams -> 0..Torn] /\ blocked' \subseteq Streams
    <3>1. rebuilt[c] \in 0..Torn /\ f[2] \in 0..MaxSeq
      BY <2>2 DEF TypeOK
    <3>2. baseSeq' \in [Streams -> 0..MaxSeq]
      BY <2>1, <2>2, <3>1 DEF TypeOK
    <3>3. baseState' \in [Streams -> 0..Torn] /\ blocked' \subseteq Streams
      BY <2>1, <2>2, <3>1 DEF TypeOK
    <3> QED
      BY <3>2, <3>3
  <2>4. toAgent' \in Seq(Messages)
    BY <2>1, <2>2, AnswersTyped, TellIsTyped DEF TypeOK
  <2> QED
    BY <1>3, <2>1, <2>3, <2>4 DEF TypeOK
<1> QED
  BY <1>1, <1>2, <1>5, <1>6 DEF Handler

LEMMA ConnectionTyped ==
    ASSUME TypeOK, NEW c \in Conns, Connect(c) \/ HandlerEnd(c)
    PROVE  TypeOK'
PROOF
<1> USE DEF redis, agent, poller
<1>1. CASE Connect(c)
  <2>1. toRelay' \in [Conns -> Seq(Frames)]
    BY <1>1, SendIsTyped DEF Connect, TypeOK
  <2> QED
    BY <1>1, <2>1 DEF Connect, TypeOK
<1>2. CASE HandlerEnd(c)
  BY <1>2 DEF HandlerEnd, Move, TypeOK
<1> QED
  BY <1>1, <1>2

LEMMA EnvironmentTyped ==
    ASSUME TypeOK, RelayRestart \/ \E s \in Streams : Expire(s) \/ Unblock(s)
    PROVE  TypeOK'
PROOF
<1> USE DEF redis, agent, poller, relay
<1>1. CASE RelayRestart
  <2>1. /\ toRelay' \in [Conns -> Seq(Frames)] /\ routed' \in Conns \cup {None}
        /\ phase' \in [Conns -> {"none", "idle", "api", "commit"}]
        /\ current' \in [Conns -> Frames \cup {None}] /\ rebuilt' \in [Conns -> 0..Torn]
        /\ faults' \in 0..MaxFaults
    BY <1>1 DEF RelayRestart, Fault, TypeOK, Torn
  <2>2. Disconnected /\ UNCHANGED <<delivered, redis>>
    BY <1>1 DEF RelayRestart
  <2> QED
    BY <2>1, <2>2, DisconnectedTyped DEF TypeOK
<1>2. ASSUME NEW s \in Streams, Expire(s) PROVE TypeOK'
  <2>1. baseSeq' \in [Streams -> 0..MaxSeq]
    BY <1>2 DEF Expire, TypeOK
  <2>2. baseState' \in [Streams -> 0..Torn]
    BY <1>2 DEF Expire, TypeOK, Torn
  <2>3. faults' \in 0..MaxFaults
    BY <1>2 DEF Expire, Fault, TypeOK
  <2> QED
    BY <1>2, <2>1, <2>2, <2>3 DEF Expire, TypeOK
<1>3. ASSUME NEW s \in Streams, Unblock(s) PROVE TypeOK'
  BY <1>3 DEF Unblock, TypeOK
<1> QED
  BY <1>1, <1>2, <1>3

LEMMA WorkingKept == ASSUME TypeOK, Working, Next PROVE Working'
PROOF
<1> USE DEF Working, TypeOK, Frames
<1>1. ASSUME UNCHANGED <<phase, current>> PROVE Working'
  BY <1>1
<1>2. CASE Poller
  BY <1>1, <1>2 DEF Poller, Capture, SendBatch, ForceResync, relay
<1>3. CASE Supervisor
  BY <1>1, <1>3 DEF Supervisor, Track, SkipOversized, Tick, AckReceived, ResendReceived,
                    ResyncReceived, Unstuck, Disconnect, HardRevive, relay
<1>4. CASE RelayRestart
  BY <1>4 DEF RelayRestart
<1>5. ASSUME NEW c \in Conns, Connect(c) \/ HandlerEnd(c) PROVE Working'
  BY <1>5 DEF Connect, HandlerEnd, Move
<1>6. ASSUME NEW c \in Conns, Handler(c) PROVE Working'
  <2>1. CASE Receive(c)
    <3> DEFINE f == Head(toRelay[c])
    <3>1. \/ UNCHANGED <<phase, current>>
          \/ phase' = [phase EXCEPT ![c] = "api"] /\ current' = [current EXCEPT ![c] = f]
      BY <2>1 DEF Receive, Move
    <3>2. f \in Frames
      BY <2>1 DEF Receive
    <3> HIDE DEF f
    <3> QED
      BY <3>1, <3>2, NoneIsNoFrame
  <2>2. CASE Deliver(c)
    BY <2>2 DEF Deliver, Move
  <2>3. CASE NotHandled(c)
    BY <2>3 DEF NotHandled, Finish, Move
  <2>4. CASE Commit(c)
    BY <2>4 DEF Commit, Finish, Move
  <2> QED
    BY <1>6, <2>1, <2>2, <2>3, <2>4 DEF Handler
<1>7. ASSUME NEW s \in Streams, Expire(s) \/ Unblock(s) PROVE Working'
  BY <1>1, <1>7 DEF Expire, Unblock, relay
<1> QED
  BY <1>2, <1>3, <1>4, <1>5, <1>6, <1>7 DEF Next
\* The types and what they rest on are kept by every step.
LEMMA TypesKept == ASSUME TypeOK, Working, [Next]_vars PROVE TypeOK' /\ Working'
PROOF
<1>1. CASE Next
  BY <1>1, PollerTyped, SupervisorTyped, HandlerTyped, ConnectionTyped, EnvironmentTyped, WorkingKept DEF Next
<1>2. CASE UNCHANGED vars
  BY <1>2 DEF vars, agent, poller, relay, redis, TypeOK, Working
<1> QED
  BY <1>1, <1>2

-------------------------------------------------------------------------------
(* What has been delivered                                                    *)

\* Everything below a frame of its stream.
Behind(f) == \A m \in 1..(f[2] - 1) : <<f[1], m>> \in delivered

\* The seq Redis keeps is not ahead of the API, frame by frame: the API may
\* be ahead of Redis, and Redis may forget.
Stored == \A s \in Streams : \A m \in 1..baseSeq[s] : <<s, m>> \in delivered

\* A handler works on a frame the API is ready for, and commits one it has.
InOrder ==
    \A c \in Conns :
        /\ current[c] # None => Behind(current[c])
        /\ phase[c] = "commit" => current[c] \in delivered

\* The ACKs on their way, message by message.
AcksSafe ==
    \A i \in 1..Len(toAgent) :
        toAgent[i].type = "event_ack" => toAgent[i].frame \in delivered

Ordered == Faithful /\ Stored /\ InOrder /\ NoHoles /\ AcksSafe

LEMMA AcksAreAcknowledged == AcksSafe <=> AckedWasDelivered
PROOF
  BY DEF AcksSafe, AckedWasDelivered, Acknowledged

LEMMA OrderedInit == Init => Ordered
PROOF
<1> SUFFICES ASSUME Init
             PROVE  Ordered
  OBVIOUS
<1>1. Faithful /\ Stored /\ NoHoles
  BY DEF Init, Faithful, Stored, NoHoles
<1>2. InOrder /\ AcksSafe
  BY DEF Init, InOrder, AcksSafe
<1> QED
  BY <1>1, <1>2 DEF Ordered

\* Nothing that is delivered is taken back, and a message that goes is the
\* first one.
LEMMA QuietStep ==
    ASSUME TypeOK, Ordered, UNCHANGED <<rebuilt, current, phase, delivered, baseSeq, baseState>>,
           toAgent' = toAgent \/ toAgent' = <<>> \/ (toAgent # <<>> /\ toAgent' = Tail(toAgent))
    PROVE  Ordered'
PROOF
<1>1. AcksSafe'
  <2>1. toAgent \in Seq(Messages)
    BY DEF TypeOK
  <2>2. CASE toAgent # <<>> /\ toAgent' = Tail(toAgent)
    <3>1. Len(toAgent') = Len(toAgent) - 1 /\ \A i \in 1..Len(toAgent') : toAgent'[i] = toAgent[i + 1]
      <4> HIDE DEF Messages
      <4> QED
        BY <2>1, <2>2
    <3>2. Len(toAgent) \in Nat
      BY <2>1
    <3> QED
      BY <3>1, <3>2 DEF Ordered, AcksSafe
  <2> QED
    BY <2>2 DEF Ordered, AcksSafe
<1>2. Faithful' /\ Stored' /\ InOrder' /\ NoHoles'
  BY DEF Ordered, Faithful, Stored, InOrder, Behind, NoHoles
<1> QED
  BY <1>1, <1>2 DEF Ordered

\* The ACK of a delivered frame, or another message, is added.
LEMMA TellSafe ==
    ASSUME TypeOK, AcksSafe, delivered \subseteq delivered', NEW c, NEW m \in Messages, Tell(c, m),
           m.type = "event_ack" => m.frame \in delivered'
    PROVE  AcksSafe'
PROOF
<1>1. toAgent \in Seq(Messages)
  BY DEF TypeOK
<1>2. CASE toAgent' = Append(toAgent, m)
  <2>1. /\ Len(toAgent') = Len(toAgent) + 1 /\ toAgent'[Len(toAgent) + 1] = m
        /\ \A i \in 1..Len(toAgent) : toAgent'[i] = toAgent[i]
    <3> HIDE DEF Messages
    <3> QED
      BY <1>1, <1>2
  <2>2. Len(toAgent) \in Nat
    BY <1>1
  <2> QED
    BY <2>1, <2>2 DEF AcksSafe
<1>3. CASE UNCHANGED toAgent
  BY <1>3 DEF AcksSafe
<1> QED
  BY <1>2, <1>3 DEF Tell
\* The frame a handler may begin with: Redis has the state before it.
LEMMA ReadyIsBehind ==
    ASSUME TypeOK, Ordered, NEW f \in Frames, Status(f) = "ready"
    PROVE  Behind(f) /\ Rebuild(f) = f[2]
PROOF
<1>1. f[1] \in Streams /\ f[2] \in 1..MaxSeq /\ (f[2] = 1 \/ f[2] = baseSeq[f[1]] + 1) /\ baseSeq[f[1]] \in 0..MaxSeq
  BY StatusIs
<1>2. Behind(f)
  BY <1>1 DEF Behind, Ordered, Stored
<1>3. baseState[f[1]] = baseSeq[f[1]]
  BY <1>1 DEF Ordered, Faithful
<1>4. Rebuild(f) = f[2]
  BY <1>1, <1>3 DEF Rebuild
<1> QED
  BY <1>2, <1>4

LEMMA ReceiveOrdered == ASSUME TypeOK, Working, Ordered, NEW c \in Conns, Receive(c) PROVE Ordered'
PROOF
<1> DEFINE f == Head(toRelay[c])
<1>1. f \in Frames
  BY DEF Receive, TypeOK
<1>2. UNCHANGED <<delivered, baseSeq, baseState>>
  BY DEF Receive, redis
<1>3. \/ UNCHANGED <<phase, current, rebuilt, toAgent>>
      \/ Status(f) = "duplicate" /\ Tell(c, Ack(f)) /\ UNCHANGED <<phase, current, rebuilt>>
      \/ /\ Status(f) = "gap" /\ Tell(c, Resend(f[1], baseSeq[f[1]] + 1, f[2]))
         /\ UNCHANGED <<phase, current, rebuilt>>
      \/ Tell(c, Resync(f[1])) /\ UNCHANGED <<phase, current, rebuilt>>
      \/ /\ Status(f) = "ready"
         /\ phase' = [phase EXCEPT ![c] = "api"] /\ current' = [current EXCEPT ![c] = f]
         /\ rebuilt' = [rebuilt EXCEPT ![c] = Rebuild(f)] /\ UNCHANGED toAgent
  BY DEF Receive, Move
<1> HIDE DEF f
<1>4. AcksSafe'
  <2>1. AcksSafe /\ delivered \subseteq delivered'
    BY <1>2 DEF Ordered
  <2>2. CASE UNCHANGED toAgent
    BY <1>2, <2>1, <2>2 DEF AcksSafe
  <2>3. CASE Status(f) = "duplicate" /\ Tell(c, Ack(f))
    <3>1. f = <<f[1], f[2]>>
      BY <1>1 DEF Frames
    <3>2. f \in delivered
      BY <1>1, <2>3, <3>1, StatusIs DEF Ordered, Stored
    <3>3. Ack(f).frame = f
      BY DEF Ack
    <3> QED
      BY <1>1, <1>2, <2>1, <2>3, <3>2, <3>3, AnswersTyped, TellSafe
  <2>4. CASE Status(f) = "gap" /\ Tell(c, Resend(f[1], baseSeq[f[1]] + 1, f[2]))
    <3> DEFINE m == Resend(f[1], baseSeq[f[1]] + 1, f[2])
    <3>1. m \in Messages /\ m.type # "event_ack"
      BY <1>1, <2>4, AnswersTyped DEF Resend
    <3>2. Tell(c, m)
      BY <2>4
    <3> HIDE DEF m
    <3> QED
      BY <2>1, <3>1, <3>2, TellSafe
  <2>5. CASE Tell(c, Resync(f[1]))
    <3>1. Resync(f[1]) \in Messages /\ Resync(f[1]).type # "event_ack"
      BY <1>1, AnswersTyped DEF Resync
    <3> QED
      BY <2>1, <2>5, <3>1, TellSafe
  <2> QED
    BY <1>3, <2>2, <2>3, <2>4, <2>5
<1>5. Faithful' /\ InOrder'
  <2>1. CASE UNCHANGED <<phase, current, rebuilt>>
    BY <1>2, <2>1 DEF Ordered, Faithful, InOrder, Behind
  <2>2. CASE /\ Status(f) = "ready"
             /\ phase' = [phase EXCEPT ![c] = "api"] /\ current' = [current EXCEPT ![c] = f]
             /\ rebuilt' = [rebuilt EXCEPT ![c] = Rebuild(f)]
    <3>1. Behind(f) /\ Rebuild(f) = f[2]
      BY <1>1, <2>2, ReadyIsBehind
    <3>2. \A d \in Conns : /\ d # c => current'[d] = current[d] /\ rebuilt'[d] = rebuilt[d] /\ phase'[d] = phase[d]
                           /\ d = c => current'[d] = f /\ rebuilt'[d] = f[2] /\ phase'[d] = "api"
      BY <2>2, <3>1 DEF TypeOK
    <3>3. Faithful'
      BY <1>2, <3>2 DEF Ordered, Faithful
    <3>4. InOrder'
      BY <1>2, <3>1, <3>2 DEF Ordered, InOrder, Behind
    <3> QED
      BY <3>3, <3>4
  <2> QED
    BY <1>3, <2>1, <2>2
<1>6. Stored' /\ NoHoles'
  BY <1>2 DEF Ordered, Stored, NoHoles
<1> QED
  BY <1>4, <1>5, <1>6 DEF Ordered
\* The API has one frame more, and everything below it.
LEMMA MoreDelivered ==
    ASSUME TypeOK, Ordered, NEW f \in Frames, Behind(f), delivered' = delivered \cup {f}
    PROVE  NoHoles'
PROOF
<1>1. f = <<f[1], f[2]>> /\ f[2] \in 1..MaxSeq
  BY DEF Frames
<1> SUFFICES ASSUME NEW s \in Streams, NEW n \in 2..MaxSeq, <<s, n>> \in delivered'
             PROVE  <<s, n - 1>> \in delivered'
  BY DEF NoHoles
<1>2. CASE <<s, n>> \in delivered
  BY <1>2 DEF Ordered, NoHoles
<1>3. CASE <<s, n>> = f
  <2>1. f[1] = s /\ f[2] = n /\ n - 1 \in 1..(n - 1)
    BY <1>1, <1>3
  <2> QED
    BY <2>1 DEF Behind
<1> QED
  BY <1>2, <1>3

LEMMA DeliverOrdered == ASSUME TypeOK, Working, Ordered, NEW c \in Conns, Deliver(c) PROVE Ordered'
PROOF
<1> DEFINE f == current[c]
<1>1. f \in Frames /\ Behind(f)
  BY DEF Deliver, Working, TypeOK, Ordered, InOrder
<1>2. /\ delivered' = delivered \cup {f} /\ UNCHANGED <<current, rebuilt, baseSeq, baseState, toAgent>>
      /\ phase' = [phase EXCEPT ![c] = "commit"]
  BY DEF Deliver, Move, redis
<1>3. NoHoles'
  BY <1>1, <1>2, MoreDelivered
<1>4. InOrder'
  <2>1. \A d \in Conns : d # c => phase'[d] = phase[d]
    BY <1>2 DEF TypeOK
  <2> QED
    BY <1>2, <2>1 DEF Ordered, InOrder, Behind
<1>5. Faithful' /\ Stored' /\ AcksSafe'
  BY <1>2 DEF Ordered, Faithful, Stored, AcksSafe
<1> QED
  BY <1>3, <1>4, <1>5 DEF Ordered

\* A handler that has finished has nothing in its hands.
LEMMA FinishOrdered ==
    ASSUME TypeOK, Ordered, NEW c \in Conns, Finish(c), delivered \subseteq delivered'
    PROVE  InOrder' /\ \A d \in Conns : current'[d] # None => rebuilt'[d] = current'[d][2]
PROOF
<1>1. \A d \in Conns : /\ d # c => current'[d] = current[d] /\ rebuilt'[d] = rebuilt[d] /\ phase'[d] = phase[d]
                       /\ d = c => current'[d] = None /\ phase'[d] = "idle"
  BY DEF Finish, Move, TypeOK
<1> QED
  BY <1>1 DEF Ordered, InOrder, Behind, Faithful

LEMMA NotHandledOrdered == ASSUME TypeOK, Working, Ordered, NEW c \in Conns, NotHandled(c) PROVE Ordered'
PROOF
<1> DEFINE f == current[c]
<1>1. f \in Frames /\ Behind(f)
  BY DEF NotHandled, Working, TypeOK, Ordered, InOrder
<1>2. /\ delivered' = delivered \/ delivered' = delivered \cup {f}
      /\ Finish(c) /\ UNCHANGED <<baseSeq, baseState, toAgent>>
  BY DEF NotHandled
<1>3. NoHoles'
  <2>1. CASE delivered' = delivered
    BY <2>1 DEF Ordered, NoHoles
  <2> QED
    BY <1>1, <1>2, <2>1, MoreDelivered
<1>4. InOrder' /\ \A d \in Conns : current'[d] # None => rebuilt'[d] = current'[d][2]
  BY <1>2, FinishOrdered
<1>5. Stored' /\ AcksSafe'
  BY <1>2 DEF Ordered, Stored, AcksSafe
<1>6. Faithful'
  BY <1>2, <1>4 DEF Ordered, Faithful
<1> QED
  BY <1>3, <1>4, <1>5, <1>6 DEF Ordered

LEMMA CommitOrdered == ASSUME TypeOK, Working, Ordered, NEW c \in Conns, Commit(c) PROVE Ordered'
PROOF
<1> DEFINE f == current[c]
<1>1. f \in Frames /\ Behind(f) /\ f \in delivered /\ rebuilt[c] = f[2]
  BY DEF Commit, Working, TypeOK, Ordered, InOrder, Faithful
<1>2. /\ baseSeq' = [baseSeq EXCEPT ![f[1]] = f[2]] /\ baseState' = [baseState EXCEPT ![f[1]] = rebuilt[c]]
      /\ Tell(c, Ack(f)) /\ Finish(c) /\ UNCHANGED delivered
  BY DEF Commit
<1> HIDE DEF f
<1>3. f[1] \in Streams /\ f[2] \in 1..MaxSeq /\ f = <<f[1], f[2]>>
  BY <1>1 DEF Frames
<1>4. InOrder' /\ \A d \in Conns : current'[d] # None => rebuilt'[d] = current'[d][2]
  BY <1>2, FinishOrdered
<1>5. Faithful'
  <2>1. \A s \in Streams : baseState'[s] = baseSeq'[s]
    BY <1>1, <1>2, <1>3 DEF TypeOK, Ordered, Faithful
  <2> QED
    BY <1>4, <2>1 DEF Faithful
<1>6. Stored'
  <2> SUFFICES ASSUME NEW s \in Streams, NEW m \in 1..baseSeq'[s]
               PROVE  <<s, m>> \in delivered
    BY <1>2 DEF Stored
  <2>1. CASE s = f[1]
    <3>1. baseSeq'[s] = f[2]
      BY <1>2, <1>3, <2>1 DEF TypeOK
    <3>2. m = f[2] \/ m \in 1..(f[2] - 1)
      BY <1>3, <3>1
    <3> QED
      BY <1>1, <1>3, <2>1, <3>2 DEF Behind
  <2>2. CASE s # f[1]
    BY <1>2, <2>2 DEF TypeOK, Ordered, Stored
  <2> QED
    BY <2>1, <2>2
<1>7. AcksSafe'
  <2>1. Ack(f) \in Messages /\ Ack(f).frame = f
    BY <1>1, AnswersTyped DEF Ack
  <2> QED
    BY <1>1, <1>2, <2>1, TellSafe DEF Ordered
<1> QED
  BY <1>2, <1>4, <1>5, <1>6, <1>7 DEF Ordered, NoHoles
\* A connection that comes or goes, the loss of one, of the Relay or of a base.
LEMMA ConnectionOrdered ==
    ASSUME TypeOK, Working, Ordered, NEW c \in Conns, Connect(c) \/ HandlerEnd(c)
    PROVE  Ordered'
PROOF
<1>1. /\ \A d \in Conns : phase'[d] = phase[d] \/ phase'[d] \in {"none", "idle"}
      /\ UNCHANGED <<current, rebuilt, delivered, baseSeq, baseState, toAgent>>
  BY DEF Connect, HandlerEnd, Move, TypeOK, redis
<1> QED
  BY <1>1 DEF Ordered, Faithful, Stored, InOrder, Behind, NoHoles, AcksSafe

LEMMA RestartOrdered == ASSUME TypeOK, Ordered, RelayRestart PROVE Ordered'
PROOF
<1>1. /\ \A d \in Conns : phase'[d] = "none" /\ current'[d] = None
      /\ UNCHANGED <<delivered, baseSeq, baseState>> /\ toAgent' = <<>>
  BY DEF RelayRestart, Disconnected, redis
<1> QED
  BY <1>1 DEF Ordered, Faithful, Stored, InOrder, NoHoles, AcksSafe

LEMMA ExpireOrdered == ASSUME TypeOK, Ordered, NEW s \in Streams, Expire(s) PROVE Ordered'
PROOF
<1>1. /\ baseSeq' = [baseSeq EXCEPT ![s] = 0] /\ baseState' = [baseState EXCEPT ![s] = 0]
      /\ UNCHANGED <<phase, current, rebuilt, delivered, toAgent>>
  BY DEF Expire, relay
<1>2. \A t \in Streams : \/ baseSeq'[t] = baseSeq[t] /\ baseState'[t] = baseState[t]
                         \/ baseSeq'[t] = 0 /\ baseState'[t] = 0
  BY <1>1 DEF TypeOK
<1>3. Stored'
  <2>1. \A m \in 1..0 : FALSE
    OBVIOUS
  <2> QED
    BY <1>1, <1>2, <2>1 DEF Ordered, Stored
<1>4. Faithful' /\ InOrder' /\ NoHoles' /\ AcksSafe'
  BY <1>1, <1>2 DEF Ordered, Faithful, InOrder, Behind, NoHoles, AcksSafe
<1> QED
  BY <1>3, <1>4 DEF Ordered

LEMMA OrderedKept == ASSUME TypeOK, Working, Ordered, [Next]_vars PROVE Ordered'
PROOF
<1>1. CASE Poller
  BY <1>1, QuietStep DEF Poller, Capture, SendBatch, ForceResync, relay, redis
<1>2. CASE Supervisor
  <2>1. /\ UNCHANGED <<rebuilt, current, phase, delivered, baseSeq, baseState>>
        /\ toAgent' = toAgent \/ toAgent' = <<>> \/ (toAgent # <<>> /\ toAgent' = Tail(toAgent))
    BY <1>2 DEF Supervisor, Track, SkipOversized, Tick, AckReceived, ResendReceived, ResyncReceived,
                Unstuck, Disconnect, HardRevive, Message, Disconnected, relay, redis
  <2> QED
    BY <2>1, QuietStep
<1>3. CASE RelayRestart
  BY <1>3, RestartOrdered
<1>4. ASSUME NEW c \in Conns, Connect(c) \/ HandlerEnd(c) PROVE Ordered'
  BY <1>4, ConnectionOrdered
<1>5. ASSUME NEW c \in Conns, Handler(c) PROVE Ordered'
  BY <1>5, ReceiveOrdered, DeliverOrdered, NotHandledOrdered, CommitOrdered DEF Handler
<1>6. ASSUME NEW s \in Streams, Expire(s) PROVE Ordered'
  BY <1>6, ExpireOrdered
<1>7. ASSUME NEW s \in Streams, Unblock(s) PROVE Ordered'
  BY <1>7, QuietStep DEF Unblock, relay
<1>8. CASE UNCHANGED vars
  BY <1>8, QuietStep DEF vars, relay, redis
<1> QED
  BY <1>1, <1>2, <1>3, <1>4, <1>5, <1>6, <1>7, <1>8 DEF Next

-------------------------------------------------------------------------------

IInv == TypeOK /\ Working /\ Ordered

LEMMA Invariant == Spec => []IInv
PROOF
<1>1. Init => IInv
  <2>1. Init => Working
    BY DEF Init, Working
  <2> QED
    BY <2>1, TypeInit, OrderedInit DEF IInv
<1>2. IInv /\ [Next]_vars => IInv'
  BY TypesKept, OrderedKept DEF IInv
<1> QED
  BY <1>1, <1>2, PTL DEF Spec

\* Every queue, buffer and table of the live stream holds what it should, the
\* buffer at most Capacity frames.
THEOREM TypeCorrect == Spec => []TypeOK
PROOF
  BY Invariant, PTL DEF IInv

\* Whatever is replayed, lost, expired or handled by two connections at once,
\* a stored state and the state given to the API are the captured one: no delta
\* is applied to a base it was not made from.
THEOREM StatesAreFaithful == Spec => []Faithful
PROOF
  BY Invariant, PTL DEF IInv, Ordered

\* No frame is acknowledged before the API has it, and the API never has a
\* frame without the one before it.
THEOREM DeliveryIsInOrder == Spec => []DeliveredInOrder
PROOF
<1>1. IInv => DeliveredInOrder
  BY AcksAreAcknowledged DEF IInv, Ordered, DeliveredInOrder
<1> QED
  BY <1>1, Invariant, PTL
-------------------------------------------------------------------------------
(* What the buffer forgets                                                    *)

\* The reasons for which the agent may forget f in a step.
MayForget(f) == f \in delivered \/ resyncs' > resyncs \/ stuck' \/ Len(buffer) = Capacity

LEMMA DropTellsPoller ==
    ASSUME TypeOK, NEW s, DropStream(s), NEW f
    PROVE  MayForget(f)
PROOF
<1>1. resyncs \in Nat
  BY DEF TypeOK
<1>2. CASE resyncs < ResyncCap
  BY <1>1, <1>2 DEF DropStream, SignalPoller, MayForget
<1>3. CASE ~(resyncs < ResyncCap)
  <2>1. stuck'
    BY <1>3 DEF DropStream, SignalPoller
  <2> QED
    BY <2>1 DEF MayForget
<1> QED
  BY <1>2, <1>3

LEMMA TrackForgets ==
    ASSUME TypeOK, Track, NEW f \in Buffered \ Buffered'
    PROVE  MayForget(f)
PROOF
<1>1. buffer \in Seq(Frames) /\ Len(buffer) <= Capacity /\ Head(batches) \in Frames
  BY DEF Track, TypeOK
<1>2. ASSUME Len(buffer) < Capacity PROVE FALSE
  <2>1. buffer' = Append(buffer, Head(batches))
    BY <1>1, <1>2 DEF Track, Tracked
  <2>2. Buffered' = Buffered \cup {Head(batches)}
    BY <1>1, <2>1, ElementsOfAppend DEF Buffered
  <2> QED
    BY <2>2
<1> QED
  BY <1>1, <1>2 DEF MayForget

LEMMA AckForgets ==
    ASSUME TypeOK, AcksSafe, AckReceived, NEW f \in Buffered \ Buffered'
    PROVE  MayForget(f)
PROOF
<1> DEFINE a == Head(toAgent)
<1>1. buffer \in Seq(Frames) /\ buffer' = Kept(buffer, Frames \ {a.frame})
  BY DEF AckReceived, TypeOK
<1>2. toAgent \in Seq(Messages) /\ toAgent # <<>> /\ a.type = "event_ack"
  BY DEF AckReceived, Message, TypeOK
<1>3. a = toAgent[1] /\ 1 \in 1..Len(toAgent)
  <2> HIDE DEF Messages
  <2> QED
    BY <1>2
<1>4. a.frame \in delivered
  BY <1>2, <1>3 DEF AcksSafe
<1> HIDE DEF a
<1>5. Buffered' = Buffered \cap (Frames \ {a.frame})
  BY <1>1, KeptElements DEF Buffered
<1>6. f \in Frames
  BY <1>1 DEF Buffered, Elements
<1> QED
  BY <1>4, <1>5, <1>6 DEF MayForget

LEMMA ForgetsForAReason ==
    ASSUME IInv, [Next]_vars, NEW f \in Buffered \ Buffered'
    PROVE  MayForget(f)
PROOF
<1>1. ASSUME UNCHANGED buffer PROVE FALSE
  BY <1>1 DEF Buffered
<1>2. TypeOK /\ AcksSafe
  BY DEF IInv, Ordered
<1>3. CASE Track
  BY <1>2, <1>3, TrackForgets
<1>4. CASE AckReceived
  BY <1>2, <1>4, AckForgets
<1>5. CASE ResendReceived
  BY <1>1, <1>2, <1>5, DropTellsPoller DEF ResendReceived
<1>6. CASE ResyncReceived
  BY <1>2, <1>6, DropTellsPoller DEF ResyncReceived
<1>7. CASE SkipOversized \/ Tick \/ Unstuck \/ Disconnect \/ HardRevive
  BY <1>1, <1>7 DEF SkipOversized, Tick, Unstuck, Disconnect, HardRevive, Disconnected, agent
<1>8. CASE Poller \/ RelayRestart
  BY <1>1, <1>8 DEF Poller, Capture, SendBatch, ForceResync, RelayRestart, Disconnected
<1>9. ASSUME NEW c \in Conns, Connect(c) \/ Handler(c) \/ HandlerEnd(c) PROVE FALSE
  BY <1>1, <1>9 DEF Connect, Handler, Receive, Deliver, NotHandled, Commit, HandlerEnd, agent
<1>10. ASSUME NEW s \in Streams, Expire(s) \/ Unblock(s) PROVE FALSE
  BY <1>1, <1>10 DEF Expire, Unblock, agent
<1>11. CASE UNCHANGED vars
  BY <1>1, <1>11 DEF vars, agent
<1> QED
  BY <1>3, <1>4, <1>5, <1>6, <1>7, <1>8, <1>9, <1>10, <1>11 DEF Next, Supervisor

\* A frame leaves the buffer of the agent only when the API has it, when its
\* stream is given up and the poller told, or when the buffer is full.
THEOREM NoFrameIsForgotten == Spec => NothingForgotten
PROOF
<1>1. IInv /\ [Next]_vars
      => [\A f \in Buffered \ Buffered' :
             \/ f \in delivered
             \/ resyncs' > resyncs \/ stuck'
             \/ Len(buffer) = Capacity]_vars
  BY ForgetsForAReason DEF MayForget
<1> QED
  BY <1>1, Invariant, PTL DEF Spec, NothingForgotten

===============================================================================
