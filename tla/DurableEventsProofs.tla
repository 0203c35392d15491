-------------------------- MODULE DurableEventsProofs --------------------------
(***************************************************************************)
(* Proofs about DurableEvents, for any events, connections and capacity.    *)
(* First what the operations on the replay buffer do to the events in it;   *)
(* then the types; then the agreement of the handlers with the table of      *)
(* futures; last where every event is, from which the refinement of          *)
(* AtLeastOnce follows.                                                      *)
(***************************************************************************)
EXTENDS DurableEvents, SequenceTheorems, TLAPS

Elements(b) == {b[i] : i \in 1..Len(b)}

Distinct(b) == \A i, j \in 1..Len(b) : b[i] = b[j] => i = j

-------------------------------------------------------------------------------
(* The operations on sequences of events                                      *)

\* Sending one message after the others.
LEMMA AppendElements ==
    ASSUME NEW b \in Seq(Events), NEW e \in Events
    PROVE  /\ Append(b, e) \in Seq(Events)
           /\ Elements(Append(b, e)) = Elements(b) \cup {e}
           /\ Len(Append(b, e)) = Len(b) + 1
           /\ Distinct(b) /\ e \notin Elements(b) => Distinct(Append(b, e))
<1> DEFINE a == Append(b, e)
<1>1. /\ a \in Seq(Events) /\ Len(a) = Len(b) + 1 /\ Len(b) \in Nat
      /\ \A i \in 1..Len(b) : a[i] = b[i]
      /\ a[Len(b) + 1] = e
  BY AppendProperties, LenProperties
<1> HIDE DEF a
<1>2. Elements(a) = Elements(b) \cup {e}
  <2>1. 1..Len(a) = 1..Len(b) \cup {Len(b) + 1}
    BY <1>1
  <2> QED  BY <1>1, <2>1 DEF Elements
<1>3. Distinct(b) /\ e \notin Elements(b) => Distinct(a)
  <2>1. \A i \in 1..Len(a) : i \in 1..Len(b) \/ i = Len(b) + 1
    BY <1>1
  <2> QED  BY <1>1, <2>1 DEF Elements, Distinct
<1> QED  BY <1>1, <1>2, <1>3 DEF a

\* Taking the first message.
LEMMA TailElements ==
    ASSUME NEW b \in Seq(Events), b # <<>>
    PROVE  /\ Tail(b) \in Seq(Events) /\ Head(b) \in Events
           /\ Head(b) \in Elements(b)
           /\ Elements(b) = Elements(Tail(b)) \cup {Head(b)}
           /\ Len(Tail(b)) = Len(b) - 1 /\ Len(b) \in Nat \ {0}
           /\ Distinct(b) => Distinct(Tail(b)) /\ Head(b) \notin Elements(Tail(b))
<1> DEFINE t == Tail(b)
           h == Head(b)
<1>1. /\ t \in Seq(Events) /\ h \in Events /\ Len(b) \in Nat \ {0}
      /\ Len(t) = Len(b) - 1 /\ h = b[1]
      /\ \A i \in 1..Len(t) : t[i] = b[i + 1]
  BY HeadTailProperties, EmptySeq, LenProperties
<1> HIDE DEF t, h
<1>2. 1 \in 1..Len(b) /\ \A i \in 1..Len(t) : i + 1 \in 1..Len(b) /\ i + 1 # 1
  BY <1>1
<1>3. \A i \in 1..Len(b) : i = 1 \/ (i - 1 \in 1..Len(t) /\ (i - 1) + 1 = i)
  BY <1>1
<1>4. Elements(b) = Elements(t) \cup {h}
  <2>1. ASSUME NEW i \in 1..Len(b) PROVE b[i] \in Elements(t) \cup {h}
    <3>1. CASE i = 1
      BY <1>1, <3>1
    <3>2. CASE i # 1
      <4>1. i - 1 \in 1..Len(t) /\ t[i - 1] = b[(i - 1) + 1] /\ (i - 1) + 1 = i
        BY <1>1, <1>3, <3>2
      <4> QED  BY <4>1 DEF Elements
    <3> QED  BY <3>1, <3>2
  <2>2. \A i \in 1..Len(t) : t[i] \in Elements(b)
    BY <1>1, <1>2 DEF Elements
  <2>3. h \in Elements(b)
    BY <1>1, <1>2 DEF Elements
  <2> QED  BY <2>1, <2>2, <2>3 DEF Elements
<1>5. ASSUME Distinct(b) PROVE Distinct(t) /\ h \notin Elements(t)
  <2>1. ASSUME NEW i \in 1..Len(t), NEW j \in 1..Len(t), t[i] = t[j] PROVE i = j
    <3>1. b[i + 1] = b[j + 1]
      BY <1>1, <2>1
    <3>2. i + 1 = j + 1
      BY <1>2, <1>5, <3>1 DEF Distinct
    <3> QED  BY <3>2
  <2>2. ASSUME NEW i \in 1..Len(t), t[i] = h PROVE FALSE
    BY <1>1, <1>2, <1>5, <2>2 DEF Distinct
  <2> QED  BY <2>1, <2>2 DEF Distinct, Elements
<1> QED  BY <1>1, <1>4, <1>5 DEF t, h

\* Replaying a buffer after the messages under way.
LEMMA ConcatElements ==
    ASSUME NEW a \in Seq(Events), NEW b \in Seq(Events)
    PROVE  /\ a \o b \in Seq(Events)
           /\ Elements(a \o b) = Elements(a) \cup Elements(b)
<1> DEFINE s == a \o b
<1>1. /\ s \in Seq(Events) /\ Len(s) = Len(a) + Len(b)
      /\ Len(a) \in Nat /\ Len(b) \in Nat
      /\ \A i \in 1..(Len(a) + Len(b)) :
            s[i] = IF i <= Len(a) THEN a[i] ELSE b[i - Len(a)]
  BY ConcatProperties, LenProperties
<1> HIDE DEF s
<1>2. ASSUME NEW i \in 1..Len(s) PROVE s[i] \in Elements(a) \cup Elements(b)
  <2>1. CASE i <= Len(a)
    BY <1>1, <2>1 DEF Elements
  <2>2. CASE ~(i <= Len(a))
    <3>1. i - Len(a) \in 1..Len(b)
      BY <1>1, <2>2
    <3> QED  BY <1>1, <2>2, <3>1 DEF Elements
  <2> QED  BY <2>1, <2>2
<1>3. ASSUME NEW i \in 1..Len(a) PROVE a[i] \in Elements(s)
  <2>1. i \in 1..Len(s) /\ i <= Len(a) /\ i \in 1..(Len(a) + Len(b))
    BY <1>1
  <2> QED  BY <1>1, <2>1 DEF Elements
<1>4. ASSUME NEW i \in 1..Len(b) PROVE b[i] \in Elements(s)
  <2>1. /\ i + Len(a) \in 1..Len(s) /\ i + Len(a) \in 1..(Len(a) + Len(b))
        /\ ~(i + Len(a) <= Len(a)) /\ (i + Len(a)) - Len(a) = i
    BY <1>1
  <2>2. s[i + Len(a)] = b[i]
    BY <1>1, <2>1
  <2> QED  BY <2>1, <2>2 DEF Elements
<1>5. Elements(s) = Elements(a) \cup Elements(b)
  BY <1>2, <1>3, <1>4 DEF Elements
<1> QED  BY <1>1, <1>5 DEF s

\* DurableReplayBuffer::track keeps every event but the oldest of a full buffer.
LEMMA TrackedElements ==
    ASSUME NEW b \in Seq(Events), NEW e \in Events,
           Distinct(b), Len(b) <= Capacity, e \notin Elements(b)
    PROVE  /\ Tracked(b, e) \in Seq(Events)
           /\ Len(Tracked(b, e)) <= Capacity
           /\ Distinct(Tracked(b, e))
           /\ Elements(Tracked(b, e)) =
                (Elements(b) \ (IF Len(b) >= Capacity THEN {Head(b)} ELSE {})) \cup {e}
           /\ Len(b) >= Capacity => b # <<>> /\ Head(b) \in Elements(b)
<1>0. Len(b) \in Nat
  BY LenProperties
<1>1. CASE Len(b) >= Capacity
  <2>1. b # <<>>
    BY <1>1, EmptySeq, CapacityIsPositive
  <2>2. /\ Tail(b) \in Seq(Events) /\ Distinct(Tail(b)) /\ Len(Tail(b)) = Len(b) - 1
        /\ Elements(b) = Elements(Tail(b)) \cup {Head(b)}
        /\ Head(b) \notin Elements(Tail(b)) /\ Head(b) \in Elements(b)
    BY <2>1, TailElements
  <2>3. e \notin Elements(Tail(b))
    BY <2>2
  <2>4. Tracked(b, e) = Append(Tail(b), e)
    BY <1>1 DEF Tracked
  <2>5. /\ Append(Tail(b), e) \in Seq(Events) /\ Distinct(Append(Tail(b), e))
        /\ Len(Append(Tail(b), e)) = Len(Tail(b)) + 1
        /\ Elements(Append(Tail(b), e)) = Elements(Tail(b)) \cup {e}
    BY <2>2, <2>3, AppendElements
  <2>6. Len(Tail(b)) + 1 <= Capacity
    BY <1>0, <2>2, CapacityIsPositive
  <2>7. Elements(Tail(b)) = Elements(b) \ {Head(b)}
    BY <2>2
  <2> QED  BY <1>1, <2>1, <2>2, <2>4, <2>5, <2>6, <2>7
<1>2. CASE ~(Len(b) >= Capacity)
  <2>1. Tracked(b, e) = Append(b, e)
    BY <1>2 DEF Tracked
  <2>2. Len(b) + 1 <= Capacity
    BY <1>0, <1>2, CapacityIsPositive
  <2> QED  BY <1>2, <2>1, <2>2, AppendElements
<1> QED  BY <1>1, <1>2

\* DurableReplayBuffer::ack removes the event, and no other.
LEMMA WithoutElements ==
    ASSUME NEW b \in Seq(Events), NEW e \in Elements(b), Distinct(b)
    PROVE  /\ Without(b, e) \in Seq(Events)
           /\ Len(Without(b, e)) = Len(b) - 1
           /\ Distinct(Without(b, e))
           /\ Elements(Without(b, e)) = Elements(b) \ {e}
<1> DEFINE at == CHOOSE i \in 1..Len(b) : b[i] = e
           w  == [i \in 1..(Len(b) - 1) |-> IF i < at THEN b[i] ELSE b[i + 1]]
<1>1. at \in 1..Len(b) /\ b[at] = e
  BY DEF Elements
<1>2. Without(b, e) = w
  BY DEF Without
<1>3. /\ Len(b) \in Nat \ {0} /\ Len(b) - 1 \in Nat
      /\ \A i \in 1..Len(b) : b[i] \in Events
  <2>1. Len(b) \in Nat /\ \A i \in 1..Len(b) : b[i] \in Events
    BY LenProperties, ElementOfSeq
  <2>2. 1..Len(b) # {}
    BY <1>1
  <2> QED  BY <2>1, <2>2
<1>4. PICK p \in 1..Len(b) : p = at
  BY <1>1
<1>5. w = [i \in 1..(Len(b) - 1) |-> IF i < p THEN b[i] ELSE b[i + 1]]
  BY <1>4
<1>6. b[p] = e
  BY <1>1, <1>4
<1> HIDE DEF at, w
<1>7. w \in Seq(Events) /\ Len(w) = Len(b) - 1
  <2>1. \A i \in 1..(Len(b) - 1) : i \in 1..Len(b) /\ i + 1 \in 1..Len(b)
    BY <1>3
  <2>2. w \in [1..(Len(b) - 1) -> Events]
    BY <1>3, <1>5, <2>1
  <2>3. w \in Seq(Events)
    BY <1>3, <2>2, SeqDef
  <2>4. DOMAIN w = 1..(Len(b) - 1) /\ DOMAIN w = 1..Len(w) /\ Len(w) \in Nat
    BY <2>2, <2>3, LenProperties
  <2>5. Len(w) = Len(b) - 1
    BY <1>3, <2>4
  <2> QED  BY <2>3, <2>5
<1>8. \A i \in 1..Len(w) : w[i] = IF i < p THEN b[i] ELSE b[i + 1]
  BY <1>5, <1>7
<1> DEFINE from(i) == IF i < p THEN i ELSE i + 1
<1>9. \A i \in 1..Len(w) : from(i) \in 1..Len(b) /\ from(i) # p /\ w[i] = b[from(i)]
  BY <1>3, <1>7, <1>8
<1>10. \A i, j \in 1..Len(w) : from(i) = from(j) => i = j
  BY <1>3, <1>7
<1>11. \A k \in 1..Len(b) : k # p => \E i \in 1..Len(w) : from(i) = k
  <2>1. ASSUME NEW k \in 1..Len(b), k # p
        PROVE  \E i \in 1..Len(w) : from(i) = k
    <3>1. CASE k < p
      BY <1>3, <1>7, <3>1
    <3>2. CASE k > p
      <4>1. k - 1 \in 1..Len(w) /\ ~(k - 1 < p) /\ (k - 1) + 1 = k
        BY <1>3, <1>7, <3>2
      <4>2. from(k - 1) = k
        BY <4>1
      <4> QED  BY <4>1, <4>2
    <3> QED  BY <2>1, <3>1, <3>2
  <2> QED  BY <2>1
<1> HIDE DEF from
<1>12. Distinct(w)
  <2>1. ASSUME NEW i \in 1..Len(w), NEW j \in 1..Len(w), w[i] = w[j] PROVE i = j
    <3>1. from(i) = from(j)
      BY <1>9, <2>1 DEF Distinct
    <3> QED  BY <1>10, <3>1
  <2> QED  BY <2>1 DEF Distinct
<1>13. Elements(w) = Elements(b) \ {e}
  <2>1. ASSUME NEW i \in 1..Len(w) PROVE w[i] \in Elements(b) /\ w[i] # e
    BY <1>6, <1>9 DEF Elements, Distinct
  <2>2. ASSUME NEW k \in 1..Len(b), b[k] # e PROVE b[k] \in Elements(w)
    <3>1. k # p
      BY <1>6, <2>2
    <3>2. PICK i \in 1..Len(w) : from(i) = k
      BY <1>11, <3>1
    <3> QED  BY <1>9, <3>2 DEF Elements
  <2> QED  BY <2>1, <2>2 DEF Elements
<1> QED  BY <1>2, <1>7, <1>12, <1>13

-------------------------------------------------------------------------------
(* The types                                                                  *)

LEMMA FaultType ==
    ASSUME TypeOK, Fault
    PROVE  faults' \in 0..MaxFaults
BY BoundsAreNats DEF TypeOK, Fault

LEMMA ReplayType ==
    ASSUME TypeOK, NEW c \in Conns, Replay(c)
    PROVE  toRelay' \in [Conns -> Seq(Events)]
<1>1. toRelay[c] \o buffer \in Seq(Events)
  BY ConcatElements DEF TypeOK
<1> QED  BY <1>1 DEF Replay, TypeOK

LEMMA FutureTypes ==
    ASSUME TypeOK
    PROVE  /\ \A e \in Events, v \in {"yes", "no"} :
                 Resolved(e, v) \in [Conns -> {"none", "open", "yes", "no", "cancelled"}]
           /\ \A e \in Events : Popped(e) \in [Events -> Conns \cup {None}]
           /\ AllRefused \in [Conns -> {"none", "open", "yes", "no", "cancelled"}]
BY DEF TypeOK, Resolved, Popped, AllRefused

\* A handler holds an event exactly while it works on one.
Busy == \A c \in Conns : current[c] = None <=> phase[c] \in {"none", "idle"}

LEMMA HeldEvent ==
    ASSUME TypeOK, Busy, NEW c \in Conns, phase[c] \notin {"none", "idle"}
    PROVE  current[c] \in Events
BY DEF TypeOK, Busy

\* Every step of the agent, the handlers and the bot keeps the types; the
\* buffer's capacity is part of them.
LEMMA TypeStep == TypeOK /\ Busy /\ [Next]_vars => TypeOK'
<1> SUFFICES ASSUME TypeOK, Busy, [Next]_vars PROVE TypeOK'
  OBVIOUS
<1>1. CASE UNCHANGED vars
  BY <1>1 DEF TypeOK, vars, agent, relay, bot
<1>2. ASSUME NEW c \in Conns, Connect(c) PROVE TypeOK'
  BY <1>2 DEF Connect, TypeOK, Phases, bot
<1>3. CASE ServerHello
  <2>1. toRelay' \in [Conns -> Seq(Events)]
    BY <1>3, ReplayType DEF ServerHello, TypeOK
  <2> QED  BY <1>3, <2>1 DEF ServerHello, TypeOK, relay, bot
<1>4. CASE SessionBound
  <2>1. toRelay' \in [Conns -> Seq(Events)]
    BY <1>4, ReplayType DEF SessionBound, TypeOK
  <2> QED  BY <1>4, <2>1 DEF SessionBound, TypeOK, bot
<1>5. CASE Tick
  <2>1. toRelay' \in [Conns -> Seq(Events)]
    BY <1>5, ReplayType DEF Tick, TypeOK
  <2> QED  BY <1>5, <2>1 DEF Tick, TypeOK, agent, relay, bot
<1>6. CASE Disconnect
  BY <1>6, FaultType DEF Disconnect, Disconnected, TypeOK, relay, bot
<1>7. CASE AgentRestart
  <2>1. <<>> \in Seq(Events) /\ Len(<<>>) = 0
    BY EmptySeq
  <2>2. Buffered \subseteq Events
    BY ElementOfSeq DEF Buffered, TypeOK
  <2>3. faults' \in 0..MaxFaults
    BY <1>7, FaultType DEF AgentRestart
  <2>4. buffer' \in Seq(Events) /\ Len(buffer') <= Capacity
    BY <1>7, <2>1, CapacityIsPositive DEF AgentRestart
  <2>5. lost' \subseteq Events
    BY <1>7, <2>2 DEF AgentRestart, TypeOK
  <2> QED  BY <1>7, <2>3, <2>4, <2>5
           DEF AgentRestart, Disconnected, TypeOK, relay, bot
<1>8. ASSUME NEW e \in Events, Event(e) PROVE TypeOK'
  <2>1. Append(toRelay[conn], e) \in Seq(Events)
    BY <1>8, AppendElements DEF Event, TypeOK
  <2>2. toRelay' \in [Conns -> Seq(Events)]
    BY <1>8, <2>1 DEF Event, TypeOK
  <2>3. buffer' \in Seq(Events) /\ Len(buffer') <= Capacity /\ lost' \subseteq Events
    <3>1. CASE replays /\ Len(buffer) >= Capacity
      <4>1. buffer # <<>>
        BY <3>1, EmptySeq, CapacityIsPositive DEF TypeOK
      <4>2. /\ Tail(buffer) \in Seq(Events) /\ Head(buffer) \in Events
            /\ Len(Tail(buffer)) = Len(buffer) - 1 /\ Len(buffer) \in Nat
        BY <4>1, TailElements DEF TypeOK
      <4>3. buffer' = Append(Tail(buffer), e)
        BY <1>8, <3>1 DEF Event, Tracked
      <4>4. buffer' \in Seq(Events) /\ Len(buffer') = Len(Tail(buffer)) + 1
        BY <4>2, <4>3, AppendElements
      <4>5. Len(buffer') <= Capacity
        BY <4>2, <4>4, CapacityIsPositive DEF TypeOK
      <4> QED  BY <1>8, <3>1, <4>2, <4>4, <4>5 DEF Event, TypeOK
    <3>2. CASE replays /\ ~(Len(buffer) >= Capacity)
      <4>1. buffer' = Append(buffer, e)
        BY <1>8, <3>2 DEF Event, Tracked
      <4>2. buffer' \in Seq(Events) /\ Len(buffer') = Len(buffer) + 1 /\ Len(buffer) \in Nat
        BY <4>1, AppendElements, LenProperties DEF TypeOK
      <4>3. Len(buffer') <= Capacity
        BY <3>2, <4>2, CapacityIsPositive
      <4> QED  BY <1>8, <3>2, <4>2, <4>3 DEF Event, TypeOK
    <3>3. CASE ~replays
      BY <1>8, <3>3 DEF Event, TypeOK
    <3> QED  BY <3>1, <3>2, <3>3
  <2> QED  BY <1>8, <2>2, <2>3 DEF Event, TypeOK, relay, bot
<1>9. ASSUME NEW e \in Events, AckReceived(e) PROVE TypeOK'
  <2>1. buffer' \in Seq(Events) /\ Len(buffer') <= Capacity
    <3>1. CASE e \in Buffered
      <4>1. PICK p \in 1..Len(buffer) : p = CHOOSE i \in 1..Len(buffer) : buffer[i] = e
        BY <3>1 DEF Buffered
      <4>2. Len(buffer) \in Nat \ {0} /\ \A i \in 1..Len(buffer) : buffer[i] \in Events
        BY <4>1, LenProperties, ElementOfSeq DEF TypeOK
      <4>3. buffer' = [i \in 1..(Len(buffer) - 1) |-> IF i < p THEN buffer[i] ELSE buffer[i + 1]]
        BY <1>9, <3>1, <4>1 DEF AckReceived, Without
      <4>4. Len(buffer) - 1 \in Nat
            /\ \A i \in 1..(Len(buffer) - 1) : i \in 1..Len(buffer) /\ i + 1 \in 1..Len(buffer)
        BY <4>2
      <4>5. buffer' \in [1..(Len(buffer) - 1) -> Events]
        BY <4>2, <4>3, <4>4
      <4>6. buffer' \in Seq(Events)
        BY <4>4, <4>5, SeqDef
      <4>7. /\ DOMAIN buffer' = 1..(Len(buffer) - 1)
            /\ DOMAIN buffer' = 1..Len(buffer') /\ Len(buffer') \in Nat
        BY <4>5, <4>6, LenProperties
      <4>8. Len(buffer') = Len(buffer) - 1
        BY <4>4, <4>7
      <4>9. Len(buffer') <= Capacity
        BY <4>2, <4>8, CapacityIsPositive DEF TypeOK
      <4> QED  BY <4>6, <4>9
    <3>2. CASE e \notin Buffered
      BY <1>9, <3>2 DEF AckReceived, TypeOK
    <3> QED  BY <3>1, <3>2
  <2> QED  BY <1>9, <2>1 DEF AckReceived, TypeOK, relay, bot
<1>10. ASSUME NEW c \in Conns, Receive(c) PROVE TypeOK'
  <2>1. Tail(toRelay[c]) \in Seq(Events) /\ Head(toRelay[c]) \in Events
    BY <1>10, TailElements DEF Receive, TypeOK
  <2>2. toRelay' \in [Conns -> Seq(Events)]
    BY <1>10, <2>1 DEF Receive, TypeOK
  <2>3. /\ phase' \in [Conns -> Phases] /\ current' \in [Conns -> Events \cup {None}]
        /\ UNCHANGED <<entry, fut>>
    <3> DEFINE m == Head(toRelay[c])
    <3>1. CASE c \notin routed
      BY <1>10, <3>1 DEF Receive, TypeOK
    <3>2. CASE c \in routed
      <4>1. /\ phase' = [phase EXCEPT ![c] = "remember"] \/ phase' = [phase EXCEPT ![c] = "archive"]
            /\ current' = [current EXCEPT ![c] = m] /\ UNCHANGED <<entry, fut>>
        BY <1>10, <3>2 DEF Receive, Move
      <4> QED  BY <2>1, <4>1 DEF TypeOK, Phases
    <3> QED  BY <3>1, <3>2
  <2> QED  BY <1>10, <2>2, <2>3 DEF Receive, TypeOK, agent, bot
<1>30. ASSUME NEW c \in Conns, Register(c) PROVE TypeOK'
  <2>1. current[c] \in Events
    BY <1>30, HeldEvent DEF Register
  <2>2. Registered(c, current[c]) \in [Conns -> {"none", "open", "yes", "no", "cancelled"}]
    BY <2>1, FutureTypes DEF Registered
  <2> QED  BY <1>30, <2>1, <2>2 DEF Register, Move, TypeOK, Phases, agent, bot
<1>11. ASSUME NEW c \in Conns, ForwardToBot(c) PROVE TypeOK'
  BY <1>11, HeldEvent DEF ForwardToBot, Move, TypeOK, Phases, agent
<1>12. ASSUME NEW c \in Conns, NotForwarded(c) PROVE TypeOK'
  <2>1. current[c] \in Events
    BY <1>12, HeldEvent DEF NotForwarded
  <2> QED  BY <1>12, <2>1, FutureTypes DEF NotForwarded, Move, TypeOK, Phases, agent, bot
<1>13. ASSUME NEW c \in Conns, ForwardFails(c) PROVE TypeOK'
  <2>1. current[c] \in Events
    BY <1>13, HeldEvent DEF ForwardFails
  <2> QED  BY <1>13, <2>1, FutureTypes, FaultType DEF ForwardFails, BotGone, Move, TypeOK, Phases, agent
<1>14. ASSUME NEW c \in Conns, WebStored(c) PROVE TypeOK'
  <2>1. current[c] \in Events
    BY <1>14, HeldEvent DEF WebStored
  <2> QED  BY <1>14, <2>1, FutureTypes DEF WebStored, Acked, Finish, Move, TypeOK, Phases, agent, bot
<1>15. ASSUME NEW c \in Conns, WebFails(c) PROVE TypeOK'
  <2>1. current[c] \in Events
    BY <1>15, HeldEvent DEF WebFails
  <2> QED  BY <1>15, <2>1 DEF WebFails, Move, TypeOK, Phases, agent, bot
<1>16. ASSUME NEW c \in Conns, BotConfirmed(c) PROVE TypeOK'
  <2>1. current[c] \in Events
    BY <1>16, HeldEvent DEF BotConfirmed
  <2> QED  BY <1>16, <2>1 DEF BotConfirmed, Acked, Finish, Move, TypeOK, Phases, agent, bot
<1>17. ASSUME NEW c \in Conns, BotRefused(c) PROVE TypeOK'
  BY <1>17 DEF BotRefused, Move, TypeOK, Phases, agent, bot
<1>18. ASSUME NEW c \in Conns, BotTimeout(c) PROVE TypeOK'
  BY <1>18 DEF BotTimeout, TypeOK, agent, bot
<1>19. ASSUME NEW c \in Conns, BotTimedOut(c) PROVE TypeOK'
  <2>1. current[c] \in Events
    BY <1>19, HeldEvent DEF BotTimedOut
  <2> QED  BY <1>19, <2>1, FutureTypes DEF BotTimedOut, Move, TypeOK, Phases, agent, bot
<1>20. ASSUME NEW c \in Conns, Archived(c) PROVE TypeOK'
  <2>1. current[c] \in Events
    BY <1>20, HeldEvent DEF Archived
  <2> QED  BY <1>20, <2>1, FutureTypes DEF Archived, Acked, Finish, Move, TypeOK, Phases, agent, bot
<1>21. ASSUME NEW c \in Conns, ArchiveFails(c) PROVE TypeOK'
  <2>1. current[c] \in Events
    BY <1>21, HeldEvent DEF ArchiveFails
  <2> QED  BY <1>21, <2>1 DEF ArchiveFails, Finish, Move, TypeOK, Phases, agent, bot
<1>22. ASSUME NEW c \in Conns, HandlerEnd(c) PROVE TypeOK'
  <2>1. toRelay' \in [Conns -> Seq(Events)]
    BY <1>22, EmptySeq DEF HandlerEnd, TypeOK
  <2>2. faults' \in 0..MaxFaults
    BY <1>22, FaultType DEF HandlerEnd, TypeOK
  <2>3. /\ conn' \in Conns \cup {None} /\ bound' \in BOOLEAN /\ replays' \in BOOLEAN
        /\ acks' \subseteq Events
    BY <1>22 DEF HandlerEnd, Disconnected, TypeOK
  <2> QED  BY <1>22, <2>1, <2>2, <2>3 DEF HandlerEnd, Move, TypeOK, Phases, bot
<1>23. ASSUME NEW c \in Conns, RouteDropped(c) PROVE TypeOK'
  BY <1>23, FaultType DEF RouteDropped, TypeOK, agent, bot
<1>24. CASE RelayRestart
  <2>1. toRelay' \in [Conns -> Seq(Events)]
    BY <1>24, EmptySeq DEF RelayRestart
  <2> QED  BY <1>24, <2>1, FaultType DEF RelayRestart, Disconnected, BotGone, TypeOK, Phases
<1>25. ASSUME NEW e \in Events, BotDecides(e) PROVE TypeOK'
  <2>1. botSays \cup {<<e, TRUE>>} \subseteq Events \X BOOLEAN
        /\ botSays \cup {<<e, FALSE>>} \subseteq Events \X BOOLEAN
    <3>1. <<e, TRUE>> \in Events \X BOOLEAN /\ <<e, FALSE>> \in Events \X BOOLEAN
      BY TRUE \in BOOLEAN /\ FALSE \in BOOLEAN
    <3>2. botSays \subseteq Events \X BOOLEAN
      BY DEF TypeOK
    <3> QED  BY <3>1, <3>2, Zenon
  <2>2. botSays' \subseteq Events \X BOOLEAN /\ stored' \subseteq Events
    <3>1. botSays' \in {botSays, botSays \cup {<<e, TRUE>>}, botSays \cup {<<e, FALSE>>}}
      BY <1>25 DEF BotDecides
    <3>2. stored' \in {stored, stored \cup {e}}
      BY <1>25 DEF BotDecides
    <3>3. botSays \subseteq Events \X BOOLEAN /\ stored \subseteq Events
      BY DEF TypeOK
    <3> QED  BY <2>1, <3>1, <3>2, <3>3
  <2> QED  BY <1>25, <2>2 DEF BotDecides, TypeOK, agent, relay
<1>26. ASSUME NEW e \in Events, NEW ok \in BOOLEAN, BotSaid(e, ok) PROVE TypeOK'
  BY <1>26, FutureTypes DEF BotSaid, TypeOK, agent
<1>27. CASE BotLeaves
  BY <1>27, FutureTypes, FaultType DEF BotLeaves, BotGone, TypeOK, agent
<1>28. CASE BotReturns
  BY <1>28 DEF BotReturns, TypeOK, agent, relay
<1> QED
  BY <1>1, <1>2, <1>3, <1>4, <1>5, <1>6, <1>7, <1>8, <1>9, <1>10, <1>30, <1>11, <1>12, <1>13,
     <1>14, <1>15, <1>16, <1>17, <1>18, <1>19, <1>20, <1>21, <1>22, <1>23, <1>24, <1>25,
     <1>26, <1>27, <1>28
  DEF Next, Agent, Bot, HandlerStep

-------------------------------------------------------------------------------
(* The handlers and the futures they wait on                                  *)

\* A future belongs to a handler that is busy with a guild match, which waits
\* for it only if the bot got the event; one that is still registered has not
\* been answered.
FuturesHeld ==
    /\ \A c \in Conns : fut[c] # "none" => phase[c] \in {"forward", "web", "bot"}
    /\ \A e \in Events : entry[e] # None => fut[entry[e]] \in {"open", "cancelled"}
    /\ \A c \in Conns : phase[c] = "web" /\ fut[c] # "none" => forwarded[c]

Handlers == Busy /\ FuturesHeld /\ EntriesMatchWaiters

\* The handler of c gives its event up, or is done with it: whatever future is
\* registered for the event is resolved, its own is dropped.
LEMMA HandlerLeaves ==
    ASSUME TypeOK, Handlers, NEW c \in Conns, phase[c] \notin {"none", "idle"},
           entry' = Popped(current[c]),
           fut' = [Resolved(current[c], "no") EXCEPT ![c] = "none"],
           \/ /\ phase' = [phase EXCEPT ![c] = "web"] \/ phase' = [phase EXCEPT ![c] = "archive"]
              /\ UNCHANGED <<current, forwarded>>
           \/ Finish(c)
    PROVE  Handlers'
<1> USE DEF Handlers, Busy, FuturesHeld, EntriesMatchWaiters
<1> DEFINE m == current[c]
<1>1. m \in Events
  BY HeldEvent
<1>2. \A d \in Conns : fut'[d] = IF d = c THEN "none"
                                  ELSE IF entry[m] = d /\ fut[d] = "open" THEN "no" ELSE fut[d]
  BY DEF Resolved, TypeOK
<1>3. \A e \in Events : entry'[e] = IF e = m THEN None ELSE entry[e]
  BY <1>1 DEF Popped, TypeOK
<1>4. \A e \in Events : entry'[e] # None => e # m /\ entry[e] # None /\ entry[e] # c /\ entry[e] \in Conns
                                            /\ entry'[e] = entry[e]
  BY <1>3 DEF TypeOK
<1>5. \A d \in Conns \ {c} : /\ phase'[d] = phase[d] /\ current'[d] = current[d]
                              /\ forwarded'[d] = forwarded[d]
  BY DEF Finish, Move, TypeOK
<1>6. Busy'
  <2>1. \/ phase'[c] \in {"web", "archive"} /\ current'[c] = m
        \/ phase'[c] = "idle" /\ current'[c] = None
    BY DEF Finish, Move, TypeOK
  <2>2. \A d \in Conns \ {c} : current'[d] = None <=> phase'[d] \in {"none", "idle"}
    BY <1>5
  <2> QED  BY <1>1, <2>1, <2>2, NoneIsNew
<1> HIDE DEF m
<1>7. FuturesHeld'
  <2>1. \A d \in Conns : fut'[d] # "none" => d # c /\ fut[d] # "none"
    BY <1>2
  <2>2. ASSUME NEW e \in Events, entry'[e] # None PROVE fut'[entry'[e]] \in {"open", "cancelled"}
    <3>1. /\ e # m /\ entry[e] \in Conns \ {c} /\ entry'[e] = entry[e]
          /\ current[entry[e]] = e /\ fut[entry[e]] \in {"open", "cancelled"}
      BY <1>4, <2>2
    <3>2. entry[m] # None => current[entry[m]] = m
      BY <1>1
    <3>3. entry[m] # entry[e]
      BY <3>1, <3>2, NoneIsNew
    <3>4. fut'[entry[e]] = fut[entry[e]]
      BY <1>2, <3>1, <3>3
    <3> QED  BY <3>1, <3>4
  <2>3. ASSUME NEW d \in Conns, fut'[d] # "none" PROVE phase'[d] \in {"forward", "web", "bot"}
    BY <1>5, <2>1, <2>3
  <2>4. ASSUME NEW d \in Conns, phase'[d] = "web", fut'[d] # "none" PROVE forwarded'[d]
    <3>1. d # c /\ fut[d] # "none" /\ phase[d] = "web"
      BY <1>5, <2>1, <2>4
    <3> QED  BY <1>5, <3>1
  <2> QED  BY <2>2, <2>3, <2>4
<1>8. EntriesMatchWaiters'
  <2>1. ASSUME NEW e \in Events, entry'[e] # None
        PROVE  current'[entry'[e]] = e /\ phase'[entry'[e]] \in {"forward", "web", "bot"}
    BY <1>4, <1>5, <2>1
  <2>2. ASSUME NEW d \in Conns, fut'[d] = "open" PROVE entry'[current'[d]] = d
    <3>1. d # c /\ fut[d] = "open" /\ entry[m] # d
      BY <1>2, <2>2
    <3>2. phase[d] \in {"forward", "web", "bot"}
      BY <3>1
    <3>3. current[d] \in Events /\ current[d] # m
      BY <3>1, <3>2, HeldEvent
    <3> QED  BY <1>3, <1>5, <3>1, <3>3
  <2> QED  BY <2>1, <2>2
<1> QED  BY <1>6, <1>7, <1>8

\* The bot is gone: no future is registered any more, none is open.
LEMMA HandlersWithoutBot ==
    ASSUME TypeOK, Handlers, BotGone
    PROVE  /\ fut' = AllRefused /\ UNCHANGED <<phase, current, forwarded>> => Handlers'
           /\ \A c \in Conns : /\ phase[c] = "forward" /\ phase' = [phase EXCEPT ![c] = "web"]
                               /\ fut' = [AllRefused EXCEPT ![c] = "none"]
                               /\ UNCHANGED <<current, forwarded>>
                               => Handlers'
<1> USE DEF Handlers, Busy, FuturesHeld, EntriesMatchWaiters
<1>1. \A c \in Conns : AllRefused[c] = "none" <=> fut[c] = "none"
  BY DEF AllRefused, TypeOK
<1>2. \A c \in Conns : AllRefused[c] # "open"
  <2>1. ASSUME NEW c \in Conns, fut[c] = "open" PROVE \E e \in Events : entry[e] = c
    <3>1. current[c] \in Events
      BY <2>1, HeldEvent
    <3> QED  BY <2>1, <3>1
  <2> QED  BY <2>1 DEF AllRefused, TypeOK
<1>3. \A e \in Events : entry'[e] = None
  BY DEF BotGone
<1>4. ASSUME fut' = AllRefused, UNCHANGED <<phase, current, forwarded>> PROVE Handlers'
  BY <1>1, <1>2, <1>3, <1>4
<1>5. ASSUME NEW c \in Conns, phase[c] = "forward", phase' = [phase EXCEPT ![c] = "web"],
             fut' = [AllRefused EXCEPT ![c] = "none"], UNCHANGED <<current, forwarded>>
      PROVE  Handlers'
  <2>1. \A d \in Conns : fut'[d] = IF d = c THEN "none" ELSE AllRefused[d]
    BY <1>5 DEF AllRefused
  <2>2. \A d \in Conns : phase'[d] = IF d = c THEN "web" ELSE phase[d]
    BY <1>5 DEF TypeOK
  <2>3. \A d \in Conns : fut'[d] # "none" => d # c /\ fut[d] # "none" /\ fut'[d] # "open"
    BY <1>1, <1>2, <2>1
  <2>4. Busy'
    BY <1>5, <2>2
  <2>5. FuturesHeld'
    BY <1>3, <1>5, <2>2, <2>3
  <2>6. EntriesMatchWaiters'
    BY <1>3, <2>3
  <2> QED  BY <2>4, <2>5, <2>6
<1> QED  BY <1>4, <1>5

\* EntriesMatchWaiters is not inductive: a handler may only leave the phase
\* "bot" without its entry because an answered future is never registered.
LEMMA HandlersStep == TypeOK /\ Handlers /\ [Next]_vars => Handlers'
<1> SUFFICES ASSUME TypeOK, Handlers, [Next]_vars PROVE Handlers'
  OBVIOUS
<1> USE DEF Handlers, Busy, FuturesHeld, EntriesMatchWaiters
<1>1. ASSUME UNCHANGED <<phase, current, forwarded, entry, fut>> PROVE Handlers'
  BY <1>1
<1>2. ASSUME NEW c \in Conns, Connect(c) PROVE Handlers'
  BY <1>2, NoneIsNew DEF Connect, TypeOK
<1>3. ASSUME NEW c \in Conns, Receive(c) PROVE Handlers'
  <2> DEFINE m == Head(toRelay[c])
  <2>1. m \in Events /\ m # None
    BY <1>3, TailElements, NoneIsNew DEF Receive, TypeOK
  <2>2. CASE c \notin routed
    BY <1>1, <1>3, <2>2 DEF Receive
  <2>3. CASE c \in routed
    <3>1. /\ phase' = [phase EXCEPT ![c] = "remember"] \/ phase' = [phase EXCEPT ![c] = "archive"]
          /\ current' = [current EXCEPT ![c] = m]
          /\ entry' = entry /\ fut' = fut /\ phase[c] = "idle"
      BY <1>3, <2>3 DEF Receive, Move
    <3> HIDE DEF m
    <3>2. /\ phase'[c] \in {"remember", "archive"}
          /\ \A d \in Conns \ {c} : phase'[d] = phase[d]
          /\ \A d \in Conns : current'[d] = IF d = c THEN m ELSE current[d]
      BY <3>1 DEF TypeOK
    <3>3. fut[c] = "none" /\ \A e \in Events : entry[e] # c
      BY <3>1, NoneIsNew
    <3>4. Busy'
      BY <2>1, <3>2
    <3>5. FuturesHeld'
      BY <1>3, <3>1, <3>2, <3>3 DEF Receive
    <3>6. EntriesMatchWaiters'
      <4>1. ASSUME NEW e \in Events, entry'[e] # None
            PROVE  current'[entry'[e]] = e /\ phase'[entry'[e]] \in {"forward", "web", "bot"}
        BY <3>1, <3>2, <3>3, <4>1 DEF TypeOK
      <4>2. ASSUME NEW d \in Conns, fut'[d] = "open" PROVE entry'[current'[d]] = d
        BY <3>1, <3>2, <3>3, <4>2
      <4> QED  BY <4>1, <4>2
    <3> QED  BY <3>4, <3>5, <3>6
  <2> QED  BY <2>2, <2>3
<1>30. ASSUME NEW c \in Conns, Register(c) PROVE Handlers'
  <2> DEFINE m == current[c]
  <2>0. m = current[c] /\ m \in Events /\ m # None
    BY <1>30, HeldEvent, NoneIsNew DEF Register
  <2>1. /\ phase' = [phase EXCEPT ![c] = "forward"] /\ current' = current
        /\ entry' = [entry EXCEPT ![m] = c] /\ fut' = Registered(c, m)
        /\ phase[c] = "remember"
    BY <1>30 DEF Register, Move
  <2>2. \A d \in Conns : fut'[d] = IF d = c THEN "open"
                                    ELSE IF entry[m] = d /\ fut[d] = "open" THEN "no" ELSE fut[d]
    BY <2>0, <2>1 DEF Registered, Resolved, TypeOK
  <2> HIDE DEF m
  <2>3. Busy'
    BY <2>0, <2>1 DEF TypeOK
  <2>4. FuturesHeld'
    <3>1. ASSUME NEW d \in Conns, fut'[d] # "none" PROVE phase'[d] \in {"forward", "web", "bot"}
      BY <2>1, <2>2, <3>1 DEF TypeOK
    <3>2. ASSUME NEW e \in Events, entry'[e] # None PROVE fut'[entry'[e]] \in {"open", "cancelled"}
      <4>1. CASE e = m
        <5>1. entry'[e] = c
          BY <2>0, <2>1, <4>1 DEF TypeOK
        <5> QED  BY <2>2, <5>1
      <4>2. CASE e # m
        <5>1. entry'[e] = entry[e] /\ entry[e] \in Conns
          BY <2>1, <3>2, <4>2 DEF TypeOK
        <5>2. /\ current[entry[e]] = e /\ phase[entry[e]] \in {"forward", "web", "bot"}
              /\ fut[entry[e]] \in {"open", "cancelled"}
          BY <3>2, <5>1
        <5>3. entry[e] # c
          BY <2>1, <5>2
        <5>4. entry[m] # None => current[entry[m]] = m
          BY <2>0
        <5>5. entry[m] # entry[e]
          BY <3>2, <4>2, <5>1, <5>2, <5>4
        <5>6. fut'[entry[e]] = fut[entry[e]]
          BY <2>2, <5>1, <5>3, <5>5
        <5> QED  BY <5>1, <5>2, <5>6
      <4> QED  BY <4>1, <4>2
    <3>3. ASSUME NEW d \in Conns, phase'[d] = "web", fut'[d] # "none" PROVE forwarded'[d]
      <4>1. d # c /\ phase[d] = "web" /\ fut[d] # "none"
        BY <2>1, <2>2, <3>3 DEF TypeOK
      <4> QED  BY <1>30, <4>1 DEF Register
    <3> QED  BY <3>1, <3>2, <3>3
  <2>5. EntriesMatchWaiters'
    <3>1. ASSUME NEW e \in Events, entry'[e] # None
          PROVE  current'[entry'[e]] = e /\ phase'[entry'[e]] \in {"forward", "web", "bot"}
      <4>1. CASE e = m
        BY <2>0, <2>1, <4>1 DEF TypeOK
      <4>2. CASE e # m
        <5>1. entry'[e] = entry[e] /\ entry[e] \in Conns
          BY <2>1, <3>1, <4>2 DEF TypeOK
        <5>2. current[entry[e]] = e /\ phase[entry[e]] \in {"forward", "web", "bot"} /\ entry[e] # c
          BY <2>1, <3>1, <5>1
        <5>3. phase'[entry[e]] = phase[entry[e]]
          BY <2>1, <5>1, <5>2 DEF TypeOK
        <5> QED  BY <2>1, <5>1, <5>2, <5>3
      <4> QED  BY <4>1, <4>2
    <3>2. ASSUME NEW d \in Conns, fut'[d] = "open" PROVE entry'[current'[d]] = d
      <4>1. CASE d = c
        BY <2>0, <2>1, <4>1 DEF TypeOK
      <4>2. CASE d # c
        <5>1. fut[d] = "open" /\ entry[m] # d /\ entry[current[d]] = d
          BY <2>2, <3>2, <4>2
        <5>2. current[d] \in Events /\ current[d] # m
          BY <5>1, HeldEvent
        <5> QED  BY <2>1, <5>1, <5>2 DEF TypeOK
      <4> QED  BY <4>1, <4>2
    <3> QED  BY <3>1, <3>2
  <2> QED  BY <2>3, <2>4, <2>5
<1>4. ASSUME NEW c \in Conns, ForwardToBot(c) PROVE Handlers'
  BY <1>4, HeldEvent DEF ForwardToBot, Move, TypeOK
<1>5. ASSUME NEW c \in Conns, NotForwarded(c) PROVE Handlers'
  BY <1>5, HandlerLeaves DEF NotForwarded, Move
<1>6. ASSUME NEW c \in Conns, ForwardFails(c) PROVE Handlers'
  BY <1>6, HandlersWithoutBot DEF ForwardFails, Move
<1>7. ASSUME NEW c \in Conns, WebStored(c) PROVE Handlers'
  BY <1>7, HandlerLeaves DEF WebStored
<1>8. ASSUME NEW c \in Conns, WebFails(c) PROVE Handlers'
  <2>1. CASE forwarded[c]
    BY <1>8, <2>1 DEF WebFails, Move, TypeOK
  <2>2. CASE ~forwarded[c]
    <3>1. fut[c] = "none" /\ \A e \in Events : entry[e] # c
      BY <1>8, <2>2, NoneIsNew DEF WebFails
    <3> QED  BY <1>8, <2>2, <3>1 DEF WebFails, Move, TypeOK
  <2> QED  BY <2>1, <2>2
<1>9. ASSUME NEW c \in Conns, fut[c] \in {"yes", "no"} PROVE \A e \in Events : entry[e] # c
  BY <1>9, NoneIsNew
<1>10. ASSUME NEW c \in Conns, BotConfirmed(c) PROVE Handlers'
  BY <1>9, <1>10 DEF BotConfirmed, Finish, Move, TypeOK
<1>11. ASSUME NEW c \in Conns, BotRefused(c) PROVE Handlers'
  BY <1>9, <1>11 DEF BotRefused, Move, TypeOK
<1>12. ASSUME NEW c \in Conns, BotTimeout(c) PROVE Handlers'
  BY <1>12 DEF BotTimeout, TypeOK
<1>13. ASSUME NEW c \in Conns, BotTimedOut(c) PROVE Handlers'
  BY <1>13, HandlerLeaves DEF BotTimedOut, Move
<1>14. ASSUME NEW c \in Conns, phase[c] = "archive" PROVE fut[c] = "none" /\ \A e \in Events : entry[e] # c
  BY <1>14, NoneIsNew
<1>15. ASSUME NEW c \in Conns, Archived(c) PROVE Handlers'
  <2>1. CASE current[c] \in GuildEvents
    <3>1. current[c] \in Events
      BY <1>15, HeldEvent DEF Archived
    <3>2. entry[current[c]] # c
      BY <1>14, <1>15, <3>1 DEF Archived
    <3>3. fut' = [Resolved(current[c], "no") EXCEPT ![c] = "none"]
      BY <1>14, <1>15, <2>1, <3>2 DEF Archived, Resolved, TypeOK
    <3> QED  BY <1>15, <2>1, <3>3, HandlerLeaves DEF Archived
  <2>2. CASE current[c] \notin GuildEvents
    BY <1>14, <1>15, <2>2 DEF Archived, Finish, Move, TypeOK
  <2> QED  BY <2>1, <2>2
<1>16. ASSUME NEW c \in Conns, ArchiveFails(c) PROVE Handlers'
  BY <1>14, <1>16 DEF ArchiveFails, Finish, Move, TypeOK
<1>17. ASSUME NEW c \in Conns, HandlerEnd(c) PROVE Handlers'
  BY <1>17 DEF HandlerEnd, Move, TypeOK
<1>18. CASE RelayRestart
  BY <1>18 DEF RelayRestart, BotGone
<1>19. ASSUME NEW e \in Events, NEW ok \in BOOLEAN, BotSaid(e, ok) PROVE Handlers'
  <2> DEFINE v == IF ok THEN "yes" ELSE "no"
  <2>1. \A d \in Conns : fut'[d] = IF entry[e] = d /\ fut[d] = "open" THEN v ELSE fut[d]
    BY <1>19 DEF BotSaid, Resolved
  <2>2. \A f \in Events : entry'[f] = IF f = e THEN None ELSE entry[f]
    BY <1>19 DEF BotSaid, Popped, TypeOK
  <2>3. v \in {"yes", "no"} /\ UNCHANGED <<phase, current, forwarded>>
    BY <1>19 DEF BotSaid
  <2> HIDE DEF v
  <2>4. Busy'
    BY <2>3
  <2>5. FuturesHeld'
    <3>1. ASSUME NEW f \in Events, entry'[f] # None PROVE fut'[entry'[f]] \in {"open", "cancelled"}
      <4>1. f # e /\ entry'[f] = entry[f] /\ entry[f] \in Conns /\ entry[f] # None
        BY <2>2, <3>1 DEF TypeOK
      <4>2. entry[e] # entry[f]
        BY <4>1
      <4> QED  BY <2>1, <4>1, <4>2
    <3>2. \A d \in Conns : fut'[d] # "none" => fut[d] # "none"
      BY <2>1, <2>3
    <3> QED  BY <2>3, <3>1, <3>2
  <2>6. EntriesMatchWaiters'
    <3>1. ASSUME NEW d \in Conns, fut'[d] = "open" PROVE entry'[current'[d]] = d
      <4>1. fut[d] = "open" /\ entry[e] # d
        BY <2>1, <2>3, <3>1
      <4>2. current[d] \in Events /\ current[d] # e
        BY <4>1, HeldEvent
      <4> QED  BY <2>2, <2>3, <4>1, <4>2
    <3> QED  BY <2>2, <2>3, <3>1
  <2> QED  BY <2>4, <2>5, <2>6
<1>20. CASE BotLeaves
  BY <1>20, HandlersWithoutBot DEF BotLeaves
<1> HIDE DEF Handlers
<1>21. ASSUME NEW e \in Events, Event(e) \/ AckReceived(e) \/ BotDecides(e) PROVE Handlers'
  BY <1>1, <1>21 DEF Event, AckReceived, BotDecides, relay
<1>22. CASE \/ UNCHANGED vars \/ ServerHello \/ SessionBound \/ Tick \/ Disconnect
            \/ AgentRestart \/ BotReturns
  BY <1>1, <1>22 DEF vars, relay, ServerHello, SessionBound, Tick, Disconnect, AgentRestart, BotReturns
<1>23. ASSUME NEW c \in Conns, RouteDropped(c) PROVE Handlers'
  BY <1>1, <1>23 DEF RouteDropped
<1> QED
  BY <1>2, <1>3, <1>30, <1>4, <1>5, <1>6, <1>7, <1>8, <1>10, <1>11, <1>12, <1>13, <1>15, <1>16,
     <1>17, <1>18, <1>19, <1>20, <1>21, <1>22, <1>23
  DEF Next, Agent, Bot, HandlerStep

-------------------------------------------------------------------------------
(* Confirmations                                                              *)

LEMMA StoredBeforeAckStep ==
    TypeOK /\ Handlers /\ StoredBeforeAck /\ [Next]_vars => StoredBeforeAck'
<1> SUFFICES ASSUME TypeOK, Handlers, StoredBeforeAck, [Next]_vars PROVE StoredBeforeAck'
  OBVIOUS
<1> USE DEF StoredBeforeAck
<1>1. ASSUME UNCHANGED <<fut, current, acks, botSays>>, stored \subseteq stored'
      PROVE  StoredBeforeAck'
  BY <1>1
\* Steps that answer no future with "yes" and send no ACK.
<1>2. ASSUME stored \subseteq stored', acks' \subseteq acks, botSays' \subseteq botSays,
             \A c \in Conns : fut'[c] = "yes" => fut[c] = "yes" /\ current'[c] = current[c]
      PROVE  StoredBeforeAck'
  BY <1>2
<1>3. \A e \in Events, c \in Conns : Resolved(e, "no")[c] = "yes" => fut[c] = "yes"
  BY DEF Resolved
<1>4. \A c \in Conns : AllRefused[c] = "yes" => fut[c] = "yes"
  BY DEF AllRefused
<1>5. \A c \in Conns : fut[c] # "none" => phase[c] \in {"forward", "web", "bot"}
  BY DEF Handlers, FuturesHeld
<1>6. \A e \in Events : DOMAIN Resolved(e, "no") = Conns
  BY DEF Resolved
<1>7. ASSUME NEW c \in Conns, Receive(c) PROVE StoredBeforeAck'
  <2>1. fut[c] # "yes" /\ fut' = fut
    BY <1>5, <1>7 DEF Receive
  <2>2. \A d \in Conns \ {c} : current'[d] = current[d]
    BY <1>7 DEF Receive, TypeOK
  <2> QED  BY <1>2, <1>7, <2>1, <2>2 DEF Receive, bot
<1>30. ASSUME NEW c \in Conns, Register(c) PROVE StoredBeforeAck'
  <2>1. current[c] \in Events
    BY <1>30, HeldEvent DEF Register, Handlers
  <2>2. fut' = [Resolved(current[c], "no") EXCEPT ![c] = "open"]
    BY <1>30 DEF Register, Registered
  <2>3. \A d \in Conns : fut'[d] = "yes" => fut[d] = "yes"
    BY <1>3, <1>6, <2>1, <2>2
  <2> QED  BY <1>2, <1>30, <2>3 DEF Register, bot
<1>8. ASSUME NEW c \in Conns, NotForwarded(c) \/ BotTimedOut(c) PROVE StoredBeforeAck'
  <2>1. current[c] \in Events
    BY <1>8, HeldEvent DEF NotForwarded, BotTimedOut, Handlers
  <2>2. fut' = [Resolved(current[c], "no") EXCEPT ![c] = "none"]
    BY <1>8 DEF NotForwarded, BotTimedOut
  <2>3. \A d \in Conns : fut'[d] = "yes" => fut[d] = "yes"
    BY <1>3, <1>6, <2>1, <2>2
  <2> QED  BY <1>2, <1>8, <2>3 DEF NotForwarded, BotTimedOut, bot
<1>9. ASSUME NEW c \in Conns, ForwardFails(c) PROVE StoredBeforeAck'
  <2>1. DOMAIN AllRefused = Conns
    BY DEF AllRefused
  <2>2. \A d \in Conns : fut'[d] = "yes" => fut[d] = "yes"
    BY <1>4, <1>9, <2>1 DEF ForwardFails
  <2> QED  BY <1>2, <1>9, <2>2 DEF ForwardFails, BotGone
<1>10. CASE BotLeaves
  BY <1>2, <1>4, <1>10 DEF BotLeaves, BotGone
<1>11. ASSUME NEW c \in Conns, WebStored(c) PROVE StoredBeforeAck'
  <2>1. current[c] \in Events
    BY <1>11, HeldEvent DEF WebStored, Handlers
  <2>2. fut' = [Resolved(current[c], "no") EXCEPT ![c] = "none"]
    BY <1>11 DEF WebStored
  <2>3. \A d \in Conns : fut'[d] = "yes" => fut[d] = "yes" /\ d # c
    BY <1>3, <1>6, <2>1, <2>2
  <2>4. \A d \in Conns \ {c} : current'[d] = current[d]
    BY <1>11 DEF WebStored, Finish, TypeOK
  <2>5. acks' \subseteq acks \cup {current[c]} /\ stored' = stored \cup {current[c]} /\ botSays' = botSays
    BY <1>11 DEF WebStored, Acked, bot
  <2> QED  BY <2>3, <2>4, <2>5
<1>12. ASSUME NEW c \in Conns, BotConfirmed(c) PROVE StoredBeforeAck'
  <2>1. current[c] \in stored
    BY <1>12 DEF BotConfirmed
  <2>2. \A d \in Conns : fut'[d] = "yes" => fut[d] = "yes" /\ d # c
    BY <1>12 DEF BotConfirmed, TypeOK
  <2>3. \A d \in Conns \ {c} : current'[d] = current[d]
    BY <1>12 DEF BotConfirmed, Finish, TypeOK
  <2>4. acks' \subseteq acks \cup {current[c]} /\ stored' = stored /\ botSays' = botSays
    BY <1>12 DEF BotConfirmed, Acked, bot
  <2> QED  BY <2>1, <2>2, <2>3, <2>4
<1>13. ASSUME NEW c \in Conns, Archived(c) PROVE StoredBeforeAck'
  <2>1. current[c] \in Events /\ fut[c] # "yes"
    BY <1>5, <1>13, HeldEvent DEF Archived, Handlers
  <2>2. \A d \in Conns : fut'[d] = "yes" => fut[d] = "yes" /\ d # c
    BY <1>3, <1>13, <2>1 DEF Archived
  <2>3. \A d \in Conns \ {c} : current'[d] = current[d]
    BY <1>13 DEF Archived, Finish, TypeOK
  <2>4. acks' \subseteq acks \cup {current[c]} /\ stored' = stored \cup {current[c]} /\ botSays' = botSays
    BY <1>13 DEF Archived, Acked, bot
  <2> QED  BY <2>2, <2>3, <2>4
<1>14. ASSUME NEW c \in Conns, ArchiveFails(c) PROVE StoredBeforeAck'
  <2>1. fut[c] # "yes" /\ \A d \in Conns \ {c} : current'[d] = current[d]
    BY <1>5, <1>14 DEF ArchiveFails, Finish, TypeOK
  <2>2. UNCHANGED <<acks, fut, botSays>> /\ stored \subseteq stored'
    BY <1>14 DEF ArchiveFails, bot
  <2> QED  BY <1>2, <2>1, <2>2
<1>15. ASSUME NEW c \in Conns, WebFails(c) PROVE StoredBeforeAck'
  <2>1. UNCHANGED <<acks, fut, botSays, current>> /\ stored \subseteq stored'
    BY <1>15 DEF WebFails, bot
  <2> QED  BY <1>1, <2>1
<1>16. ASSUME NEW c \in Conns, BotRefused(c) \/ BotTimeout(c) PROVE StoredBeforeAck'
  <2>1. UNCHANGED <<acks, botSays, current, stored>>
    BY <1>16 DEF BotRefused, BotTimeout, bot
  <2>2. \A d \in Conns : fut'[d] = "yes" => fut[d] = "yes"
    BY <1>16 DEF BotRefused, BotTimeout, TypeOK
  <2> QED  BY <1>2, <2>1, <2>2
<1>17. CASE RelayRestart
  BY <1>2, <1>17 DEF RelayRestart, Disconnected, BotGone
<1>18. ASSUME NEW e \in Events, BotDecides(e) PROVE StoredBeforeAck'
  <2>1. UNCHANGED <<acks, fut, current>>
    BY <1>18 DEF BotDecides, relay
  <2>2. stored \subseteq stored'
    BY <1>18 DEF BotDecides
  <2>3. ASSUME NEW d \in Events, <<d, TRUE>> \in botSays' PROVE d \in stored'
    <3>1. \/ stored' = stored \cup {e} /\ botSays' \subseteq botSays \cup {<<e, TRUE>>}
          \/ stored' = stored /\ botSays' \subseteq botSays \cup {<<e, FALSE>>}
      BY <1>18 DEF BotDecides
    <3>2. <<d, TRUE>> # <<e, FALSE>> /\ (<<d, TRUE>> = <<e, TRUE>> => d = e)
      OBVIOUS
    <3> QED  BY <2>3, <3>1, <3>2
  <2> QED  BY <2>1, <2>2, <2>3
\* The answer reaches the handler that is busy with the event.
<1>19. ASSUME NEW e \in Events, NEW ok \in BOOLEAN, BotSaid(e, ok) PROVE StoredBeforeAck'
  <2>1. UNCHANGED <<acks, current, stored>> /\ botSays' \subseteq botSays
    BY <1>19 DEF BotSaid
  <2>2. ASSUME NEW d \in Conns, fut'[d] = "yes" PROVE current'[d] \in stored'
    <3>1. CASE fut[d] = "yes"
      BY <2>1, <3>1
    <3>2. CASE fut[d] # "yes"
      <4>1. entry[e] = d /\ ok
        BY <1>19, <2>2, <3>2 DEF BotSaid, Resolved
      <4>2. current[d] = e
        BY <4>1, NoneIsNew DEF Handlers, EntriesMatchWaiters
      <4>3. <<e, TRUE>> \in botSays
        BY <1>19, <4>1 DEF BotSaid
      <4> QED  BY <2>1, <4>2, <4>3
    <3> QED  BY <3>1, <3>2
  <2> QED  BY <2>1, <2>2
<1>20. ASSUME NEW e \in Events, Event(e) \/ AckReceived(e) PROVE StoredBeforeAck'
  BY <1>2, <1>20 DEF Event, AckReceived, relay, bot
<1>21. ASSUME NEW c \in Conns, Connect(c) \/ ForwardToBot(c) \/ RouteDropped(c) \/ HandlerEnd(c)
       PROVE  StoredBeforeAck'
  BY <1>2, <1>21 DEF Connect, ForwardToBot, RouteDropped, HandlerEnd, Disconnected, bot
<1>22. CASE \/ UNCHANGED vars \/ ServerHello \/ SessionBound \/ Tick \/ Disconnect
            \/ AgentRestart \/ BotReturns
  BY <1>2, <1>22 DEF vars, relay, bot, ServerHello, SessionBound, Tick, Disconnect,
                     AgentRestart, Disconnected, BotReturns
<1> QED
  BY <1>7, <1>30, <1>8, <1>9, <1>10, <1>11, <1>12, <1>13, <1>14, <1>15, <1>16, <1>17, <1>18, <1>19,
     <1>20, <1>21, <1>22
  DEF Next, Agent, Bot, HandlerStep

-------------------------------------------------------------------------------
(* Where the events are                                                       *)

\* No event is buffered twice; every event that happened is buffered, stored or
\* given up; nothing but such events is under way.
Provenance ==
    /\ Distinct(buffer)
    /\ made = Elements(buffer) \cup stored \cup lost
    /\ botHas \subseteq made
    /\ \A c \in Conns : Elements(toRelay[c]) \subseteq made
    /\ \A c \in Conns : current[c] # None => current[c] \in made

LEMMA EventBuffer ==
    ASSUME TypeOK, Provenance, NEW e \in Events, Event(e)
    PROVE  /\ Distinct(buffer') /\ e \notin Elements(buffer) \cup stored \cup lost
           /\ \/ \E given \in {{}} \cup {{d} : d \in Elements(buffer)} :
                    /\ Elements(buffer') = (Elements(buffer) \ given) \cup {e}
                    /\ lost' = lost \cup given
              \/ buffer' = buffer /\ lost' = lost \cup {e}
<1>1. e \notin Elements(buffer) \cup stored \cup lost
  BY DEF Event, Provenance
<1>2. CASE replays
  <2>1. buffer \in Seq(Events) /\ Len(buffer) <= Capacity /\ Distinct(buffer)
    BY DEF TypeOK, Provenance
  <2> DEFINE given == IF Len(buffer) >= Capacity THEN {Head(buffer)} ELSE {}
  <2>2. /\ Distinct(Tracked(buffer, e))
        /\ Elements(Tracked(buffer, e)) = (Elements(buffer) \ given) \cup {e}
        /\ Len(buffer) >= Capacity => Head(buffer) \in Elements(buffer)
    BY <1>1, <2>1, TrackedElements
  <2>3. buffer' = Tracked(buffer, e) /\ lost' = lost \cup given
    BY <1>2 DEF Event
  <2>4. given \in {{}} \cup {{d} : d \in Elements(buffer)}
    BY <2>2
  <2> HIDE DEF given
  <2> QED  BY <1>1, <2>2, <2>3, <2>4
<1>3. CASE ~replays
  BY <1>1, <1>3 DEF Event, Provenance
<1> QED  BY <1>2, <1>3

LEMMA AckBuffer ==
    ASSUME TypeOK, Provenance, NEW e \in Events, AckReceived(e)
    PROVE  Distinct(buffer') /\ Elements(buffer') = Elements(buffer) \ {e}
<1>1. CASE e \in Elements(buffer)
  <2>1. buffer' = Without(buffer, e)
    BY <1>1 DEF AckReceived, Buffered, Elements
  <2> QED  BY <1>1, <2>1, WithoutElements DEF TypeOK, Provenance
<1>2. CASE e \notin Elements(buffer)
  <2>1. buffer' = buffer
    BY <1>2 DEF AckReceived, Buffered, Elements
  <2> QED  BY <1>2, <2>1 DEF Provenance
<1> QED  BY <1>1, <1>2

LEMMA ProvenanceStep ==
    TypeOK /\ Busy /\ StoredBeforeAck /\ Provenance /\ [Next]_vars => Provenance'
<1> SUFFICES ASSUME TypeOK, Busy, StoredBeforeAck, Provenance, [Next]_vars PROVE Provenance'
  OBVIOUS
\* Steps that touch neither the buffer nor the messages; what they store has happened.
<1>1. ASSUME UNCHANGED <<buffer, made, lost, toRelay>>, stored \subseteq stored', stored' \subseteq made,
             botHas' \subseteq made, \A c \in Conns : current'[c] \in {None, current[c]}
      PROVE  Provenance'
  BY <1>1 DEF Provenance
<1>2. ASSUME NEW c \in Conns, current[c] \in Events PROVE current[c] \in made
  BY <1>2, NoneIsNew DEF Provenance
<1>3. stored \subseteq made
  BY DEF Provenance
<1>4. ASSUME NEW c \in Conns, Replay(c), UNCHANGED <<buffer, made, lost, stored, botHas, current>>
      PROVE  Provenance'
  <2>1. Elements(toRelay[c] \o buffer) = Elements(toRelay[c]) \cup Elements(buffer)
    BY ConcatElements DEF TypeOK
  <2>2. Elements(toRelay[c] \o buffer) \subseteq made
    BY <2>1 DEF Provenance
  <2>3. \A d \in Conns : toRelay'[d] = IF d = c THEN toRelay[c] \o buffer ELSE toRelay[d]
    BY <1>4 DEF Replay, TypeOK
  <2> QED  BY <1>4, <2>2, <2>3 DEF Provenance
<1>5. CASE ServerHello
  <2>1. conn \in Conns /\ UNCHANGED <<buffer, made, lost, stored, botHas, current>>
    BY <1>5 DEF ServerHello, relay, bot, TypeOK
  <2>2. Replay(conn) \/ UNCHANGED toRelay
    BY <1>5 DEF ServerHello
  <2>3. botHas \subseteq made
    BY DEF Provenance
  <2> QED  BY <1>1, <1>3, <1>4, <2>1, <2>2, <2>3
<1>6. CASE SessionBound
  <2>1. conn \in Conns /\ UNCHANGED <<buffer, made, lost, stored, botHas, current>>
    BY <1>6 DEF SessionBound, bot, TypeOK
  <2>2. Replay(conn) \/ UNCHANGED toRelay
    BY <1>6 DEF SessionBound
  <2>3. botHas \subseteq made
    BY DEF Provenance
  <2> QED  BY <1>1, <1>3, <1>4, <2>1, <2>2, <2>3
<1>7. CASE Tick
  <2>1. conn \in Conns /\ UNCHANGED <<buffer, made, lost, stored, botHas, current>> /\ Replay(conn)
    BY <1>7 DEF Tick, agent, relay, bot, TypeOK
  <2> QED  BY <1>4, <2>1
<1>8. ASSUME NEW e \in Events, Event(e) PROVE Provenance'
  <2>1. /\ conn \in Conns /\ made' = made \cup {e}
        /\ UNCHANGED <<stored, botHas, current>>
        /\ toRelay' = [toRelay EXCEPT ![conn] = Append(@, e)]
    BY <1>8 DEF Event, relay, bot, TypeOK
  <2>2. /\ Distinct(buffer')
        /\ \/ \E given \in {{}} \cup {{d} : d \in Elements(buffer)} :
                 /\ Elements(buffer') = (Elements(buffer) \ given) \cup {e}
                 /\ lost' = lost \cup given
           \/ buffer' = buffer /\ lost' = lost \cup {e}
    BY <1>8, EventBuffer
  <2>3. made' = Elements(buffer') \cup stored' \cup lost'
    <3>1. CASE buffer' = buffer /\ lost' = lost \cup {e}
      BY <2>1, <3>1 DEF Provenance
    <3>2. ASSUME NEW given \in {{}} \cup {{d} : d \in Elements(buffer)},
                 Elements(buffer') = (Elements(buffer) \ given) \cup {e},
                 lost' = lost \cup given
          PROVE  made' = Elements(buffer') \cup stored' \cup lost'
      <4>1. given \subseteq Elements(buffer)
        OBVIOUS
      <4> QED  BY <2>1, <3>2, <4>1 DEF Provenance
    <3> QED  BY <2>2, <3>1, <3>2
  <2>4. Elements(Append(toRelay[conn], e)) = Elements(toRelay[conn]) \cup {e}
    BY <2>1, AppendElements DEF TypeOK
  <2>5. ASSUME NEW c \in Conns PROVE Elements(toRelay'[c]) \subseteq made'
    <3>1. toRelay'[c] = IF c = conn THEN Append(toRelay[conn], e) ELSE toRelay[c]
      BY <2>1 DEF TypeOK
    <3> QED  BY <2>1, <2>4, <3>1 DEF Provenance
  <2> QED  BY <2>1, <2>2, <2>3, <2>5 DEF Provenance
<1>9. ASSUME NEW e \in Events, AckReceived(e) PROVE Provenance'
  <2>1. /\ e \in stored
        /\ UNCHANGED <<made, lost, stored, botHas, current, toRelay>>
    BY <1>9 DEF AckReceived, relay, bot, StoredBeforeAck
  <2>2. Distinct(buffer') /\ Elements(buffer') = Elements(buffer) \ {e}
    BY <1>9, AckBuffer
  <2> QED  BY <2>1, <2>2 DEF Provenance
<1>10. CASE AgentRestart
  <2>1. /\ buffer' = <<>> /\ lost' = lost \cup Elements(buffer)
        /\ UNCHANGED <<made, stored, botHas, current, toRelay>>
    BY <1>10 DEF AgentRestart, relay, bot, Buffered, Elements
  <2>2. Distinct(<<>>) /\ Elements(<<>>) = {}
    BY DEF Distinct, Elements
  <2> QED  BY <2>1, <2>2 DEF Provenance
<1>11. ASSUME NEW c \in Conns, Receive(c) PROVE Provenance'
  <2> DEFINE m == Head(toRelay[c])
  <2>1. /\ UNCHANGED <<buffer, made, lost, stored, botHas>>
        /\ toRelay' = [toRelay EXCEPT ![c] = Tail(@)]
        /\ current' = current \/ current' = [current EXCEPT ![c] = m]
    BY <1>11 DEF Receive, agent, bot
  <2>2. m \in Elements(toRelay[c]) /\ Elements(Tail(toRelay[c])) \subseteq Elements(toRelay[c])
    BY <1>11, TailElements DEF Receive, TypeOK
  <2>3. m \in made /\ Elements(Tail(toRelay[c])) \subseteq made
    BY <2>2 DEF Provenance
  <2> HIDE DEF m
  <2>4. \A d \in Conns :
        \/ toRelay'[d] \in {Tail(toRelay[c])} /\ d = c
        \/ toRelay'[d] = toRelay[d]
    BY <2>1 DEF TypeOK
  <2>5. \A d \in Conns : current'[d] \in {m, current[d]}
    BY <2>1 DEF TypeOK
  <2> QED  BY <2>1, <2>3, <2>4, <2>5 DEF Provenance
<1>12. ASSUME NEW c \in Conns, HandlerEnd(c) PROVE Provenance'
  <2>1. /\ UNCHANGED <<buffer, made, lost, stored, botHas, current>>
        /\ toRelay' = [toRelay EXCEPT ![c] = <<>>]
    BY <1>12 DEF HandlerEnd, bot
  <2>2. Elements(<<>>) = {} /\ \A d \in Conns : toRelay'[d] \in {<<>>, toRelay[d]}
    BY <2>1 DEF Elements, TypeOK
  <2> QED  BY <2>1, <2>2 DEF Provenance
<1>13. CASE RelayRestart
  <2>1. /\ UNCHANGED <<buffer, made, lost, stored, botHas>>
        /\ \A c \in Conns : current'[c] = None /\ toRelay'[c] = <<>>
    BY <1>13 DEF RelayRestart
  <2>2. Elements(<<>>) = {}
    BY DEF Elements
  <2> QED  BY <2>1, <2>2 DEF Provenance
<1>14. ASSUME NEW c \in Conns, ForwardToBot(c) \/ ForwardFails(c) PROVE Provenance'
  <2>1. current[c] \in made
    BY <1>2, <1>14, HeldEvent DEF ForwardToBot, ForwardFails
  <2>2. /\ UNCHANGED <<buffer, made, lost, toRelay, stored, current>>
        /\ botHas' \subseteq botHas \cup {current[c]}
    BY <1>14 DEF ForwardToBot, ForwardFails, agent
  <2> QED  BY <1>1, <1>3, <2>1, <2>2 DEF Provenance
<1>15. ASSUME NEW c \in Conns, WebStored(c) \/ WebFails(c) \/ Archived(c) \/ ArchiveFails(c)
       PROVE  Provenance'
  <2>1. current[c] \in made
    BY <1>2, <1>15, HeldEvent DEF WebStored, WebFails, Archived, ArchiveFails
  <2>2. UNCHANGED <<buffer, made, lost, toRelay, botHas>>
    BY <1>15 DEF WebStored, WebFails, Archived, ArchiveFails, agent, bot
  <2>3. stored' \in {stored, stored \cup {current[c]}}
    BY <1>15 DEF WebStored, WebFails, Archived, ArchiveFails
  <2>4. current' = current \/ current' = [current EXCEPT ![c] = None]
    BY <1>15 DEF WebStored, WebFails, Archived, ArchiveFails, Finish
  <2>5. \A d \in Conns : current'[d] \in {None, current[d]}
    BY <2>4 DEF TypeOK
  <2> QED  BY <1>1, <1>3, <2>1, <2>2, <2>3, <2>5 DEF Provenance
<1>16. ASSUME NEW c \in Conns, BotConfirmed(c) PROVE Provenance'
  <2>1. UNCHANGED <<buffer, made, lost, toRelay, botHas, stored>>
    BY <1>16 DEF BotConfirmed, agent, bot
  <2>2. \A d \in Conns : current'[d] \in {None, current[d]}
    BY <1>16 DEF BotConfirmed, Finish, TypeOK
  <2> QED  BY <1>1, <1>3, <2>1, <2>2 DEF Provenance
<1>17. ASSUME NEW c \in Conns,
              \/ Connect(c) \/ Register(c) \/ NotForwarded(c) \/ BotRefused(c) \/ BotTimeout(c)
              \/ BotTimedOut(c) \/ RouteDropped(c)
       PROVE  Provenance'
  <2>1. UNCHANGED <<buffer, made, lost, toRelay, botHas, stored, current>>
    BY <1>17 DEF Connect, Register, NotForwarded, BotRefused, BotTimeout, BotTimedOut, RouteDropped, agent, bot
  <2> QED  BY <2>1 DEF Provenance
<1>18. ASSUME NEW e \in Events, BotDecides(e) PROVE Provenance'
  <2>1. UNCHANGED <<buffer, made, lost, toRelay, current>> /\ botHas' = botHas \ {e} /\ e \in botHas
    BY <1>18 DEF BotDecides, agent, relay
  <2>2. stored' \in {stored, stored \cup {e}}
    BY <1>18 DEF BotDecides
  <2> QED  BY <1>1, <1>3, <2>1, <2>2 DEF Provenance
<1>19. ASSUME NEW e \in Events, NEW ok \in BOOLEAN, BotSaid(e, ok) PROVE Provenance'
  BY <1>19 DEF BotSaid, agent, Provenance
<1>20. CASE Disconnect \/ BotLeaves \/ BotReturns \/ UNCHANGED vars
  BY <1>20 DEF Disconnect, BotLeaves, BotReturns, vars, agent, relay, bot, Provenance
<1> QED
  BY <1>5, <1>6, <1>7, <1>8, <1>9, <1>10, <1>11, <1>12, <1>13, <1>14, <1>15, <1>16, <1>17,
     <1>18, <1>19, <1>20
  DEF Next, Agent, Bot, HandlerStep

-------------------------------------------------------------------------------
(* The theorems                                                               *)

\* The inductive invariant of the module.
IndInv == TypeOK /\ Handlers /\ StoredBeforeAck /\ Provenance

LEMMA Inductive == Spec => []IndInv
<1>1. Init => IndInv
  <2> SUFFICES ASSUME Init PROVE IndInv
    OBVIOUS
  <2>1. <<>> \in Seq(Events) /\ Len(<<>>) = 0 /\ Distinct(<<>>) /\ Elements(<<>>) = {}
    BY EmptySeq DEF Distinct, Elements
  <2>2. TypeOK
    <3>1. buffer \in Seq(Events) /\ Len(buffer) <= Capacity /\ faults \in 0..MaxFaults
      BY <2>1, CapacityIsPositive, BoundsAreNats DEF Init
    <3>2. toRelay \in [Conns -> Seq(Events)]
      BY <2>1 DEF Init
    <3>3. botSays \subseteq Events \X BOOLEAN
      BY DEF Init
    <3> QED  BY <3>1, <3>2, <3>3 DEF Init, TypeOK, Phases
  <2>3. Handlers
    BY DEF Init, Handlers, Busy, FuturesHeld, EntriesMatchWaiters
  <2>4. StoredBeforeAck
    BY DEF Init, StoredBeforeAck
  <2>5. Provenance
    BY <2>1 DEF Init, Provenance
  <2> QED  BY <2>2, <2>3, <2>4, <2>5 DEF IndInv
<1>2. IndInv /\ [Next]_vars => IndInv'
  BY TypeStep, HandlersStep, StoredBeforeAckStep, ProvenanceStep DEF IndInv, Handlers
<1> QED  BY <1>1, <1>2, PTL DEF Spec

\* The agent, the handlers and the futures keep their types, and the replay
\* buffer never exceeds MAX_DURABLE_REPLAY_EVENTS.
THEOREM TypeCorrect == Spec => []TypeOK
BY Inductive, PTL DEF IndInv

\* No ACK is sent, and no handler told that the bot saved its event, before the
\* event is stored, however the handlers of several connections overlap.
THEOREM AcksFollowStorage == Spec => []StoredBeforeAck
BY Inductive, PTL DEF IndInv

\* _pending_bot_eog holds the futures of the handlers that are busy with their
\* events and no others, and a waiting handler is always registered.
THEOREM EntriesCorrect == Spec => []EntriesMatchWaiters
BY Inductive, PTL DEF IndInv, Handlers

\* One step of the agent, the handlers or the bot is a step of AtLeastOnce or
\* changes nothing it speaks about.
LEMMA StepRefines == IndInv /\ [Next]_vars => [ALO!Next]_(ALO!vars)
<1> SUFFICES ASSUME IndInv, [Next]_vars PROVE ALO!Next \/ UNCHANGED ALO!vars
  OBVIOUS
<1>1. /\ TypeOK /\ Busy /\ StoredBeforeAck /\ Provenance
      /\ Buffered = Elements(buffer) /\ Buffered' = Elements(buffer')
  BY DEF IndInv, Handlers, Buffered, Elements
<1>2. ASSUME NEW e \in made \cap Events, UNCHANGED <<buffer, lost>>,
             stored' \in {stored, stored \cup {e}}
      PROVE  ALO!Next \/ UNCHANGED ALO!vars
  <2>1. e \in Buffered \cup stored \cup lost
    BY <1>1 DEF Provenance
  <2>2. Buffered' = Buffered
    BY <1>2 DEF Buffered
  <2>3. CASE stored' = stored
    BY <1>2, <2>2, <2>3 DEF ALO!vars
  <2>4. CASE stored' = stored \cup {e}
    BY <1>2, <2>1, <2>2, <2>4 DEF ALO!Next, ALO!Store, ALO!Accepted
  <2> QED  BY <1>2, <2>3, <2>4
<1>3. ASSUME UNCHANGED <<buffer, lost, stored>> PROVE UNCHANGED ALO!vars
  BY <1>3 DEF ALO!vars, Buffered
<1>4. ASSUME NEW e \in Events, Event(e) PROVE ALO!Next
  <2>1. /\ e \notin Buffered \cup stored \cup lost
        /\ \/ \E given \in {{}} \cup {{d} : d \in Buffered} :
                 /\ Buffered' = (Buffered \ given) \cup {e}
                 /\ lost' = lost \cup given
           \/ Buffered' = Buffered /\ lost' = lost \cup {e}
    BY <1>1, <1>4, EventBuffer
  <2>2. stored' = stored
    BY <1>4 DEF Event
  <2>3. ALO!Submit(e) \/ ALO!SubmitUnbuffered(e)
    BY <2>1, <2>2 DEF ALO!Submit, ALO!SubmitUnbuffered, ALO!Accepted
  <2> QED  BY <2>3 DEF ALO!Next
<1>5. ASSUME NEW e \in Events, AckReceived(e) PROVE ALO!Next \/ UNCHANGED ALO!vars
  <2>1. Buffered' = Buffered \ {e}
    BY <1>1, <1>5, AckBuffer
  <2>2. UNCHANGED <<lost, stored>> /\ e \in stored
    BY <1>1, <1>5 DEF AckReceived, StoredBeforeAck
  <2>3. CASE e \in Buffered
    BY <2>1, <2>2, <2>3 DEF ALO!Next, ALO!Confirm
  <2>4. CASE e \notin Buffered
    BY <2>1, <2>2, <2>4 DEF ALO!vars
  <2> QED  BY <2>3, <2>4
<1>6. ASSUME AgentRestart PROVE ALO!Next
  <2>1. Elements(<<>>) = {}
    BY DEF Elements
  <2>2. Buffered' = {} /\ lost' = lost \cup Buffered /\ stored' = stored
    BY <1>1, <1>6, <2>1 DEF AgentRestart
  <2> QED  BY <2>2 DEF ALO!Next, ALO!GiveUp
<1>7. ASSUME NEW c \in Conns, WebStored(c) \/ WebFails(c) \/ Archived(c) \/ ArchiveFails(c)
      PROVE  ALO!Next \/ UNCHANGED ALO!vars
  <2>1. current[c] \in Events
    BY <1>1, <1>7, HeldEvent DEF WebStored, WebFails, Archived, ArchiveFails
  <2>2. current[c] \in made
    BY <1>1, <2>1, NoneIsNew DEF Provenance
  <2>3. UNCHANGED <<buffer, lost>> /\ stored' \in {stored, stored \cup {current[c]}}
    BY <1>7 DEF WebStored, WebFails, Archived, ArchiveFails, agent
  <2> QED  BY <1>2, <2>1, <2>2, <2>3
<1>8. ASSUME NEW e \in Events, BotDecides(e) PROVE ALO!Next \/ UNCHANGED ALO!vars
  <2>1. e \in made
    BY <1>1, <1>8 DEF BotDecides, Provenance
  <2>2. UNCHANGED <<buffer, lost>> /\ stored' \in {stored, stored \cup {e}}
    BY <1>8 DEF BotDecides, agent
  <2> QED  BY <1>2, <2>1, <2>2
<1>9. ASSUME NEW c \in Conns,
             \/ Connect(c) \/ Receive(c) \/ Register(c) \/ ForwardToBot(c) \/ NotForwarded(c) \/ ForwardFails(c)
             \/ BotConfirmed(c) \/ BotRefused(c) \/ BotTimeout(c) \/ BotTimedOut(c)
             \/ HandlerEnd(c) \/ RouteDropped(c)
      PROVE  UNCHANGED ALO!vars
  <2>1. UNCHANGED <<buffer, lost, stored>>
    BY <1>9 DEF Connect, Receive, Register, ForwardToBot, NotForwarded, ForwardFails, BotConfirmed,
                BotRefused, BotTimeout, BotTimedOut, HandlerEnd, RouteDropped, agent
  <2> QED  BY <1>3, <2>1
<1>10. ASSUME NEW e \in Events, NEW ok \in BOOLEAN, BotSaid(e, ok) PROVE UNCHANGED ALO!vars
  BY <1>3, <1>10 DEF BotSaid, agent
<1>11. ASSUME \/ ServerHello \/ SessionBound \/ Tick \/ Disconnect \/ RelayRestart
              \/ BotLeaves \/ BotReturns \/ UNCHANGED vars
       PROVE  UNCHANGED ALO!vars
  <2>1. UNCHANGED <<buffer, lost, stored>>
    BY <1>11 DEF ServerHello, SessionBound, Tick, Disconnect, RelayRestart, BotLeaves, BotReturns,
                 vars, agent
  <2> QED  BY <1>3, <2>1
<1> QED
  BY <1>4, <1>5, <1>6, <1>7, <1>8, <1>9, <1>10, <1>11 DEF Next, Agent, Bot, HandlerStep

\* The agent's buffer and the handlers of the Relay implement at-least-once
\* delivery: an event leaves the buffer only once it is stored, or is given up
\* by an overflow of the buffer or the end of its owner.
THEOREM Refines == Spec => ImplementsAtLeastOnce
<1>1. Init => ALO!Init
  BY DEF Init, ALO!Init, Buffered
<1> QED  BY <1>1, Inductive, StepRefines, PTL DEF Spec, ImplementsAtLeastOnce, ALO!Spec
==============================================================================
