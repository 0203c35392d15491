-------------------------- MODULE AgentDesktopProofs --------------------------
(* What TLAPS proves of six parts of the agent, for every value of the        *)
(* constants of MCAgentDesktop: the Discord activity (DiscordActivity), the   *)
(* requests to join (DiscordJoins), the toggles of the overlay                *)
(* (OverlayControls), its updates (OverlayUpdate), the mouse over it          *)
(* (GameBarInput) and the snapshots it shows (GameBarSnapshots).  Each part   *)
(* has an inductive invariant of named parts, a lemma per group of steps that *)
(* shows it kept, and a lemma that it gives what the run of MCAgentDesktop    *)
(* checks; the three theorems at the end put the parts together.              *)
EXTENDS MCAgentDesktop, SequenceTheorems, WellFoundedInduction, TLAPS

vars == <<part, inputVars, snapshotVars, overlayVars, activityVars, joinVars, controlVars>>

-------------------------------------------------------------------------------
(* The Discord activity                                                       *)

Presences == Snapshots \cup {None}
Threads == {"none", "connecting", "connected", "ended"}
Clients == [thread : Threads, tries : 0..ConnectAttempts, subscribed : 0..2,
            queue : Seq(Presences), answers : Nat, late : BOOLEAN, refused : BOOLEAN]
Steps == {"idle", "set", "starting", "subscribe", "subscribing", "send", "closing", "clear"}
Waits == {"subscribing", "send", "closing"}
Runs == [pc : Steps, cur : Presences, attempt : 0..StartupAttempts, changed : BOOLEAN, nudged : BOOLEAN]
Nudges == [at : {"none", "later", "due"}, phase : {s.phase : s \in Snapshots} \cup {None}]

ActivityTypes ==
    /\ shown \in Presences /\ league \in Presences /\ last \in Presences
    /\ client \in Clients /\ task \in Runs /\ nudge \in Nudges
ActivityFlags == discord \in BOOLEAN /\ ready \in BOOLEAN /\ retry \in BOOLEAN

\* The queue holds no activity; the last activity of the queue is t.
Quiet(q) == \A i \in 1..Len(q) : q[i] = None
EndsWith(q, t) == \A i \in 1..Len(q) :
    q[i] # None /\ q[i] # t => \E j \in 1..Len(q) : j > i /\ q[j] # None

\* Requests reach Discord in their order, and what was published last ends them: once
\* nothing is under way Discord shows it, or nothing, unless it was refused.
Ordered(c, s, t) ==
    /\ EndsWith(c.queue, t)
    /\ Quiet(c.queue) /\ ~c.refused => s \in {None, t}

\* As long as no request was given up, only the one the task waits for is on its way,
\* and an activity that was refused is waited for in vain.
Matched(c, pc) ==
    ~c.late =>
       /\ Len(c.queue) + c.answers <= (IF pc \in Waits THEN 1 ELSE 0)
       /\ ~Quiet(c.queue) => pc = "send"
       /\ c.refused => pc = "send" /\ Len(c.queue) + c.answers = 0

\* A client publishes only after it has subscribed, and shows only while connected.
Allowed(c, s) ==
    /\ s # None => c.thread = "connected"
    /\ c.subscribed < 2 => s = None /\ Quiet(c.queue)
Stepwise(c, pc, cur) ==
    /\ pc = "send" => c.subscribed = 2
    /\ pc = "subscribing" => c.subscribed < 2
    /\ pc \in {"set", "starting", "subscribe", "subscribing", "send"} => cur # None

\* What is to be shown: the activity that is sent, or the one that was.
Aim == IF task.pc = "send" THEN task.cur ELSE last

Published ==
    /\ Ordered(client, shown, Aim) /\ Matched(client, task.pc)
    /\ Allowed(client, shown) /\ Stepwise(client, task.pc, task.cur)

ActivityInv == ActivityTypes /\ ActivityFlags /\ Published

\* A client that is new has nothing on its way.
LEMMA FreshIs ==
    ASSUME NEW th \in Threads, NEW n \in 0..ConnectAttempts, NEW c,
           c = [thread |-> th, tries |-> n, subscribed |-> 0, queue |-> <<>>, answers |-> 0,
                late |-> FALSE, refused |-> FALSE]
    PROVE  /\ c \in Clients /\ Quiet(c.queue) /\ Allowed(c, None) /\ c.subscribed = 0 /\ c.thread = th
           /\ \A t : Ordered(c, None, t)
           /\ \A pc : Matched(c, pc)
PROOF
<1>1. c.queue = <<>> /\ c.answers = 0 /\ c.subscribed = 0 /\ c.thread = th /\ ~c.refused
  OBVIOUS
<1>2. c.queue \in Seq(Presences) /\ Len(c.queue) = 0
  BY <1>1
<1>3. c \in Clients
  BY <1>1 DEF Clients
<1>4. Quiet(c.queue) /\ \A t : EndsWith(c.queue, t)
  BY <1>2 DEF Quiet, EndsWith
<1>5. \A pc : Matched(c, pc)
  BY <1>1, <1>2, <1>4 DEF Matched
<1> QED
  BY <1>1, <1>3, <1>4, <1>5 DEF Ordered, Allowed

\* The fields of a client after one of them, or two, have changed.
LEMMA ClientFields ==
    ASSUME NEW c \in Clients
    PROVE  /\ c = [thread |-> c.thread, tries |-> c.tries, subscribed |-> c.subscribed,
                   queue |-> c.queue, answers |-> c.answers, late |-> c.late, refused |-> c.refused]
           /\ c.thread \in Threads /\ c.tries \in 0..ConnectAttempts /\ c.subscribed \in 0..2
           /\ c.queue \in Seq(Presences) /\ c.answers \in Nat /\ Len(c.queue) \in Nat
           /\ c.late \in BOOLEAN /\ c.refused \in BOOLEAN
PROOF
<1>1. c.queue \in Seq(Presences)
  BY DEF Clients
<1>2. Len(c.queue) \in Nat
  BY <1>1, LenProperties
<1>3. c.late \in BOOLEAN /\ c.refused \in BOOLEAN
  BY Zenon DEF Clients
<1> QED
  BY <1>1, <1>2, <1>3 DEF Clients

\* What is left of a queue after its first requests are gone.
LEMMA SuffixIs ==
    ASSUME NEW q \in Seq(Presences), NEW m, m = Len(q), NEW k \in 0..m, NEW r, r = SubSeq(q, k + 1, m)
    PROVE  /\ r \in Seq(Presences) /\ Len(r) = m - k
           /\ Quiet(q) => Quiet(r)
           /\ \A t : EndsWith(q, t) => EndsWith(r, t)
PROOF
<1>1. Len(q) \in Nat
  BY LenProperties
<1>2. r \in Seq(Presences) /\ Len(r) = Len(q) - k /\ \A i \in 1..(Len(q) - k) : r[i] = q[i + k]
  <2>1. \A i \in (k + 1)..m : q[i] \in Presences
    BY <1>1, ElementOfSeq
  <2>2. k + 1 \in Int /\ m \in Int /\ k \in Int /\ k <= m
    BY <1>1
  <2>3. /\ SubSeq(q, k + 1, m) \in Seq(Presences)
        /\ Len(SubSeq(q, k + 1, m)) = IF k + 1 <= m THEN m - (k + 1) + 1 ELSE 0
        /\ \A i \in 1..(m - (k + 1) + 1) : SubSeq(q, k + 1, m)[i] = q[k + 1 + i - 1]
    BY <2>1, <2>2, SubSeqProperties
  <2>4. m - (k + 1) + 1 = m - k /\ \A i \in Int : k + 1 + i - 1 = i + k
    BY <2>2
  <2>5. Len(SubSeq(q, k + 1, m)) = m - k
    BY <2>2, <2>3
  <2>6. r = SubSeq(q, k + 1, m)
    OBVIOUS
  <2>7. \A i \in 1..(m - k) : r[i] = q[i + k]
    BY <2>2, <2>3, <2>4, <2>6
  <2> QED
    BY <2>3, <2>5, <2>6, <2>7
<1> DEFINE n == Len(r)
<1>3. m \in Nat /\ n = m - k /\ n \in Nat /\ \A i \in 1..n : r[i] = q[i + k] /\ i + k \in 1..m
  BY <1>1, <1>2
<1>4. Quiet(q) => Quiet(r)
  BY <1>3 DEF Quiet
<1>5. ASSUME NEW t, EndsWith(q, t)
      PROVE  EndsWith(r, t)
  <2>1. SUFFICES ASSUME NEW i \in 1..n, r[i] # None, r[i] # t
                 PROVE  \E j \in 1..n : j > i /\ r[j] # None
    BY DEF EndsWith
  <2>2. PICK j \in 1..m : j > i + k /\ q[j] # None
    BY <1>3, <1>5, <2>1 DEF EndsWith
  <2> HIDE DEF n
  <2>3. j - k \in 1..n /\ j - k > i /\ (j - k) + k = j
    BY <1>3, <2>2
  <2> QED
    BY <1>3, <2>2, <2>3
<1> QED
  BY <1>2, <1>4, <1>5

\* A queue without its first request, which is not lost: it ends the queue, or what
\* ends it is still there.
LEMMA TailIs ==
    ASSUME NEW q \in Seq(Presences), q # <<>>
    PROVE  /\ Head(q) \in Presences /\ Tail(q) \in Seq(Presences) /\ Len(Tail(q)) = Len(q) - 1
           /\ Len(q) \in Nat \ {0}
           /\ Quiet(q) => Head(q) = None /\ Quiet(Tail(q))
           /\ Head(q) = None /\ Quiet(Tail(q)) => Quiet(q)
           /\ \A t : EndsWith(q, t) => EndsWith(Tail(q), t) /\ (Quiet(Tail(q)) => Head(q) \in {None, t})
PROOF
<1>1. /\ Head(q) \in Presences /\ Tail(q) \in Seq(Presences) /\ Len(Tail(q)) = Len(q) - 1
      /\ \A i \in 1..Len(Tail(q)) : Tail(q)[i] = q[i + 1]
  BY HeadTailProperties
<1>2. Len(q) \in Nat \ {0} /\ Head(q) = q[1]
  BY EmptySeq, LenProperties
<1>3. Tail(q) = SubSeq(q, 2, Len(q))
  BY TailIsSubSeq
<1>4. 1 \in 0..Len(q) /\ 2 = 1 + 1
  BY <1>2
<1>5. /\ Quiet(q) => Quiet(Tail(q))
      /\ \A t : EndsWith(q, t) => EndsWith(Tail(q), t)
  BY <1>3, <1>4, SuffixIs
<1> DEFINE r == Tail(q)  m == Len(q)  n == Len(r)
<1>6. /\ n = m - 1 /\ m \in Nat \ {0} /\ n \in Nat /\ 1 \in 1..m
      /\ \A i \in 1..n : r[i] = q[i + 1]
  BY <1>1, <1>2
<1>7. Quiet(q) => Head(q) = None
  BY <1>2, <1>6 DEF Quiet
<1>8. ASSUME Head(q) = None, Quiet(r)
      PROVE  Quiet(q)
  <2>1. SUFFICES ASSUME NEW i \in 1..m, i # 1
                 PROVE  q[i] = None
    BY <1>2, <1>8 DEF Quiet
  <2>2. i - 1 \in 1..n /\ (i - 1) + 1 = i
    <3> HIDE DEF m, n
    <3> QED
      BY <1>6, <2>1
  <2>3. r[i - 1] = None
    BY <1>8, <2>2 DEF Quiet
  <2> QED
    BY <1>6, <2>2, <2>3
<1>9. ASSUME NEW t, EndsWith(q, t), Quiet(r)
      PROVE  Head(q) \in {None, t}
  <2>1. SUFFICES ASSUME NEW j \in 1..m, j > 1
                 PROVE  q[j] = None
    BY <1>2, <1>6, <1>9 DEF EndsWith
  <2>2. j - 1 \in 1..n /\ (j - 1) + 1 = j
    <3> HIDE DEF m, n
    <3> QED
      BY <1>6, <2>1
  <2>3. r[j - 1] = None
    BY <1>9, <2>2 DEF Quiet
  <2> QED
    BY <1>6, <2>2, <2>3
<1> QED
  BY <1>1, <1>2, <1>5, <1>7, <1>8, <1>9

\* A queue with one request more.
LEMMA AppendedIs ==
    ASSUME NEW q \in Seq(Presences), NEW x \in Presences
    PROVE  /\ Append(q, x) \in Seq(Presences) /\ Len(Append(q, x)) = Len(q) + 1
           /\ x = None /\ Quiet(q) => Quiet(Append(q, x))
           /\ Quiet(Append(q, x)) => Quiet(q)
           /\ \A t : x = None /\ EndsWith(q, t) => EndsWith(Append(q, x), t)
           /\ x # None => EndsWith(Append(q, x), x) /\ ~Quiet(Append(q, x))
PROOF
<1> DEFINE r == Append(q, x)  m == Len(q)
<1>1. /\ r \in Seq(Presences) /\ Len(r) = m + 1 /\ r[m + 1] = x /\ m \in Nat
      /\ \A i \in 1..m : r[i] = q[i]
  BY AppendProperties, LenProperties
<1>2. \A i \in 1..(m + 1) : i \in 1..m \/ i = m + 1
  BY <1>1
<1>3. m + 1 \in 1..(m + 1) /\ 1..m \subseteq 1..(m + 1)
  BY <1>1
<1> HIDE DEF r, m
<1>4. x = None /\ Quiet(q) => Quiet(r)
  BY <1>1, <1>2 DEF Quiet, m
<1>7. Quiet(r) => Quiet(q)
  BY <1>1, <1>3 DEF Quiet, m
<1>5. ASSUME NEW t, x = None, EndsWith(q, t)
      PROVE  EndsWith(r, t)
  <2>1. SUFFICES ASSUME NEW i \in 1..m, q[i] # None, q[i] # t
                 PROVE  \E j \in 1..(m + 1) : j > i /\ r[j] # None
    BY <1>1, <1>2, <1>5 DEF EndsWith
  <2>2. PICK j \in 1..m : j > i /\ q[j] # None
    BY <1>5, <2>1 DEF EndsWith, m
  <2> QED
    BY <1>1, <1>3, <2>2
<1>6. ASSUME x # None
      PROVE  EndsWith(r, x) /\ ~Quiet(r)
  <2>1. ~Quiet(r)
    BY <1>1, <1>3, <1>6 DEF Quiet
  <2>2. \A i \in 1..(m + 1) : r[i] # x => m + 1 > i
    BY <1>1, <1>2
  <2> QED
    BY <1>1, <1>3, <1>6, <2>1, <2>2 DEF EndsWith
<1> QED
  BY <1>1, <1>4, <1>5, <1>6, <1>7 DEF r, m

\* A client as a record of its fields, and the changes that the steps make to one.
LEMMA ChangedIs ==
    ASSUME NEW c \in Clients, NEW th, NEW n, NEW q, NEW a, NEW f
    PROVE  /\ [c EXCEPT !.thread = th] =
                [thread |-> th, tries |-> c.tries, subscribed |-> c.subscribed, queue |-> c.queue,
                 answers |-> c.answers, late |-> c.late, refused |-> c.refused]
           /\ [c EXCEPT !.tries = n] =
                [thread |-> c.thread, tries |-> n, subscribed |-> c.subscribed, queue |-> c.queue,
                 answers |-> c.answers, late |-> c.late, refused |-> c.refused]
           /\ [c EXCEPT !.queue = q] =
                [thread |-> c.thread, tries |-> c.tries, subscribed |-> c.subscribed, queue |-> q,
                 answers |-> c.answers, late |-> c.late, refused |-> c.refused]
           /\ [c EXCEPT !.answers = a] =
                [thread |-> c.thread, tries |-> c.tries, subscribed |-> c.subscribed, queue |-> c.queue,
                 answers |-> a, late |-> c.late, refused |-> c.refused]
           /\ [c EXCEPT !.late = f] =
                [thread |-> c.thread, tries |-> c.tries, subscribed |-> c.subscribed, queue |-> c.queue,
                 answers |-> c.answers, late |-> f, refused |-> c.refused]
PROOF
<1>1. c = [thread |-> c.thread, tries |-> c.tries, subscribed |-> c.subscribed, queue |-> c.queue,
           answers |-> c.answers, late |-> c.late, refused |-> c.refused]
  BY ClientFields
<1> DEFINE v1 == c.thread  v2 == c.tries  v3 == c.subscribed  v4 == c.queue  v5 == c.answers
           v6 == c.late  v7 == c.refused
<1>2. c = [thread |-> v1, tries |-> v2, subscribed |-> v3, queue |-> v4, answers |-> v5, late |-> v6, refused |-> v7]
  BY <1>1
<1> HIDE DEF v1, v2, v3, v4, v5, v6, v7
<1>3. /\ [c EXCEPT !.thread = th] =
           [thread |-> th, tries |-> v2, subscribed |-> v3, queue |-> v4, answers |-> v5, late |-> v6, refused |-> v7]
      /\ [c EXCEPT !.tries = n] =
           [thread |-> v1, tries |-> n, subscribed |-> v3, queue |-> v4, answers |-> v5, late |-> v6, refused |-> v7]
      /\ [c EXCEPT !.queue = q] =
           [thread |-> v1, tries |-> v2, subscribed |-> v3, queue |-> q, answers |-> v5, late |-> v6, refused |-> v7]
      /\ [c EXCEPT !.answers = a] =
           [thread |-> v1, tries |-> v2, subscribed |-> v3, queue |-> v4, answers |-> a, late |-> v6, refused |-> v7]
      /\ [c EXCEPT !.late = f] =
           [thread |-> v1, tries |-> v2, subscribed |-> v3, queue |-> v4, answers |-> v5, late |-> f, refused |-> v7]
  BY <1>2
<1> QED
  BY <1>3 DEF v1, v2, v3, v4, v5, v6, v7

LEMMA CutOffIs ==
    ASSUME NEW c \in Clients, NEW th, NEW q, NEW a, NEW d, d = [c EXCEPT !.thread = th, !.answers = a, !.queue = q]
    PROVE  d = [thread |-> th, tries |-> c.tries, subscribed |-> c.subscribed, queue |-> q,
                answers |-> a, late |-> c.late, refused |-> c.refused]
PROOF
<1> DEFINE p == [c EXCEPT !.thread = th]  r == [p EXCEPT !.answers = a]
<1>1. p = [thread |-> th, tries |-> c.tries, subscribed |-> c.subscribed, queue |-> c.queue,
           answers |-> c.answers, late |-> c.late, refused |-> c.refused]
  BY ChangedIs, Zenon
<1>2. d = [r EXCEPT !.queue = q]
  OBVIOUS
<1> HIDE DEF p
<1>3. r = [thread |-> th, tries |-> c.tries, subscribed |-> c.subscribed, queue |-> c.queue,
           answers |-> a, late |-> c.late, refused |-> c.refused]
  BY <1>1
<1> HIDE DEF r
<1> QED
  BY <1>2, <1>3

LEMMA AnsweredIs ==
    ASSUME NEW c \in Clients, NEW q, NEW a, NEW d, d = [c EXCEPT !.queue = q, !.answers = a]
    PROVE  d = [thread |-> c.thread, tries |-> c.tries, subscribed |-> c.subscribed, queue |-> q,
                answers |-> a, late |-> c.late, refused |-> c.refused]
PROOF
<1> DEFINE p == [c EXCEPT !.queue = q]
<1>1. p = [thread |-> c.thread, tries |-> c.tries, subscribed |-> c.subscribed, queue |-> q,
           answers |-> c.answers, late |-> c.late, refused |-> c.refused]
  BY ChangedIs, Zenon
<1>2. d = [p EXCEPT !.answers = a]
  OBVIOUS
<1> HIDE DEF p
<1> QED
  BY <1>1, <1>2

LEMMA RefusedIs ==
    ASSUME NEW c \in Clients, NEW q, NEW f, NEW d, d = [c EXCEPT !.queue = q, !.refused = f]
    PROVE  d = [thread |-> c.thread, tries |-> c.tries, subscribed |-> c.subscribed, queue |-> q,
                answers |-> c.answers, late |-> c.late, refused |-> f]
PROOF
<1> DEFINE p == [c EXCEPT !.queue = q]
<1>1. p = [thread |-> c.thread, tries |-> c.tries, subscribed |-> c.subscribed, queue |-> q,
           answers |-> c.answers, late |-> c.late, refused |-> c.refused]
  BY ChangedIs, Zenon
<1>2. d = [p EXCEPT !.refused = f]
  OBVIOUS
<1> HIDE DEF p
<1> QED
  BY <1>1, <1>2

LEMMA SubscribedIs ==
    ASSUME NEW c \in Clients, NEW n, NEW a, NEW p, p = [c EXCEPT !.answers = a], NEW d, d = [p EXCEPT !.subscribed = n]
    PROVE  d = [thread |-> c.thread, tries |-> c.tries, subscribed |-> n, queue |-> c.queue,
                answers |-> a, late |-> c.late, refused |-> c.refused]
PROOF
<1>1. p = [thread |-> c.thread, tries |-> c.tries, subscribed |-> c.subscribed, queue |-> c.queue,
           answers |-> a, late |-> c.late, refused |-> c.refused]
  BY ChangedIs, Zenon
<1> QED
  BY <1>1

\* The fields of a client that is given as a record.
LEMMA ClientIs ==
    ASSUME NEW th \in Threads, NEW n \in 0..ConnectAttempts, NEW s \in 0..2, NEW q \in Seq(Presences),
           NEW a \in Nat, NEW l \in BOOLEAN, NEW f \in BOOLEAN,
           NEW c, c = [thread |-> th, tries |-> n, subscribed |-> s, queue |-> q, answers |-> a,
                       late |-> l, refused |-> f]
    PROVE  /\ c \in Clients
           /\ c.thread = th /\ c.tries = n /\ c.subscribed = s /\ c.queue = q /\ c.answers = a
           /\ c.late = l /\ c.refused = f
PROOF
<1>1. c \in Clients
  BY DEF Clients
<1>2. c.thread = th /\ c.tries = n /\ c.subscribed = s /\ c.queue = q /\ c.answers = a
  BY Zenon
<1>3. c.late = l /\ c.refused = f
  BY Zenon
<1> QED
  BY <1>1, <1>2, <1>3

\* With no more on its way and none of it new, what is waited for is as before.
LEMMA Lessened ==
    ASSUME NEW c \in Clients, NEW d \in Clients, NEW pc \in Steps, Matched(c, pc),
           ~d.late => ~c.late, d.refused => c.refused,
           Len(d.queue) + d.answers <= Len(c.queue) + c.answers, Quiet(c.queue) => Quiet(d.queue)
    PROVE  Matched(d, pc)
PROOF
<1>1. Len(c.queue) \in Nat /\ c.answers \in Nat /\ Len(d.queue) \in Nat /\ d.answers \in Nat
  BY ClientFields
<1> QED
  BY <1>1 DEF Matched

LEMMA CutIs ==
    ASSUME NEW c \in Clients, NEW k \in 0..Len(c.queue), NEW r, r = SubSeq(c.queue, k + 1, Len(c.queue))
    PROVE  /\ r \in Seq(Presences) /\ Len(r) = Len(c.queue) - k
           /\ Quiet(c.queue) => Quiet(r)
           /\ \A t : EndsWith(c.queue, t) => EndsWith(r, t)
PROOF
<1> DEFINE q == c.queue  m == Len(c.queue)
<1>1. q \in Seq(Presences) /\ m = Len(q) /\ k \in 0..m /\ r = SubSeq(q, k + 1, m)
  BY ClientFields
<1> HIDE DEF q, m
<1>2. r \in Seq(Presences) /\ Len(r) = m - k
  BY <1>1, SuffixIs, SMTT(60)
<1>3. Quiet(q) => Quiet(r)
  BY <1>1, SuffixIs, ZenonT(40)
<1>4. \A t : EndsWith(q, t) => EndsWith(r, t)
  BY <1>1, SuffixIs, ZenonT(40)
<1> QED
  BY <1>2, <1>3, <1>4 DEF q, m

LEMMA ActivityInit == Activity!Init => ActivityInv
PROOF
<1> SUFFICES ASSUME Activity!Init
             PROVE  ActivityInv
  OBVIOUS
<1> USE AttemptsAreCounted
<1>1. /\ shown = None /\ last = None /\ league \in Presences /\ task = Activity!Idle /\ nudge = Activity!NoNudge
      /\ client = [thread |-> "none", tries |-> 0, subscribed |-> 0, queue |-> <<>>, answers |-> 0,
                   late |-> FALSE, refused |-> FALSE]
  BY DEF Activity!Init, Activity!NoClient, Presences
<1>2. "none" \in Threads /\ 0 \in 0..ConnectAttempts
  BY DEF Threads
<1>3. client \in Clients /\ Ordered(client, None, Aim) /\ Matched(client, task.pc) /\ Allowed(client, None)
  BY <1>1, <1>2, FreshIs
<1>4. task \in Runs /\ nudge \in Nudges /\ task.pc = "idle"
  BY <1>1 DEF Activity!Idle, Activity!NoNudge, Runs, Steps, Nudges, Presences
<1>5. ActivityFlags
  BY Zenon DEF Activity!Init, ActivityFlags
<1>6. ActivityTypes /\ Published
  BY <1>1, <1>3, <1>4 DEF ActivityTypes, Published, Stepwise, Presences
<1> QED
  BY <1>5, <1>6 DEF ActivityInv

\* Discord quits, and with it goes what its client has sent and has not read.
LEMMA QuitsStep ==
    ASSUME ActivityInv, Activity!DiscordQuits
    PROVE  ActivityInv'
PROOF
<1>1. ActivityTypes /\ ActivityFlags /\ Published
  BY DEF ActivityInv
<1>2. ActivityFlags'
  BY <1>1, Zenon DEF ActivityFlags, Activity!DiscordQuits
<1>3. shown' = None /\ UNCHANGED <<league, last, task, nudge>>
  BY DEF Activity!DiscordQuits
<1>4. PICK k \in 0..Len(client.queue), n \in 0..client.answers : client' = Activity!Unconnected(k, n)
  BY DEF Activity!DiscordQuits
<1>5. /\ client \in Clients /\ task.pc \in Steps /\ Matched(client, task.pc) /\ Allowed(client, shown)
      /\ Ordered(client, shown, Aim) /\ Stepwise(client, task.pc, task.cur)
  BY <1>1 DEF ActivityTypes, Published, Runs
<1>6. CASE client.thread # "connected"
  <2>1. client' = client
    BY <1>4, <1>6 DEF Activity!Unconnected
  <2>2. shown = None
    BY <1>5, <1>6 DEF Allowed
  <2>3. ActivityTypes' /\ Published'
    BY <1>1, <1>3, <2>1, <2>2 DEF ActivityTypes, Published, Aim
  <2> QED
    BY <1>2, <2>3 DEF ActivityInv
<1>7. CASE client.thread = "connected"
  <2> DEFINE r == SubSeq(client.queue, k + 1, Len(client.queue))
  <2>1. client' = [client EXCEPT !.thread = "connecting", !.answers = n, !.queue = r]
    BY <1>4, <1>7 DEF Activity!Unconnected
  <2>2. client.queue \in Seq(Presences) /\ Len(client.queue) \in Nat /\ client.answers \in Nat
    BY <1>5, ClientFields
  <2>3. /\ r \in Seq(Presences) /\ Len(r) = Len(client.queue) - k /\ (Quiet(client.queue) => Quiet(r))
        /\ \A t : EndsWith(client.queue, t) => EndsWith(r, t)
    BY <1>5, CutIs, Zenon
  <2> HIDE DEF r
  <2>4. client' = [thread |-> "connecting", tries |-> client.tries, subscribed |-> client.subscribed, queue |-> r,
                   answers |-> n, late |-> client.late, refused |-> client.refused]
    BY <1>5, <2>1, CutOffIs, Zenon
  <2>5. "connecting" \in Threads /\ n \in Nat
    BY <2>2 DEF Threads
  <2>6. /\ client' \in Clients /\ client'.thread = "connecting" /\ client'.subscribed = client.subscribed
        /\ client'.queue = r /\ client'.answers = n /\ client'.late = client.late /\ client'.refused = client.refused
    BY <1>5, <2>3, <2>4, <2>5, ClientFields, ClientIs
  <2>7. Matched(client', task.pc)
    <3>1. (~client'.late => ~client.late) /\ (client'.refused => client.refused)
      BY <2>6, Zenon
    <3>2. Len(client'.queue) + client'.answers <= Len(client.queue) + client.answers
      BY <2>2, <2>3, <2>5, <2>6
    <3> QED
      BY <1>5, <2>3, <2>6, <3>1, <3>2, Lessened
  <2>8. Ordered(client', None, Aim) /\ Allowed(client', None) /\ Stepwise(client', task.pc, task.cur)
    BY <1>5, <2>3, <2>6 DEF Ordered, Allowed, Stepwise
  <2>9. ActivityTypes' /\ Published'
    BY <1>1, <1>3, <2>6, <2>7, <2>8 DEF ActivityTypes, Published, Aim, Presences
  <2> QED
    BY <1>2, <2>9 DEF ActivityInv
<1> QED
  BY <1>6, <1>7

LEMMA ActivityWorldStep ==
    ASSUME ActivityInv,
           \/ Activity!DiscordStarts \/ \E s \in Snapshots \cup {None} : Activity!LeagueChanges(s)
           \/ Activity!ThreadConnects \/ \E refused \in BOOLEAN : Activity!ThreadFails(refused)
           \/ Activity!RetryComes \/ Activity!NudgeComes
    PROVE  ActivityInv'
PROOF
<1>1. ActivityTypes /\ ActivityFlags /\ Published
  BY DEF ActivityInv
<1>2. ActivityFlags'
  BY <1>1, Zenon DEF ActivityFlags, Activity!DiscordStarts, Activity!LeagueChanges,
     Activity!ThreadConnects, Activity!ThreadFails, Activity!RetryComes, Activity!NudgeComes
<1>3. CASE Activity!DiscordStarts \/ Activity!RetryComes \/ \E s \in Snapshots \cup {None} : Activity!LeagueChanges(s)
  <2>1. UNCHANGED <<shown, client, last, task, nudge>> /\ league' \in Presences
    BY <1>1, <1>3 DEF Activity!DiscordStarts, Activity!RetryComes, Activity!LeagueChanges, ActivityTypes, Presences
  <2>2. ActivityTypes' /\ Published'
    BY <1>1, <2>1 DEF ActivityTypes, Published, Aim
  <2> QED
    BY <1>2, <2>2 DEF ActivityInv
<1>4. CASE Activity!ThreadConnects \/ \E refused \in BOOLEAN : Activity!ThreadFails(refused)
  <2>1. /\ client.thread = "connecting" /\ UNCHANGED <<shown, league, last, task, nudge>>
        /\ \/ client' = [client EXCEPT !.thread = "connected"]
           \/ client' = [client EXCEPT !.thread = "ended"]
           \/ client.tries # 0 /\ client' = [client EXCEPT !.tries = client.tries - 1]
    BY <1>4 DEF Activity!ThreadConnects, Activity!ThreadFails
  <2>2. client \in Clients /\ shown = None
    BY <1>1, <2>1 DEF ActivityTypes, Published, Allowed
  <2>3. PICK th \in Threads, n \in 0..ConnectAttempts :
          client' = [thread |-> th, tries |-> n, subscribed |-> client.subscribed, queue |-> client.queue,
                     answers |-> client.answers, late |-> client.late, refused |-> client.refused]
    <3> DEFINE R(th, n) == [thread |-> th, tries |-> n, subscribed |-> client.subscribed, queue |-> client.queue,
                            answers |-> client.answers, late |-> client.late, refused |-> client.refused]
    <3>1. client.tries \in 0..ConnectAttempts /\ client.thread \in Threads
      BY <2>2, ClientFields
    <3>2. "connected" \in Threads /\ "ended" \in Threads
      BY DEF Threads
    <3>3. client.tries # 0 => client.tries - 1 \in 0..ConnectAttempts
      BY <3>1, AttemptsAreCounted
    <3>4. /\ [client EXCEPT !.thread = "connected"] = R("connected", client.tries)
          /\ [client EXCEPT !.thread = "ended"] = R("ended", client.tries)
          /\ [client EXCEPT !.tries = client.tries - 1] = R(client.thread, client.tries - 1)
      BY <2>2, ChangedIs, Zenon
    <3> HIDE DEF R
    <3>5. \E th \in Threads, n \in 0..ConnectAttempts : client' = R(th, n)
      BY <2>1, <3>1, <3>2, <3>3, <3>4
    <3> QED
      BY <3>5 DEF R
  <2>4. /\ client' \in Clients /\ client'.subscribed = client.subscribed /\ client'.queue = client.queue
        /\ client'.answers = client.answers /\ client'.late = client.late /\ client'.refused = client.refused
    BY <2>2, <2>3, ClientFields, ClientIs
  <2>5. Ordered(client', shown, Aim) /\ Allowed(client', shown) /\ Stepwise(client', task.pc, task.cur)
    <3>1. ~client'.refused => ~client.refused
      BY <2>4, Zenon
    <3> QED
      BY <1>1, <2>2, <2>4, <3>1 DEF Published, Ordered, Allowed, Stepwise
  <2>6. Matched(client', task.pc)
    <3>1. (~client'.late => ~client.late) /\ (client'.refused => client.refused)
      BY <2>4, Zenon
    <3>2. Len(client'.queue) + client'.answers <= Len(client.queue) + client.answers
      BY <2>2, <2>4, ClientFields
    <3>3. task.pc \in Steps /\ Matched(client, task.pc)
      BY <1>1 DEF ActivityTypes, Published, Runs
    <3> QED
      BY <2>2, <2>4, <3>1, <3>2, <3>3, Lessened
  <2>7. ActivityTypes' /\ Published'
    BY <1>1, <2>1, <2>4, <2>5, <2>6 DEF ActivityTypes, Published, Aim
  <2> QED
    BY <1>2, <2>7 DEF ActivityInv
<1>5. CASE Activity!NudgeComes
  <2>1. nudge' \in Nudges /\ UNCHANGED <<shown, league, last, client, task>>
    BY <1>1, <1>5 DEF Activity!NudgeComes, ActivityTypes, Nudges
  <2>2. ActivityTypes' /\ Published'
    BY <1>1, <2>1 DEF ActivityTypes, Published, Aim
  <2> QED
    BY <1>2, <2>2 DEF ActivityInv
<1> QED
  BY <1>3, <1>4, <1>5

\* Discord reads the first request of the queue: it shows it, or refuses it.
LEMMA DiscordReadsStep ==
    ASSUME ActivityInv, Activity!DiscordAnswers \/ Activity!DiscordRefuses
    PROVE  ActivityInv'
PROOF
<1> DEFINE q == client.queue  r == Tail(client.queue)
<1>1. ActivityTypes /\ ActivityFlags /\ Published
  BY DEF ActivityInv
<1>2. ActivityFlags'
  BY <1>1, Zenon DEF ActivityFlags, Activity!DiscordAnswers, Activity!DiscordRefuses
<1>3. UNCHANGED <<league, last, task, nudge>> /\ client.thread = "connected" /\ q # <<>>
  BY DEF Activity!DiscordAnswers, Activity!DiscordRefuses
<1>4. /\ client \in Clients /\ task.pc \in Steps /\ Matched(client, task.pc) /\ Allowed(client, shown)
      /\ Ordered(client, shown, Aim) /\ Stepwise(client, task.pc, task.cur) /\ shown \in Presences
  BY <1>1 DEF ActivityTypes, Published, Runs
<1>5. q \in Seq(Presences) /\ client.answers \in Nat
  BY <1>4, ClientFields
<1>6. /\ Head(q) \in Presences /\ r \in Seq(Presences) /\ Len(r) = Len(q) - 1 /\ Len(q) \in Nat \ {0}
      /\ Quiet(q) => Head(q) = None /\ Quiet(r)
      /\ Head(q) = None /\ Quiet(r) => Quiet(q)
      /\ EndsWith(q, Aim) => EndsWith(r, Aim) /\ (Quiet(r) => Head(q) \in {None, Aim})
  BY <1>3, <1>5, TailIs
<1> HIDE DEF q, r
<1>7. CASE Activity!DiscordAnswers
  <2>1. /\ shown' = IF Head(q) = None THEN shown ELSE Head(q)
        /\ client' = [client EXCEPT !.queue = r, !.answers = client.answers + 1]
    BY <1>7 DEF Activity!DiscordAnswers, q, r
  <2>2. client' = [thread |-> client.thread, tries |-> client.tries, subscribed |-> client.subscribed, queue |-> r,
                   answers |-> client.answers + 1, late |-> client.late, refused |-> client.refused]
    BY <1>4, <2>1, AnsweredIs, Zenon
  <2>3. client.answers + 1 \in Nat
    BY <1>5
  <2>4. /\ client' \in Clients /\ client'.thread = "connected" /\ client'.subscribed = client.subscribed
        /\ client'.queue = r /\ client'.answers = client.answers + 1
        /\ client'.late = client.late /\ client'.refused = client.refused
    BY <1>3, <1>4, <1>6, <2>2, <2>3, ClientFields, ClientIs
  <2>5. shown' \in Presences
    BY <1>4, <1>6, <2>1
  <2>6. Ordered(client', shown', Aim)
    <3>1. ~client'.refused => ~client.refused
      BY <2>4, Zenon
    <3>2. EndsWith(q, Aim) /\ (Quiet(q) /\ ~client.refused => shown \in {None, Aim})
      BY <1>4 DEF Ordered, q
    <3>3. Quiet(r) /\ ~client.refused => shown' \in {None, Aim}
      BY <1>6, <2>1, <3>2
    <3> QED
      BY <1>6, <2>4, <3>1, <3>2, <3>3 DEF Ordered
  <2>7. Allowed(client', shown') /\ Stepwise(client', task.pc, task.cur)
    BY <1>4, <1>6, <2>1, <2>4 DEF Allowed, Stepwise, q
  <2>8. Matched(client', task.pc)
    <3>1. (~client'.late => ~client.late) /\ (client'.refused => client.refused)
      BY <2>4, Zenon
    <3>2. Len(client'.queue) + client'.answers <= Len(client.queue) + client.answers
      BY <1>5, <1>6, <2>4 DEF q
    <3>3. Quiet(client.queue) => Quiet(client'.queue)
      BY <1>6, <2>4 DEF q
    <3> QED
      BY <1>4, <2>4, <3>1, <3>2, <3>3, Lessened
  <2>9. ActivityTypes' /\ Published'
    BY <1>1, <1>3, <2>4, <2>5, <2>6, <2>7, <2>8 DEF ActivityTypes, Published, Aim
  <2> QED
    BY <1>2, <2>9 DEF ActivityInv
<1>8. CASE Activity!DiscordRefuses
  <2> DEFINE f == client.refused \/ Head(q) # None
  <2>1. shown' = shown /\ client' = [client EXCEPT !.queue = r, !.refused = f]
    BY <1>8 DEF Activity!DiscordRefuses, q, r
  <2>2. f \in BOOLEAN /\ (f <=> client.refused \/ Head(q) # None)
    BY Zenon
  <2> HIDE DEF f
  <2>3. client' = [thread |-> client.thread, tries |-> client.tries, subscribed |-> client.subscribed, queue |-> r,
                   answers |-> client.answers, late |-> client.late, refused |-> f]
    BY <1>4, <2>1, RefusedIs, Zenon
  <2>4. /\ client' \in Clients /\ client'.thread = "connected" /\ client'.subscribed = client.subscribed
        /\ client'.queue = r /\ client'.answers = client.answers
        /\ client'.late = client.late /\ client'.refused = f
    BY <1>3, <1>4, <1>6, <2>2, <2>3, ClientFields, ClientIs
  <2>5. client'.refused <=> client.refused \/ Head(q) # None
    BY <2>2, <2>4, Zenon
  <2>6. ~client'.late => ~client.late
    BY <2>4, Zenon
  <2>7. Ordered(client', shown, Aim)
    <3>1. EndsWith(q, Aim) /\ (Quiet(q) /\ ~client.refused => shown \in {None, Aim})
      BY <1>4 DEF Ordered, q
    <3> QED
      BY <1>6, <2>4, <2>5, <3>1 DEF Ordered
  <2>8. Allowed(client', shown) /\ Stepwise(client', task.pc, task.cur)
    BY <1>4, <1>6, <2>4 DEF Allowed, Stepwise, q
  <2>9. Matched(client', task.pc)
    <3>1. SUFFICES ASSUME ~client'.late
                   PROVE  /\ Len(r) + client.answers <= (IF task.pc \in Waits THEN 1 ELSE 0)
                          /\ ~Quiet(r) => task.pc = "send"
                          /\ client'.refused => task.pc = "send" /\ Len(r) + client.answers = 0
      BY <2>4 DEF Matched
    <3>2. /\ Len(q) + client.answers <= (IF task.pc \in Waits THEN 1 ELSE 0)
          /\ ~Quiet(q) => task.pc = "send"
          /\ client.refused => task.pc = "send" /\ Len(q) + client.answers = 0
      BY <1>4, <2>6, <3>1 DEF Matched, q
    <3>3. Len(q) + client.answers <= 1
      BY <1>5, <1>6, <3>2
    <3>4. ~client.refused /\ Len(r) = 0 /\ client.answers = 0
      BY <1>5, <1>6, <3>2, <3>3
    <3>5. Quiet(q) => Quiet(r)
      BY <1>6
    <3>6. client'.refused => task.pc = "send"
      BY <1>6, <2>5, <3>2, <3>4
    <3> QED
      BY <3>2, <3>4, <3>5, <3>6
  <2>10. ActivityTypes' /\ Published'
    BY <1>1, <1>3, <2>1, <2>4, <2>7, <2>8, <2>9 DEF ActivityTypes, Published, Aim
  <2> QED
    BY <1>2, <2>10 DEF ActivityInv
<1> QED
  BY <1>7, <1>8

\* A client that is given up leaves nothing behind.
LEMMA DropIs ==
    ASSUME ready \in BOOLEAN, Activity!Drop
    PROVE  /\ shown' = None /\ client' \in Clients /\ ready' \in BOOLEAN
           /\ Matched(client', "idle") /\ Allowed(client', None) /\ \A t : Ordered(client', None, t)
PROOF
<1>1. /\ shown' = None
      /\ client' = [thread |-> "none", tries |-> 0, subscribed |-> 0, queue |-> <<>>, answers |-> 0,
                    late |-> FALSE, refused |-> FALSE]
  BY DEF Activity!Drop, Activity!NoClient
<1>2. "none" \in Threads /\ 0 \in 0..ConnectAttempts
  BY AttemptsAreCounted DEF Threads
<1>3. client' \in Clients /\ Matched(client', "idle") /\ Allowed(client', None) /\ \A t : Ordered(client', None, t)
  BY <1>1, <1>2, FreshIs
<1>4. ready' \in BOOLEAN
  <2>1. ready' = Activity!StillReady \/ ready' = (Activity!StillReady \/ Activity!SetAgain)
    BY DEF Activity!Drop
  <2>2. CASE ready' = Activity!StillReady
    BY <2>2, Zenon DEF Activity!StillReady
  <2>3. CASE ready' = (Activity!StillReady \/ Activity!SetAgain)
    BY <2>3, Zenon DEF Activity!StillReady
  <2> QED
    BY <2>1, <2>2, <2>3
<1> QED
  BY <1>1, <1>3, <1>4

LEMMA IdleIs == Activity!Idle \in Runs /\ Activity!Idle.pc = "idle" /\ Activity!NoNudge \in Nudges
PROOF
  BY AttemptsAreCounted DEF Activity!Idle, Activity!NoNudge, Runs, Steps, Nudges, Presences

\* A run of the task begins, and clears, connects or tries again.
LEMMA TaskStep ==
    ASSUME ActivityInv,
           Activity!Detect \/ Activity!Clear \/ Activity!Ensure \/ Activity!TryAgain
    PROVE  ActivityInv'
PROOF
<1> USE AttemptsAreCounted, NoneIsNobody
<1>1. ActivityTypes /\ ActivityFlags /\ Published
  BY DEF ActivityInv
<1>2. UNCHANGED <<discord, league, retry>>
  BY DEF Activity!Detect, Activity!Clear, Activity!Ensure, Activity!TryAgain, Activity!world
<1>3. /\ client \in Clients /\ task \in Runs /\ task.pc \in Steps /\ Matched(client, task.pc)
      /\ Allowed(client, shown) /\ Ordered(client, shown, Aim)
  BY <1>1 DEF ActivityTypes, Published, Runs
<1>4. CASE Activity!Detect
  <2> DEFINE changed == league # None /\ Activity!Phase(last) # Activity!Phase(league)
             pc == IF league = None THEN "clear" ELSE "set"
  <2>1. /\ UNCHANGED <<shown, last, client, nudge, ready>> /\ task.pc = "idle"
        /\ task' = [pc |-> pc, cur |-> league, attempt |-> 1, changed |-> changed, nudged |-> Activity!Due]
    BY <1>4 DEF Activity!Detect
  <2>2. changed \in BOOLEAN
    OBVIOUS
  <2>3. Activity!Due \in BOOLEAN
    BY DEF Activity!Due
  <2>4. pc \in Steps /\ pc \notin {"starting", "subscribe", "send"} \cup Waits /\ (pc = "set" => league # None)
    BY DEF Steps, Waits
  <2> HIDE DEF changed, pc
  <2>5. task' \in Runs /\ task'.pc = pc /\ task'.cur = league
    BY <1>1, <2>1, <2>2, <2>3, <2>4 DEF ActivityTypes, Runs
  <2>6. Matched(client, pc) /\ Stepwise(client, pc, league)
    BY <1>3, <2>1, <2>4 DEF Matched, Stepwise, Waits
  <2>7. ActivityTypes' /\ Published'
    BY <1>1, <1>2, <1>3, <2>1, <2>4, <2>5, <2>6 DEF ActivityTypes, Published, Aim
  <2>8. ActivityFlags'
    BY <1>1, <1>2, <2>1, Zenon DEF ActivityFlags
  <2> QED
    BY <2>7, <2>8 DEF ActivityInv
<1>5. CASE Activity!Clear
  <2>1. Activity!Drop /\ task' = Activity!Idle /\ last' = None /\ nudge' = Activity!NoNudge
    BY <1>5 DEF Activity!Clear
  <2>2. /\ shown' = None /\ client' \in Clients /\ ready' \in BOOLEAN
        /\ Matched(client', "idle") /\ Allowed(client', None) /\ \A t : Ordered(client', None, t)
    BY <1>1, <2>1, DropIs DEF ActivityFlags
  <2>3. ActivityTypes' /\ Published'
    BY <1>1, <1>2, <2>1, <2>2, IdleIs DEF ActivityTypes, Published, Stepwise, Aim, Presences
  <2>4. ActivityFlags'
    BY <1>1, <1>2, <2>2, Zenon DEF ActivityFlags
  <2> QED
    BY <2>3, <2>4 DEF ActivityInv
<1>6. CASE Activity!Ensure
  <2> DEFINE pc == IF ready THEN "subscribe" ELSE "starting"
             new == [thread |-> "connecting", tries |-> ConnectAttempts, subscribed |-> 0, queue |-> <<>>, answers |-> 0,
                     late |-> FALSE, refused |-> FALSE]
             Fresh == [Activity!NoClient EXCEPT !.thread = "connecting", !.tries = ConnectAttempts]
  <2>1. /\ task.pc = "set" /\ task' = [task EXCEPT !.pc = pc]
        /\ UNCHANGED <<shown, ready, last, nudge>>
        /\ \/ client' = client
           \/ client.thread = "none" /\ client' = Fresh
    BY <1>6 DEF Activity!Ensure
  <2>2. pc \in Steps /\ pc \notin {"set", "send", "clear"} \cup Waits
    BY DEF Steps, Waits
  <2>3. Fresh = new
    <3> DEFINE no == FALSE
    <3> HIDE DEF no
    <3> DEFINE old == [thread |-> "none", tries |-> 0, subscribed |-> 0, queue |-> <<>>, answers |-> 0,
                       late |-> no, refused |-> no]
               half == [old EXCEPT !.thread = "connecting"]
    <3>1. half = [thread |-> "connecting", tries |-> 0, subscribed |-> 0, queue |-> <<>>, answers |-> 0,
                  late |-> no, refused |-> no]
      OBVIOUS
    <3>2. [old EXCEPT !.thread = "connecting", !.tries = ConnectAttempts] = [half EXCEPT !.tries = ConnectAttempts]
      <4> HIDE DEF old
      <4> QED
        OBVIOUS
    <3>3. [half EXCEPT !.tries = ConnectAttempts]
          = [thread |-> "connecting", tries |-> ConnectAttempts, subscribed |-> 0, queue |-> <<>>, answers |-> 0,
             late |-> no, refused |-> no]
      <4> HIDE DEF half
      <4> QED
        BY <3>1
    <3>4. Fresh = [old EXCEPT !.thread = "connecting", !.tries = ConnectAttempts]
      BY Zenon DEF Activity!NoClient, no
    <3> QED
      BY <3>2, <3>3, <3>4, Zenon DEF no
  <2>4. "connecting" \in Threads /\ ConnectAttempts \in 0..ConnectAttempts
    BY DEF Threads
  <2>5. new \in Clients /\ Allowed(new, None) /\ Matched(new, pc) /\ \A t : Ordered(new, None, t)
    BY <2>4, FreshIs
  <2> HIDE DEF pc, new, Fresh
  <2>6. task' \in Runs /\ task'.pc = pc /\ task'.cur = task.cur /\ task.cur # None
    <3>1. task.cur # None
      BY <1>1, <2>1 DEF Published, Stepwise
    <3> QED
      BY <1>3, <2>1, <2>2, <3>1 DEF Runs
  <2>7. ASSUME client' = client
        PROVE  ActivityTypes' /\ Published'
    <3>1. Matched(client, pc) /\ Stepwise(client, pc, task.cur)
      BY <1>3, <2>1, <2>2, <2>6 DEF Matched, Stepwise, Waits
    <3> QED
      BY <1>1, <1>2, <1>3, <2>1, <2>2, <2>6, <2>7, <3>1 DEF ActivityTypes, Published, Aim
  <2>8. ASSUME client' = new, client.thread = "none"
        PROVE  ActivityTypes' /\ Published'
    <3>1. shown = None
      BY <1>3, <2>8 DEF Allowed
    <3>2. Stepwise(new, pc, task.cur)
      BY <2>2, <2>6 DEF Stepwise, Waits
    <3> QED
      BY <1>1, <1>2, <2>1, <2>2, <2>5, <2>6, <2>8, <3>1, <3>2 DEF ActivityTypes, Published, Aim
  <2>9. ActivityTypes' /\ Published'
    BY <2>1, <2>3, <2>7, <2>8
  <2>10. ActivityFlags'
    BY <1>1, <1>2, <2>1, Zenon DEF ActivityFlags
  <2> QED
    BY <2>9, <2>10 DEF ActivityInv
<1>7. CASE Activity!TryAgain
  <2>1. /\ task.pc = "starting" /\ task.attempt < StartupAttempts
        /\ task' = [task EXCEPT !.pc = "set", !.attempt = @ + 1]
        /\ UNCHANGED <<shown, ready, client, last, nudge>>
    BY <1>7 DEF Activity!TryAgain
  <2>2. task.attempt \in 0..StartupAttempts
    BY <1>3 DEF Runs
  <2>3. task' = [pc |-> "set", cur |-> task.cur, attempt |-> task.attempt + 1, changed |-> task.changed,
                 nudged |-> task.nudged]
    BY <1>3, <2>1 DEF Runs
  <2>4. task.attempt + 1 \in 0..StartupAttempts
    BY <2>1, <2>2
  <2>5. task' \in Runs /\ task'.pc = "set" /\ task'.cur = task.cur
    BY <1>3, <2>3, <2>4 DEF Runs, Steps
  <2>6. Matched(client, "set") /\ Stepwise(client, "set", task.cur)
    BY <1>1, <1>3, <2>1 DEF Published, Matched, Stepwise, Waits
  <2>7. ActivityTypes' /\ Published'
    BY <1>1, <1>2, <1>3, <2>1, <2>5, <2>6 DEF ActivityTypes, Published, Aim
  <2>8. ActivityFlags'
    BY <1>1, <1>2, <2>1, Zenon DEF ActivityFlags
  <2> QED
    BY <2>7, <2>8 DEF ActivityInv
<1> QED
  BY <1>4, <1>5, <1>6, <1>7

\* A request is given up: from now on its answer may stand for another's.
LEMMA GivenUpIs ==
    ASSUME client \in Clients, NEW yes \in BOOLEAN,
           client' = [thread |-> client.thread, tries |-> client.tries, subscribed |-> client.subscribed,
                     queue |-> client.queue, answers |-> client.answers, late |-> yes, refused |-> client.refused]
    PROVE  /\ client' \in Clients /\ client'.thread = client.thread /\ client'.subscribed = client.subscribed
           /\ client'.queue = client.queue /\ (~client'.refused => ~client.refused)
           /\ yes => Matched(client', "idle")
PROOF
<1>3. /\ client.thread \in Threads /\ client.tries \in 0..ConnectAttempts /\ client.subscribed \in 0..2
      /\ client.queue \in Seq(Presences) /\ client.answers \in Nat /\ client.refused \in BOOLEAN
  BY ClientFields, Zenon
<1>4. /\ client' \in Clients /\ client'.thread = client.thread /\ client'.subscribed = client.subscribed
      /\ client'.queue = client.queue /\ client'.late = yes /\ client'.refused = client.refused
  BY <1>3, ClientIs
<1>5. (yes => client'.late) /\ (~client'.refused => ~client.refused)
  BY <1>4, Zenon
<1>6. client'.late => Matched(client', "idle")
  BY DEF Matched
<1> QED
  BY <1>4, <1>5, <1>6, Zenon

\* A run of the task ends without a publication.
LEMMA RunFails ==
    ASSUME ActivityInv, Activity!GiveUp \/ Activity!SubscribeFails \/ Activity!SendFails
    PROVE  ActivityInv'
PROOF
<1> USE AttemptsAreCounted, NoneIsNobody
<1>1. ActivityTypes /\ ActivityFlags /\ Published
  BY DEF ActivityInv
<1>2. /\ UNCHANGED <<discord, league, nudge>> /\ task' = Activity!Idle /\ last' = task.cur /\ retry' = FALSE
  BY DEF Activity!GiveUp, Activity!SubscribeFails, Activity!SendFails, Activity!world, Activity!Failed, Activity!Done
<1>3. last' \in Presences /\ client \in Clients /\ task.pc \in Steps
  BY <1>1, <1>2 DEF ActivityTypes, Runs
<1>4. CASE Activity!GiveUp \/ Activity!SendFails
  <2>1. Activity!Drop
    BY <1>4 DEF Activity!GiveUp, Activity!SendFails, Activity!DropUnconfirmed
  <2>2. /\ shown' = None /\ client' \in Clients /\ ready' \in BOOLEAN
        /\ Matched(client', "idle") /\ Allowed(client', None) /\ \A t : Ordered(client', None, t)
    BY <1>1, <2>1, DropIs DEF ActivityFlags
  <2>3. ActivityTypes' /\ Published'
    BY <1>1, <1>2, <1>3, <2>2, IdleIs DEF ActivityTypes, Published, Stepwise, Aim, Presences
  <2>4. ActivityFlags'
    BY <1>1, <1>2, <2>2, Zenon DEF ActivityFlags
  <2> QED
    BY <2>3, <2>4 DEF ActivityInv
<1>5. CASE Activity!SubscribeFails
  <2> DEFINE yes == TRUE
  <2>1. /\ task.pc = "subscribing" /\ UNCHANGED <<shown, ready>>
        /\ client' = [client EXCEPT !.late = yes] /\ yes \in BOOLEAN
    BY <1>5 DEF Activity!SubscribeFails, Activity!GivesUp
  <2>2. /\ client' \in Clients /\ client'.thread = client.thread /\ client'.subscribed = client.subscribed
        /\ client'.queue = client.queue /\ Matched(client', "idle")
    <3> HIDE DEF yes
    <3>1. client' = [thread |-> client.thread, tries |-> client.tries, subscribed |-> client.subscribed,
                      queue |-> client.queue, answers |-> client.answers, late |-> yes, refused |-> client.refused]
      BY <1>3, <2>1, ChangedIs, Zenon
    <3>2. /\ client' \in Clients /\ client'.thread = client.thread /\ client'.subscribed = client.subscribed
          /\ client'.queue = client.queue /\ (yes => Matched(client', "idle"))
      BY <1>3, <2>1, <3>1, GivenUpIs, Zenon
    <3> QED
      BY <3>2, Zenon DEF yes
  <2>3. client.subscribed < 2 /\ shown = None /\ Quiet(client.queue)
    BY <1>1, <1>3, <2>1 DEF Published, Stepwise, Allowed
  <2>4. Ordered(client', None, last') /\ Allowed(client', None)
    <3>1. EndsWith(client.queue, last')
      BY <2>3 DEF Quiet, EndsWith
    <3> QED
      BY <2>2, <2>3, <3>1 DEF Ordered, Allowed
  <2>5. ActivityTypes' /\ Published'
    BY <1>1, <1>2, <1>3, <2>1, <2>2, <2>3, <2>4, IdleIs DEF ActivityTypes, Published, Stepwise, Aim
  <2>6. ActivityFlags'
    BY <1>1, <1>2, <2>1, Zenon DEF ActivityFlags
  <2> QED
    BY <2>5, <2>6 DEF ActivityInv
<1> QED
  BY <1>4, <1>5

\* A request is added to the queue, and an answer taken from the channel.
LEMMA AsksIs ==
    ASSUME client \in Clients, NEW x \in Presences, NEW pc \in Steps, NEW step \in Waits,
           pc \notin Waits, Matched(client, pc), Activity!Asks(x), x # None => step = "send"
    PROVE  /\ client' \in Clients /\ client'.thread = client.thread /\ client'.subscribed = client.subscribed
           /\ x = None /\ Quiet(client.queue) => Quiet(client'.queue)
           /\ Quiet(client'.queue) => Quiet(client.queue)
           /\ \A t : x = None /\ EndsWith(client.queue, t) => EndsWith(client'.queue, t)
           /\ x # None => EndsWith(client'.queue, x) /\ ~Quiet(client'.queue)
           /\ ~client'.refused => ~client.refused
           /\ Matched(client', step)
PROOF
<1> DEFINE q == Append(client.queue, x)
<1>1. client' = [client EXCEPT !.queue = q]
  BY DEF Activity!Asks
<1>2. /\ client.queue \in Seq(Presences) /\ Len(client.queue) \in Nat /\ client.answers \in Nat
  BY ClientFields
<1>3. /\ q \in Seq(Presences) /\ Len(q) = Len(client.queue) + 1
      /\ x = None /\ Quiet(client.queue) => Quiet(q)
      /\ Quiet(q) => Quiet(client.queue)
      /\ \A t : x = None /\ EndsWith(client.queue, t) => EndsWith(q, t)
      /\ x # None => EndsWith(q, x) /\ ~Quiet(q)
  BY <1>2, AppendedIs
<1> HIDE DEF q
<1>4. client' = [thread |-> client.thread, tries |-> client.tries, subscribed |-> client.subscribed,
                 queue |-> q, answers |-> client.answers, late |-> client.late, refused |-> client.refused]
  BY <1>1, ChangedIs, Zenon
<1>5. /\ client' \in Clients /\ client'.thread = client.thread /\ client'.subscribed = client.subscribed
      /\ client'.queue = q /\ client'.answers = client.answers
      /\ client'.late = client.late /\ client'.refused = client.refused
  BY <1>3, <1>4, ClientFields, ClientIs
<1>6. (~client'.late => ~client.late) /\ (client'.refused => client.refused) /\ (~client'.refused => ~client.refused)
  BY <1>5, Zenon
<1>7. Matched(client', step)
  <2>1. SUFFICES ASSUME ~client'.late
                 PROVE  /\ Len(q) + client.answers <= 1
                        /\ ~Quiet(q) => step = "send"
                        /\ ~client'.refused
    BY <1>5 DEF Matched
  <2>2. /\ Len(client.queue) + client.answers <= 0
        /\ Quiet(client.queue) /\ ~client.refused
    BY <1>6, <2>1 DEF Matched, Waits
  <2> QED
    BY <1>2, <1>3, <1>6, <2>2
<1> QED
  BY <1>3, <1>5, <1>6, <1>7

LEMMA TakesIs ==
    ASSUME client \in Clients, NEW n \in 0..2, NEW pc \in Steps, NEW step \in Steps,
           Matched(client, pc), step \notin Waits, client.answers > 0,
           client' = [thread |-> client.thread, tries |-> client.tries, subscribed |-> n, queue |-> client.queue,
                      answers |-> client.answers - 1, late |-> client.late, refused |-> client.refused]
    PROVE  /\ client' \in Clients /\ client'.thread = client.thread /\ client'.subscribed = n
           /\ client'.queue = client.queue /\ (~client'.refused => ~client.refused)
           /\ Matched(client', step)
PROOF
<1>1. client.answers \in Nat /\ Len(client.queue) \in Nat /\ client.answers - 1 \in Nat
  <2>1. client.answers \in Nat /\ Len(client.queue) \in Nat
    BY ClientFields
  <2> QED
    BY <2>1
<1>2. /\ client' \in Clients /\ client'.thread = client.thread /\ client'.subscribed = n
      /\ client'.queue = client.queue /\ client'.answers = client.answers - 1
      /\ client'.late = client.late /\ client'.refused = client.refused
  BY <1>1, ClientFields, ClientIs
<1>3. (~client'.late => ~client.late) /\ (client'.refused => client.refused) /\ (~client'.refused => ~client.refused)
  BY <1>2, Zenon
<1>4. Matched(client', step)
  <2>1. SUFFICES ASSUME ~client'.late
                 PROVE  /\ Len(client.queue) + (client.answers - 1) <= 0
                        /\ Quiet(client.queue)
                        /\ ~client'.refused
    BY <1>2 DEF Matched
  <2>2. /\ Len(client.queue) + client.answers <= (IF pc \in Waits THEN 1 ELSE 0)
        /\ client.refused => Len(client.queue) + client.answers = 0
    BY <1>3, <2>1 DEF Matched
  <2>3. Len(client.queue) + client.answers <= 1
    BY <1>1, <2>2
  <2>4. Len(client.queue) = 0
    BY <1>1, <2>3
  <2>5. Quiet(client.queue)
    BY <2>4 DEF Quiet
  <2> QED
    BY <1>1, <1>3, <2>2, <2>3, <2>5
<1> QED
  BY <1>2, <1>3, <1>4

\* The task asks: it subscribes, closes a request to join, or sends its activity.
LEMMA TaskAsks ==
    ASSUME ActivityInv, Activity!Subscribe \/ Activity!CloseRequest \/ Activity!Send
    PROVE  ActivityInv'
PROOF
<1>1. ActivityTypes /\ ActivityFlags /\ Published
  BY DEF ActivityInv
<1>2. UNCHANGED <<discord, league, retry, shown, ready, last, nudge>>
  BY DEF Activity!Subscribe, Activity!CloseRequest, Activity!Send, Activity!world
<1>3. /\ client \in Clients /\ task \in Runs /\ task.pc \in Steps /\ task.cur \in Presences
      /\ Matched(client, task.pc) /\ Allowed(client, shown) /\ Ordered(client, shown, Aim)
  BY <1>1 DEF ActivityTypes, Published, Runs
<1>4. ActivityFlags'
  BY <1>1, <1>2, Zenon DEF ActivityFlags
<1>5. None \in Presences /\ Waits \subseteq Steps
  BY DEF Presences, Waits, Steps
<1>6. CASE Activity!Subscribe \/ Activity!CloseRequest
  <2>1. PICK step \in {"subscribing", "closing"} :
          /\ task' = [task EXCEPT !.pc = step] /\ Activity!Asks(None)
          /\ task.pc = (IF step = "closing" THEN "idle" ELSE "subscribe")
          /\ step = "subscribing" => client.subscribed < 2
    BY <1>6 DEF Activity!Subscribe, Activity!CloseRequest, Activity!To
  <2>2. step \in Waits /\ step \in Steps /\ step # "send" /\ task.pc \notin Waits /\ task.pc # "send"
    BY <2>1 DEF Waits, Steps
  <2>3. /\ client' \in Clients /\ client'.thread = client.thread /\ client'.subscribed = client.subscribed
        /\ Quiet(client.queue) => Quiet(client'.queue)
        /\ Quiet(client'.queue) => Quiet(client.queue)
        /\ \A t : EndsWith(client.queue, t) => EndsWith(client'.queue, t)
        /\ ~client'.refused => ~client.refused
        /\ Matched(client', step)
    BY <1>3, <1>5, <2>1, <2>2, AsksIs
  <2>4. task' \in Runs /\ task'.pc = step /\ task'.cur = task.cur
    BY <1>3, <2>1, <2>2 DEF Runs
  <2>5. Aim = last /\ Aim' = last
    BY <1>2, <2>2, <2>4 DEF Aim
  <2>6. Ordered(client', shown, last)
    BY <1>3, <2>3, <2>5 DEF Ordered
  <2>7. Allowed(client', shown) /\ Stepwise(client', step, task.cur)
    BY <1>1, <1>3, <2>1, <2>3 DEF Allowed, Stepwise, Published
  <2>8. ActivityTypes' /\ Published'
    BY <1>1, <1>2, <2>3, <2>4, <2>5, <2>6, <2>7 DEF ActivityTypes, Published
  <2> QED
    BY <1>4, <2>8 DEF ActivityInv
<1>7. CASE Activity!Send
  <2>1. /\ task' = [task EXCEPT !.pc = "send"] /\ Activity!Asks(task.cur)
        /\ task.pc = "subscribe" /\ client.subscribed = 2
    BY <1>7 DEF Activity!Send, Activity!To
  <2>2. "send" \in Waits /\ "send" \in Steps /\ task.pc \notin Waits /\ task.cur # None
    BY <1>1, <2>1 DEF Waits, Steps, Published, Stepwise
  <2>3. /\ client' \in Clients /\ client'.thread = client.thread /\ client'.subscribed = client.subscribed
        /\ EndsWith(client'.queue, task.cur) /\ ~Quiet(client'.queue)
        /\ Matched(client', "send")
    BY <1>3, <2>1, <2>2, AsksIs
  <2>4. task' \in Runs /\ task'.pc = "send" /\ task'.cur = task.cur
    BY <1>3, <2>1, <2>2 DEF Runs
  <2>5. Aim' = task.cur
    BY <2>4 DEF Aim
  <2>6. /\ Ordered(client', shown, task.cur) /\ Allowed(client', shown)
        /\ Stepwise(client', "send", task.cur)
    BY <1>3, <2>1, <2>2, <2>3 DEF Ordered, Allowed, Stepwise
  <2>7. ActivityTypes' /\ Published'
    BY <1>1, <1>2, <2>3, <2>4, <2>5, <2>6 DEF ActivityTypes, Published
  <2> QED
    BY <1>4, <2>7 DEF ActivityInv
<1> QED
  BY <1>6, <1>7

\* The task goes on with an answer, or without the one it asked to close a request.
LEMMA AnswerStep ==
    ASSUME ActivityInv, Activity!Subscribed \/ Activity!Closed \/ Activity!Sent \/ Activity!CloseFails
    PROVE  ActivityInv'
PROOF
<1> USE NoneIsNobody
<1>1. ActivityTypes /\ ActivityFlags /\ Published
  BY DEF ActivityInv
<1>2. UNCHANGED <<discord, league, retry, shown, ready>>
  BY DEF Activity!Subscribed, Activity!Closed, Activity!Sent, Activity!CloseFails, Activity!world
<1>3. /\ client \in Clients /\ task \in Runs /\ task.pc \in Steps /\ task.cur \in Presences
      /\ Matched(client, task.pc) /\ Allowed(client, shown) /\ Ordered(client, shown, Aim)
      /\ Stepwise(client, task.pc, task.cur)
  BY <1>1 DEF ActivityTypes, Published, Runs
<1>4. ActivityFlags'
  BY <1>1, <1>2, Zenon DEF ActivityFlags
<1>5. "idle" \in Steps \ Waits /\ "subscribe" \in Steps \ Waits
  BY DEF Waits, Steps
<1>6. client.subscribed \in 0..2 /\ client.answers \in Nat
  BY <1>3, ClientFields
<1> DEFINE a == client.answers - 1
<1>7. CASE Activity!Subscribed
  <2> DEFINE p == [client EXCEPT !.answers = a]  n == client.subscribed + 1
  <2>1. /\ task' = [task EXCEPT !.pc = "subscribe"] /\ client.answers > 0 /\ task.pc = "subscribing"
        /\ client' = [p EXCEPT !.subscribed = n] /\ UNCHANGED <<last, nudge>>
    <3>1. client' = [p EXCEPT !.subscribed = p.subscribed + 1]
      BY <1>7, Zenon DEF Activity!Subscribed, Activity!WithoutAnswer
    <3>2. p.subscribed = client.subscribed
      BY <1>3 DEF Clients
    <3> QED
      BY <1>7, <3>1, <3>2 DEF Activity!Subscribed, Activity!TakesAnswer, Activity!To
  <2>2. client.subscribed < 2 /\ client.subscribed + 1 \in 0..2 /\ shown = None /\ Quiet(client.queue)
    <3>1. client.subscribed < 2
      BY <1>3, <2>1 DEF Stepwise
    <3> QED
      BY <1>3, <1>6, <3>1 DEF Allowed
  <2>8. p = [client EXCEPT !.answers = a]
    OBVIOUS
  <2> HIDE DEF n, a, p
  <2>3. client' = [thread |-> client.thread, tries |-> client.tries, subscribed |-> n, queue |-> client.queue,
                   answers |-> a, late |-> client.late, refused |-> client.refused]
    BY <1>3, <2>1, <2>8, SubscribedIs, Zenon
  <2>4. /\ client' \in Clients /\ client'.thread = client.thread /\ client'.subscribed = n
        /\ client'.queue = client.queue /\ Matched(client', "subscribe")
    BY <1>3, <1>5, <2>1, <2>2, <2>3, TakesIs DEF n, a
  <2>5. task' \in Runs /\ task'.pc = "subscribe" /\ task'.cur = task.cur
    BY <1>3, <1>5, <2>1 DEF Runs
  <2>6. Ordered(client', shown, last) /\ Allowed(client', shown) /\ Stepwise(client', "subscribe", task.cur)
    <3>1. EndsWith(client.queue, last)
      BY <2>2 DEF Quiet, EndsWith
    <3> QED
      BY <1>3, <2>1, <2>2, <2>4, <3>1 DEF Ordered, Allowed, Stepwise
  <2>7. ActivityTypes' /\ Published'
    BY <1>1, <1>2, <2>1, <2>4, <2>5, <2>6 DEF ActivityTypes, Published, Aim
  <2> QED
    BY <1>4, <2>7 DEF ActivityInv
<1>8. CASE Activity!Closed \/ Activity!Sent
  <2>1. client.answers > 0 /\ client' = [client EXCEPT !.answers = a]
    BY <1>8 DEF Activity!Closed, Activity!Sent, Activity!TakesAnswer, Activity!WithoutAnswer
  <2>2. client' = [thread |-> client.thread, tries |-> client.tries, subscribed |-> client.subscribed,
                   queue |-> client.queue, answers |-> a, late |-> client.late, refused |-> client.refused]
    <3> HIDE DEF a
    <3> QED
      BY <1>3, <2>1, ChangedIs, Zenon
  <2>3. /\ client' \in Clients /\ client'.thread = client.thread /\ client'.subscribed = client.subscribed
        /\ client'.queue = client.queue /\ (~client'.refused => ~client.refused)
        /\ Matched(client', "idle")
    BY <1>3, <1>5, <1>6, <2>1, <2>2, TakesIs
  <2>4. Allowed(client', shown)
    BY <1>3, <2>3 DEF Allowed
  <2>5. CASE Activity!Closed
    <3>1. task' = [task EXCEPT !.pc = "idle"] /\ UNCHANGED <<last, nudge>> /\ task.pc = "closing"
      BY <2>5 DEF Activity!Closed, Activity!To
    <3>2. task' \in Runs /\ task'.pc = "idle" /\ task'.cur = task.cur
      BY <1>3, <1>5, <3>1 DEF Runs
    <3>3. Ordered(client', shown, last) /\ Stepwise(client', "idle", task.cur)
      BY <1>3, <2>3, <3>1 DEF Ordered, Stepwise, Aim
    <3>4. ActivityTypes' /\ Published'
      BY <1>1, <1>2, <2>3, <2>4, <3>1, <3>2, <3>3 DEF ActivityTypes, Published, Aim
    <3> QED
      BY <1>4, <3>4 DEF ActivityInv
  <2>6. CASE Activity!Sent
    <3>1. /\ task.pc = "send" /\ task' = Activity!Idle /\ last' = task.cur
          /\ nudge' \in {nudge, Activity!NoNudge, [at |-> "later", phase |-> task.cur.phase]}
      BY <2>6 DEF Activity!Sent, Activity!Done
    <3>2. task.cur \in Snapshots
      BY <1>3, <3>1 DEF Stepwise, Presences
    <3>3. nudge' \in Nudges
      BY <1>1, <3>1, <3>2 DEF ActivityTypes, Nudges, Activity!NoNudge
    <3>4. Ordered(client', shown, task.cur) /\ Stepwise(client', "idle", Activity!Idle.cur)
      BY <1>3, <2>3, <3>1 DEF Ordered, Stepwise, Aim
    <3>5. ActivityTypes' /\ Published'
      BY <1>1, <1>2, <1>3, <2>3, <2>4, <3>1, <3>3, <3>4, IdleIs DEF ActivityTypes, Published, Aim
    <3> QED
      BY <1>4, <3>5 DEF ActivityInv
  <2> QED
    BY <1>8, <2>5, <2>6
<1>9. CASE Activity!CloseFails
  <2> DEFINE yes == TRUE
  <2>1. /\ task.pc = "closing" /\ UNCHANGED <<last, nudge>> /\ task' = [task EXCEPT !.pc = "idle"]
        /\ client' = [client EXCEPT !.late = yes] /\ yes \in BOOLEAN
    BY <1>9 DEF Activity!CloseFails, Activity!GivesUp, Activity!To
  <2>2. /\ client' \in Clients /\ client'.thread = client.thread /\ client'.subscribed = client.subscribed
        /\ client'.queue = client.queue /\ (~client'.refused => ~client.refused) /\ Matched(client', "idle")
    <3> HIDE DEF yes
    <3>1. client' = [thread |-> client.thread, tries |-> client.tries, subscribed |-> client.subscribed,
                      queue |-> client.queue, answers |-> client.answers, late |-> yes, refused |-> client.refused]
      BY <1>3, <2>1, ChangedIs, Zenon
    <3>2. /\ client' \in Clients /\ client'.thread = client.thread /\ client'.subscribed = client.subscribed
          /\ client'.queue = client.queue /\ (~client'.refused => ~client.refused)
          /\ yes => Matched(client', "idle")
      BY <1>3, <2>1, <3>1, GivenUpIs, Zenon
    <3> QED
      BY <3>2, Zenon DEF yes
  <2>3. task' \in Runs /\ task'.pc = "idle" /\ task'.cur = task.cur
    BY <1>3, <1>5, <2>1 DEF Runs
  <2>4. Ordered(client', shown, last) /\ Allowed(client', shown) /\ Stepwise(client', "idle", task.cur)
    BY <1>3, <2>1, <2>2 DEF Ordered, Allowed, Stepwise, Aim
  <2>5. ActivityTypes' /\ Published'
    BY <1>1, <1>2, <2>1, <2>2, <2>3, <2>4 DEF ActivityTypes, Published, Aim
  <2> QED
    BY <1>4, <2>5 DEF ActivityInv
<1> QED
  BY <1>7, <1>8, <1>9

LEMMA ActivityNextStep == ASSUME ActivityInv, Activity!Next PROVE ActivityInv'
PROOF
  BY QuitsStep, ActivityWorldStep, DiscordReadsStep, TaskStep, RunFails, TaskAsks, AnswerStep DEF Activity!Next

LEMMA ActivitySafety ==
    ASSUME ActivityInv
    PROVE  Activity!TypeOK /\ Activity!ShownIsLast /\ Activity!ShownByClient
PROOF
<1>1. ActivityTypes /\ ActivityFlags /\ Published
  BY DEF ActivityInv
<1>2. {discord, ready, retry} \subseteq BOOLEAN
  BY <1>1, Zenon DEF ActivityFlags
<1>3. Activity!TypeOK
  <2>1. /\ client.thread \in Threads /\ client.queue \in Seq(Presences) /\ client.tries \in 0..ConnectAttempts
        /\ client.subscribed \in 0..2 /\ client.answers \in Nat
    BY <1>1, ClientFields DEF ActivityTypes
  <2> QED
    BY <1>1, <1>2, <2>1 DEF ActivityTypes, Activity!TypeOK, Presences, Threads, Steps, Runs, Nudges
<1>4. /\ client \in Clients /\ Ordered(client, shown, Aim) /\ Matched(client, task.pc) /\ Allowed(client, shown)
  BY <1>1 DEF ActivityTypes, Published
<1>5. Activity!Underway = {} <=> Quiet(client.queue)
  <2>1. client.queue \in Seq(Presences)
    BY <1>4, ClientFields
  <2>2. DOMAIN client.queue = 1..Len(client.queue)
    BY <2>1, LenProperties
  <2> QED
    BY <2>2 DEF Activity!Underway, Quiet
<1>6. Activity!ShownIsLast
  <2>1. SUFFICES ASSUME task.pc = "idle", shown # None
                 PROVE  \/ shown = last /\ Activity!Underway = {}
                        \/ client.late /\ (Activity!Underway # {} \/ client.refused)
    BY DEF Activity!ShownIsLast
  <2>2. Quiet(client.queue) /\ ~client.refused => shown = last
    BY <1>4, <2>1 DEF Ordered, Aim
  <2>3. ~client.late => Quiet(client.queue) /\ ~client.refused
    BY <1>4, <2>1 DEF Matched
  <2> QED
    BY <1>5, <2>2, <2>3, Zenon
<1>7. Activity!ShownByClient
  <2>1. client.subscribed \in 0..2
    BY <1>4, ClientFields
  <2> QED
    BY <1>4, <2>1 DEF Allowed, Activity!ShownByClient
<1> QED
  BY <1>3, <1>6, <1>7

-------------------------------------------------------------------------------
(* Requests to join                                                           *)

JoinTypes ==
    /\ asks \in 0..MaxAsks /\ inbox \subseteq Users /\ lookups \subseteq Users
    /\ answers \subseteq [user : Users, status : Joins!Statuses, id : RiotIds \cup {None}]
    /\ pending \in [Users -> Joins!Request \cup {None}]
    /\ joinTask \in [pc : {"idle", "phase", "invite"}, batch : SUBSET Users]
    /\ taken \in [Users -> Nat] /\ invited \in [Users -> Nat] /\ lost \in [Users -> Nat]

\* A request that waits has not been invited for: it has an invitation to spare.
Spared == \A u \in Users :
    invited[u] + (IF pending[u] # None THEN 1 ELSE 0) <= taken[u] + lost[u]

\* What the task is about to invite waits with its Riot ID, and only then is
\* there something.
Collected ==
    /\ joinTask.pc = "idle" => joinTask.batch = {}
    /\ \A u \in joinTask.batch : pending[u] # None /\ pending[u].id # None

JoinsInv == JoinTypes /\ lobby \in BOOLEAN /\ Spared /\ Collected

LEMMA JoinsInit == Joins!Init => JoinsInv
PROOF
<1> SUFFICES ASSUME Joins!Init
             PROVE  JoinsInv
  OBVIOUS
<1>1. JoinTypes /\ Spared /\ Collected
  BY AsksAreCounted DEF Joins!Init, Joins!Idle, JoinTypes, Spared, Collected
<1>2. lobby \in BOOLEAN
  BY Zenon DEF Joins!Init
<1> QED
  BY <1>1, <1>2 DEF JoinsInv

LEMMA RequestIs ==
    ASSUME NEW r \in Joins!Request
    PROVE  /\ r # None /\ r.id \in RiotIds \cup {None}
           /\ \A t \in Joins!Times : [r EXCEPT !.looked = t] \in Joins!Request /\ [r EXCEPT !.looked = t].id = r.id
           /\ \A t \in Joins!Times : [r EXCEPT !.tried = t] \in Joins!Request /\ [r EXCEPT !.tried = t].id = r.id
           /\ [r EXCEPT !.old = TRUE] \in Joins!Request /\ [r EXCEPT !.old = TRUE].id = r.id
PROOF
  BY NoneIsNobody DEF Joins!Request

LEMMA ResolvedIs ==
    ASSUME NEW r \in Joins!Request, NEW i, NEW t
    PROVE  [r EXCEPT !.id = i, !.tried = t] = [id |-> i, looked |-> r.looked, tried |-> t, old |-> r.old]
PROOF
<1> DEFINE q == [r EXCEPT !.id = i]
<1>1. q = [id |-> i, looked |-> r.looked, tried |-> r.tried, old |-> r.old]
  BY DEF Joins!Request
<1>2. [q EXCEPT !.tried = t] = [id |-> i, looked |-> r.looked, tried |-> t, old |-> r.old]
  <2> HIDE DEF q
  <2> QED
    BY <1>1
<1>3. [r EXCEPT !.id = i, !.tried = t] = [q EXCEPT !.tried = t]
  OBVIOUS
<1> QED
  BY <1>2, <1>3

\* A step of the world, or an answer or time that only changes requests that wait.
LEMMA WaitingStep ==
    ASSUME JoinsInv,
           \/ Joins!PhaseChanges
           \/ \E u \in Users :
                \/ Joins!Ask(u) \/ Joins!LookupLost(u) \/ Joins!TimePasses(u)
                \/ \E s \in Joins!Statuses, id \in RiotIds \cup {None} : Joins!RelayAnswers(u, s, id)
           \/ Joins!RetryLookups
    PROVE  JoinsInv'
PROOF
<1>1. JoinTypes /\ lobby \in BOOLEAN /\ Spared /\ Collected
  BY DEF JoinsInv
<1>2. lobby' \in BOOLEAN
  BY <1>1, Zenon DEF Joins!PhaseChanges, Joins!Ask, Joins!LookupLost, Joins!TimePasses, Joins!RelayAnswers,
     Joins!RetryLookups, Joins!world
<1>3. UNCHANGED <<joinTask, taken, invited, lost>>
  BY DEF Joins!PhaseChanges, Joins!Ask, Joins!LookupLost, Joins!TimePasses, Joins!RelayAnswers,
     Joins!RetryLookups, Joins!history
<1>4. asks' \in 0..MaxAsks
  <2>1. asks' = asks \/ (asks < MaxAsks /\ asks' = asks + 1)
    BY Zenon DEF Joins!PhaseChanges, Joins!Ask, Joins!LookupLost, Joins!TimePasses, Joins!RelayAnswers,
       Joins!RetryLookups, Joins!world
  <2> QED
    BY <1>1, <2>1, AsksAreCounted DEF JoinTypes
<1>5. inbox' \subseteq Users /\ lookups' \subseteq Users
  BY <1>1 DEF Joins!PhaseChanges, Joins!Ask, Joins!LookupLost, Joins!TimePasses, Joins!RelayAnswers,
     Joins!RetryLookups, JoinTypes, Joins!Queued
<1>6. answers' \subseteq [user : Users, status : Joins!Statuses, id : RiotIds \cup {None}]
  <2>1. \/ UNCHANGED answers
        \/ \E u \in Users, s \in Joins!Statuses, i \in RiotIds \cup {None} :
               answers' = answers \cup {[user |-> u, status |-> s, id |-> i]}
    BY Zenon DEF Joins!PhaseChanges, Joins!Ask, Joins!LookupLost, Joins!TimePasses, Joins!RelayAnswers,
       Joins!RetryLookups
  <2> QED
    BY <1>1, <2>1 DEF JoinTypes
<1>7. /\ pending' \in [Users -> Joins!Request \cup {None}]
      /\ \A u \in Users : pending[u] = None <=> pending'[u] = None
      /\ \A u \in Users : pending[u] # None => pending'[u].id = pending[u].id
  <2>1. pending \in [Users -> Joins!Request \cup {None}]
    BY <1>1 DEF JoinTypes
  <2>2. CASE UNCHANGED pending
    BY <2>1, <2>2
  <2>3. CASE \E u \in Users : Joins!TimePasses(u)
    <3>1. PICK u \in Users : Joins!TimePasses(u)
      BY <2>3
    <3>2. PICK r : /\ pending' = [pending EXCEPT ![u] = r] /\ pending[u] # None
                   /\ \/ r = [pending[u] EXCEPT !.looked = "now"]
                      \/ r = [pending[u] EXCEPT !.tried = "now"]
                      \/ r = [pending[u] EXCEPT !.old = TRUE]
      BY <3>1 DEF Joins!TimePasses, Joins!Later, Joins!Waiting
    <3>3. pending[u] \in Joins!Request
      BY <2>1, <3>2
    <3>4. "now" \in Joins!Times
      BY DEF Joins!Times
    <3> DEFINE p == pending[u]
    <3>5. /\ [p EXCEPT !.looked = "now"] \in Joins!Request /\ [p EXCEPT !.looked = "now"].id = p.id
          /\ [p EXCEPT !.tried = "now"] \in Joins!Request /\ [p EXCEPT !.tried = "now"].id = p.id
          /\ [p EXCEPT !.old = TRUE] \in Joins!Request /\ [p EXCEPT !.old = TRUE].id = p.id
      BY <3>3, <3>4, RequestIs
    <3>6. r \in Joins!Request /\ r.id = p.id
      BY <3>2, <3>5, Zenon
    <3>7. r # None
      BY <3>6, RequestIs
    <3> QED
      BY <2>1, <3>2, <3>6, <3>7
  <2>4. CASE Joins!RetryLookups
    <3>1. PICK due : /\ due \subseteq {u \in Users : pending[u] # None}
                     /\ pending' = [u \in Users |-> IF u \in due THEN [pending[u] EXCEPT !.looked = "later"]
                                                    ELSE pending[u]]
      BY <2>4 DEF Joins!RetryLookups, Joins!Queued, Joins!Waiting
    <3>2. "later" \in Joins!Times
      BY DEF Joins!Times
    <3>3. \A u \in due : /\ [pending[u] EXCEPT !.looked = "later"] \in Joins!Request
                         /\ [pending[u] EXCEPT !.looked = "later"] # None
                         /\ [pending[u] EXCEPT !.looked = "later"].id = pending[u].id
      BY <2>1, <3>1, <3>2, RequestIs
    <3> QED
      BY <2>1, <3>1, <3>3
  <2> QED
    BY <2>2, <2>3, <2>4 DEF Joins!PhaseChanges, Joins!Ask, Joins!LookupLost, Joins!RelayAnswers
<1>8. JoinTypes'
  BY <1>1, <1>3, <1>4, <1>5, <1>6, <1>7 DEF JoinTypes
<1>9. Spared'
  BY <1>1, <1>3, <1>7 DEF JoinTypes, Spared
<1>10. Collected'
  BY <1>1, <1>3, <1>7 DEF JoinTypes, Collected
<1> QED
  BY <1>2, <1>8, <1>9, <1>10 DEF JoinsInv

\* The task takes a request or an answer in, or forgets what is old and collects.
LEMMA QueueStep ==
    ASSUME JoinsInv,
           \/ \E u \in Users : Joins!QueueRequest(u)
           \/ \E a \in answers : Joins!ApplyResolution(a)
           \/ Joins!Flush
    PROVE  JoinsInv'
PROOF
<1>1. JoinTypes /\ lobby \in BOOLEAN /\ Spared /\ Collected
  BY DEF JoinsInv
<1>2. UNCHANGED <<lobby, asks, invited, lost>> /\ joinTask.pc = "idle" /\ joinTask.batch = {}
  BY <1>1 DEF Joins!QueueRequest, Joins!ApplyResolution, Joins!Flush, Joins!world, Joins!history, Collected
<1>3. CASE \E u \in Users : Joins!QueueRequest(u)
  <2>1. PICK u \in Users : Joins!QueueRequest(u)
    BY <1>3
  <2>2. UNCHANGED <<answers, joinTask>> /\ inbox' = inbox \ {u}
    BY <2>1 DEF Joins!QueueRequest
  <2>3. CASE Joins!Waiting(u)
    BY <1>1, <1>2, <2>1, <2>2, <2>3 DEF Joins!QueueRequest, JoinsInv, JoinTypes, Spared, Collected
  <2>4. CASE ~Joins!Waiting(u)
    <3> DEFINE r == [id |-> None, looked |-> "later", tried |-> "never", old |-> FALSE]
    <3>1. /\ pending' = [pending EXCEPT ![u] = r] /\ lookups' = lookups \cup {u}
          /\ taken' = [taken EXCEPT ![u] = @ + 1] /\ pending[u] = None
      BY <2>1, <2>4 DEF Joins!QueueRequest, Joins!Waiting
    <3>2. r \in Joins!Request
      BY DEF Joins!Request, Joins!Times
    <3> HIDE DEF r
    <3>3. JoinTypes'
      BY <1>1, <1>2, <2>2, <3>1, <3>2 DEF JoinTypes
    <3>4. Spared'
      BY <1>1, <1>2, <3>1 DEF JoinTypes, Spared
    <3>5. Collected'
      BY <1>1, <1>2, <2>2 DEF Collected
    <3> QED
      BY <1>1, <1>2, <3>3, <3>4, <3>5 DEF JoinsInv
  <2> QED
    BY <2>3, <2>4
<1>4. CASE \E a \in answers : Joins!ApplyResolution(a)
  <2>1. PICK a \in answers : Joins!ApplyResolution(a)
    BY <1>4
  <2>2. /\ UNCHANGED <<inbox, lookups, joinTask, taken>> /\ answers' \subseteq answers
        /\ a.user \in Users /\ a.id \in RiotIds \cup {None}
    BY <1>1, <2>1 DEF Joins!ApplyResolution, Joins!history, JoinTypes
  <2>3. /\ pending' \in [Users -> Joins!Request \cup {None}]
        /\ \A u \in Users : pending'[u] # None => pending[u] # None
    <3>1. CASE pending' = pending
      BY <1>1, <3>1 DEF JoinTypes
    <3>2. CASE pending' = [u \in Users |-> IF u \in {a.user} THEN None ELSE pending[u]]
      BY <1>1, <3>2 DEF JoinTypes
    <3>3. CASE /\ pending[a.user] # None
               /\ \E t : /\ t \in {"never", pending[a.user].tried}
                         /\ pending' = [pending EXCEPT ![a.user] = [pending[a.user] EXCEPT !.id = a.id, !.tried = t]]
      <4>1. PICK t : /\ t \in {"never", pending[a.user].tried}
                     /\ pending' = [pending EXCEPT ![a.user] = [pending[a.user] EXCEPT !.id = a.id, !.tried = t]]
        BY <3>3
      <4> DEFINE p == pending[a.user]
                 r == [p EXCEPT !.id = a.id, !.tried = t]
      <4>2. p \in Joins!Request
        BY <1>1, <2>2, <3>3 DEF JoinTypes
      <4>3. t \in Joins!Times
        BY <4>1, <4>2 DEF Joins!Request, Joins!Times
      <4>4. r = [id |-> a.id, looked |-> p.looked, tried |-> t, old |-> p.old]
        BY <4>2, ResolvedIs
      <4>5. r \in Joins!Request
        BY <2>2, <4>2, <4>3, <4>4 DEF Joins!Request
      <4> QED
        BY <1>1, <2>2, <3>3, <4>1, <4>5 DEF JoinTypes
    <3> QED
      BY <2>1, <3>1, <3>2, <3>3 DEF Joins!ApplyResolution, Joins!Forget, Joins!Later, Joins!Waiting
  <2>4. JoinTypes'
    BY <1>1, <1>2, <2>2, <2>3 DEF JoinTypes
  <2>5. Spared'
    BY <1>1, <1>2, <2>2, <2>3 DEF JoinTypes, Spared
  <2>6. Collected'
    BY <1>1, <1>2, <2>2 DEF Collected
  <2> QED
    BY <1>1, <1>2, <2>4, <2>5, <2>6 DEF JoinsInv
<1>5. CASE Joins!Flush
  <2> DEFINE Due == Joins!Collect
  <2>1. /\ pending' = [u \in Users |-> IF u \in Joins!Expired THEN None ELSE pending[u]]
        /\ joinTask' = IF Due = {} THEN [pc |-> "idle", batch |-> {}] ELSE [pc |-> "phase", batch |-> Due]
        /\ UNCHANGED <<inbox, lookups, answers, taken>>
    BY <1>5 DEF Joins!Flush, Joins!Forget, Joins!Idle, Joins!history
  <2>2. Due \subseteq Users /\ \A u \in Due : u \notin Joins!Expired /\ pending[u] # None /\ pending[u].id # None
    BY DEF Joins!Collect, Joins!Queued, Joins!Waiting, Joins!InviteDue
  <2> HIDE DEF Due
  <2>3. joinTask' \in [pc : {"idle", "phase", "invite"}, batch : SUBSET Users] /\ joinTask'.batch \subseteq Due
        /\ (joinTask'.pc = "idle" => joinTask'.batch = {})
    BY <2>1, <2>2
  <2>4. /\ pending' \in [Users -> Joins!Request \cup {None}]
        /\ \A u \in Users : pending'[u] # None => pending[u] # None
        /\ \A u \in Due : pending'[u] = pending[u]
    BY <1>1, <2>1, <2>2 DEF JoinTypes
  <2>5. JoinTypes'
    BY <1>1, <1>2, <2>1, <2>3, <2>4 DEF JoinTypes
  <2>6. Spared'
    BY <1>1, <1>2, <2>1, <2>4 DEF JoinTypes, Spared
  <2>7. Collected'
    BY <2>2, <2>3, <2>4 DEF Collected
  <2> QED
    BY <1>1, <1>2, <2>5, <2>6, <2>7 DEF JoinsInv
<1> QED
  BY <1>3, <1>4, <1>5

\* The task asks for the phase and invites.
LEMMA InviteStep ==
    ASSUME JoinsInv,
           \/ \E answered \in BOOLEAN : Joins!ReadPhase(answered)
           \/ \E u \in Users : Joins!Invite(u) \/ \E sent \in BOOLEAN : Joins!InviteFails(u, sent)
    PROVE  JoinsInv'
PROOF
<1>1. JoinTypes /\ lobby \in BOOLEAN /\ Spared /\ Collected
  BY DEF JoinsInv
<1>2. UNCHANGED <<lobby, asks, inbox, lookups, answers, taken>>
  BY DEF Joins!ReadPhase, Joins!Invite, Joins!InviteFails, Joins!world, Joins!history
<1>3. /\ joinTask' \in [pc : {"idle", "phase", "invite"}, batch : SUBSET Users]
      /\ joinTask'.batch \subseteq joinTask.batch /\ (joinTask'.pc = "idle" => joinTask'.batch = {})
      /\ \A u \in Users : Joins!Invite(u) \/ (\E sent \in BOOLEAN : Joins!InviteFails(u, sent))
            => u \notin joinTask'.batch
  <2>1. CASE \E answered \in BOOLEAN : Joins!ReadPhase(answered)
    <3>1. joinTask' = [joinTask EXCEPT !.pc = "invite"] \/ joinTask' = [pc |-> "idle", batch |-> {}]
      BY <2>1 DEF Joins!ReadPhase, Joins!Idle
    <3>2. joinTask.pc = "phase"
      BY <2>1 DEF Joins!ReadPhase
    <3> QED
      BY <1>1, <3>1, <3>2 DEF JoinTypes, Joins!Invite, Joins!InviteFails
  <2>2. ASSUME NEW u \in Users, Joins!Invite(u) \/ \E sent \in BOOLEAN : Joins!InviteFails(u, sent)
        PROVE  /\ joinTask' \in [pc : {"idle", "phase", "invite"}, batch : SUBSET Users]
               /\ joinTask'.batch \subseteq joinTask.batch /\ (joinTask'.pc = "idle" => joinTask'.batch = {})
               /\ u \notin joinTask'.batch
    <3>1. /\ joinTask.pc = "invite"
          /\ \/ joinTask' = [pc |-> "idle", batch |-> {}]
             \/ joinTask' = [joinTask EXCEPT !.batch = joinTask.batch \ {u}]
      BY <2>2 DEF Joins!Invite, Joins!InviteFails, Joins!Rest, Joins!Idle
    <3> QED
      BY <1>1, <3>1 DEF JoinTypes
  <2> QED
    BY <2>1, <2>2
<1>4. CASE \E answered \in BOOLEAN : Joins!ReadPhase(answered)
  <2>1. UNCHANGED <<pending, invited, lost>>
    BY <1>4 DEF Joins!ReadPhase, Joins!history
  <2> QED
    BY <1>1, <1>2, <1>3, <2>1 DEF JoinsInv, JoinTypes, Spared, Collected
<1>5. ASSUME NEW u \in Users, Joins!Invite(u)
      PROVE  JoinsInv'
  <2>1. /\ invited' = [invited EXCEPT ![u] = @ + 1] /\ UNCHANGED lost
        /\ pending' = [v \in Users |-> IF v \in {u} THEN None ELSE pending[v]] /\ pending[u] # None
    BY <1>1, <1>5 DEF Joins!Invite, Joins!InviteSent, Joins!ForgetInvited, Joins!Forget, Collected
  <2>2. JoinTypes'
    BY <1>1, <1>2, <1>3, <2>1 DEF JoinTypes
  <2>3. Spared'
    BY <1>1, <1>2, <2>1 DEF JoinTypes, Spared
  <2>4. u \notin joinTask'.batch
    BY <1>3, <1>5
  <2>5. Collected'
    BY <1>1, <1>3, <2>1, <2>4 DEF JoinTypes, Collected
  <2> QED
    BY <1>1, <1>2, <2>2, <2>3, <2>5 DEF JoinsInv
<1>6. ASSUME NEW u \in Users, NEW sent \in BOOLEAN, Joins!InviteFails(u, sent)
      PROVE  JoinsInv'
  <2> DEFINE r == [pending[u] EXCEPT !.tried = "later"]
  <2>1. /\ \/ UNCHANGED <<invited, lost>>
           \/ invited' = [invited EXCEPT ![u] = @ + 1] /\ lost' = [lost EXCEPT ![u] = @ + 1]
        /\ pending' = [pending EXCEPT ![u] = r] /\ pending[u] # None
    BY <1>1, <1>6 DEF Joins!InviteFails, Joins!Later, Collected, JoinTypes
  <2>2. r \in Joins!Request /\ r # None /\ r.id = pending[u].id
    <3>1. pending[u] \in Joins!Request /\ "later" \in Joins!Times
      BY <1>1, <2>1 DEF JoinTypes, Joins!Times
    <3> QED
      BY <3>1, RequestIs
  <2> HIDE DEF r
  <2>3. JoinTypes'
    BY <1>1, <1>2, <1>3, <2>1, <2>2 DEF JoinTypes
  <2>4. Spared'
    BY <1>1, <1>2, <2>1, <2>2 DEF JoinTypes, Spared
  <2>5. Collected'
    BY <1>1, <1>3, <2>1, <2>2 DEF JoinTypes, Collected
  <2> QED
    BY <1>1, <1>2, <2>3, <2>4, <2>5 DEF JoinsInv
<1> QED
  BY <1>4, <1>5, <1>6

LEMMA JoinsNextStep == ASSUME JoinsInv, Joins!Next PROVE JoinsInv'
PROOF
  BY WaitingStep, QueueStep, InviteStep DEF Joins!Next

LEMMA JoinsSafety ==
    ASSUME JoinsInv
    PROVE  Joins!TypeOK /\ Joins!InvitedOnce /\ Joins!InvitesWaiting
PROOF
<1>1. JoinTypes /\ lobby \in BOOLEAN /\ Spared /\ Collected
  BY DEF JoinsInv
<1>2. Joins!TypeOK
  BY <1>1 DEF JoinTypes, Joins!TypeOK
<1>3. Joins!InvitedOnce
  BY <1>1 DEF JoinTypes, Spared, Joins!InvitedOnce
<1>4. Joins!InvitesWaiting
  BY <1>1 DEF Collected, Joins!InvitesWaiting, Joins!Waiting
<1> QED
  BY <1>2, <1>3, <1>4

-------------------------------------------------------------------------------
(* The toggles of the overlay                                                 *)

Jobs == 1..MaxToggles
Insisting == Jobs \cup {Enforce}
Probers == Insisting \cup {Widget}
Wants == {None, "on", "off", "through"}
Job == [pc : {"idle", "lock", "probe", "lookAgain", "again", "open", "lookRetry", "retry"},
        want : Wants, left : 0..Retries]
Looking == {"probe", "again", "retry"}
Bars == {"closed", "other", "yummi"}

ControlTypes ==
    /\ generation \in 0..MaxToggles /\ saves \in 0..MaxToggles /\ saving \in Wants
    /\ tasks \in [Probers -> Job]
    /\ applier \in {None} \cup Insisting /\ prober \in {None} \cup Probers
    /\ bar \in Bars
    /\ probe.at \in 0..saves
    /\ probe = [stage |-> probe.stage, pin |-> probe.pin, through |-> probe.through, at |-> probe.at]

\* A job is spawned for each setting saved, one after the other; one that works
\* holds the lock, and the attempts left are at least the one under way.
Turns ==
    /\ generation <= saves /\ (saving # None => generation < saves)
    /\ \A j \in Jobs : j > generation => tasks[j].pc = "idle"
    /\ \A a \in Insisting : tasks[a].pc \notin {"idle", "lock"} => applier = a
    /\ \A a \in Probers : tasks[a].pc \in {"open", "lookRetry", "retry"} => tasks[a].left # 0 /\ a # Widget
    /\ prober # None => tasks[prober].pc \in Looking

\* The traversal under way carries the last setting, unless it is older and none
\* has applied the last one yet.
Carried == prober # None /\ probe.pin # None /\ (applied \/ probe.at = saves) => probe.pin = preference

ControlsInv ==
    ControlTypes /\ preference \in BOOLEAN /\ Turns /\ Carried /\ Controls!LastSettingWins

LEMMA ControlsInit == Controls!Init => ControlsInv
PROOF
<1> SUFFICES ASSUME Controls!Init
             PROVE  ControlsInv
  OBVIOUS
<1> USE TogglesAreCounted, ProbersDiffer, NoneIsNoProber
<1>1. /\ generation = 0 /\ saves = 0 /\ saving = None /\ applier = None /\ prober = None /\ bar \in Bars
      /\ probe = [stage |-> "none", pin |-> None, through |-> FALSE, at |-> 0]
      /\ tasks = [a \in Probers |-> [pc |-> "idle", want |-> None, left |-> 0]]
  BY DEF Controls!Init, Controls!Idle, Controls!NoProbe, Controls!Probers, Controls!Jobs, Probers, Insisting, Jobs, Bars
<1>2. ControlTypes
  BY <1>1 DEF ControlTypes, Job, Wants
<1>3. Turns
  BY <1>1 DEF Turns, Jobs, Insisting, Probers
<1>4. Carried
  BY <1>1 DEF Carried
<1>5. preference \in BOOLEAN /\ Controls!LastSettingWins
  BY Zenon DEF Controls!Init, Controls!LastSettingWins
<1> QED
  BY <1>2, <1>3, <1>4, <1>5 DEF ControlsInv

\* What leaves requests, tasks and locks alone, and touches the toggle only when it
\* says so.
LEMMA GameStep ==
    ASSUME ControlsInv, Controls!BarChanges \/ Controls!UserPins \/ Controls!UserTurnsOff
    PROVE  ControlsInv'
PROOF
<1>1. ControlTypes /\ preference \in BOOLEAN /\ Turns /\ Carried /\ Controls!LastSettingWins
  BY DEF ControlsInv
<1>2. UNCHANGED <<preference, saving, generation, recent, probes, saves, tasks, applier, prober, probe, applied>>
  BY DEF Controls!BarChanges, Controls!UserPins, Controls!UserTurnsOff, Controls!requests, Controls!locks
<1>3. bar' \in Bars
  BY <1>1 DEF Controls!BarChanges, Controls!UserPins, Controls!UserTurnsOff, ControlTypes, Bars
<1>4. ControlTypes' /\ Turns'
  BY <1>1, <1>2, <1>3 DEF ControlTypes, Turns
<1>5. preference' \in BOOLEAN /\ Carried' /\ Controls!LastSettingWins'
  BY <1>1, <1>2, Zenon DEF Controls!BarChanges, Controls!UserPins, Controls!UserTurnsOff, Carried, Controls!LastSettingWins
<1> QED
  BY <1>4, <1>5 DEF ControlsInv

LEMMA SaveStep == ASSUME ControlsInv, NEW want \in {"on", "off", "through"}, Controls!Save(want) PROVE ControlsInv'
PROOF
<1> USE TogglesAreCounted, ProbersDiffer
<1>1. ControlTypes /\ preference \in BOOLEAN /\ Turns /\ Carried /\ Controls!LastSettingWins
  BY DEF ControlsInv
<1>2. /\ saves < MaxToggles /\ saves' = saves + 1 /\ saving = None /\ saving' = want
      /\ UNCHANGED <<generation, tasks, applier, prober, probe, bar>>
  BY DEF Controls!Save, Controls!locks
<1>3. ControlTypes' /\ Turns'
  BY <1>1, <1>2 DEF ControlTypes, Turns, Wants
<1>4. probe'.at # saves'
  BY <1>1, <1>2 DEF ControlTypes
<1>5. UNCHANGED <<prober, probe, pinned>>
  BY <1>2 DEF Controls!Save
<1>6. \/ applied' = FALSE
      \/ UNCHANGED <<preference, applied, touched>>
  BY Zenon DEF Controls!Save
<1>7. preference' \in BOOLEAN
  BY <1>1, Zenon DEF Controls!Save
<1>8. ASSUME applied' = FALSE
      PROVE  Carried' /\ Controls!LastSettingWins'
  BY <1>4, <1>8, Zenon DEF Carried, Controls!LastSettingWins
<1>9. ASSUME UNCHANGED <<preference, applied, touched>>
      PROVE  Carried' /\ Controls!LastSettingWins'
  <2>1. prober' = prober /\ probe' = probe /\ pinned' = pinned
    BY <1>5
  <2>2. preference' = preference /\ applied' = applied /\ touched' = touched
    BY <1>9, Zenon
  <2>3. Carried'
    BY <1>1, <1>4, <2>1, <2>2, Zenon DEF Carried
  <2>4. Controls!LastSettingWins'
    BY <1>1, <2>1, <2>2, Zenon DEF Controls!LastSettingWins
  <2> QED
    BY <2>3, <2>4
<1>10. Carried' /\ Controls!LastSettingWins'
  BY <1>6, <1>8, <1>9
<1> QED
  BY <1>3, <1>7, <1>10 DEF ControlsInv

LEMMA RequestStep == ASSUME ControlsInv, Controls!Request PROVE ControlsInv'
PROOF
<1> USE TogglesAreCounted, ProbersDiffer, NoneIsNoProber
<1>1. ControlTypes /\ preference \in BOOLEAN /\ Turns /\ Carried /\ Controls!LastSettingWins
  BY DEF ControlsInv
<1> DEFINE r == [pc |-> "lock", want |-> saving, left |-> 0]
<1>2. /\ saving # None /\ saving' = None /\ generation' = generation + 1
      /\ tasks' = [tasks EXCEPT ![generation + 1] = r]
      /\ UNCHANGED <<preference, saves, applier, prober, probe, bar, pinned, applied, touched>>
  BY DEF Controls!Request, Controls!locks, Controls!game
<1>3. generation + 1 \in Jobs /\ generation + 1 \in Probers /\ tasks[generation + 1].pc = "idle"
  BY <1>1, <1>2 DEF ControlTypes, Turns, Jobs, Probers, Insisting
<1>4. r \in Job /\ r.pc = "lock"
  BY <1>1 DEF ControlTypes, Job
<1> HIDE DEF r
<1>5. ControlTypes'
  BY <1>1, <1>2, <1>3, <1>4 DEF ControlTypes, Jobs, Wants
<1>6. \A a \in Probers : a # generation + 1 => tasks'[a] = tasks[a]
  BY <1>1, <1>2 DEF ControlTypes
<1>7. tasks'[generation + 1] = r
  BY <1>1, <1>2, <1>3 DEF ControlTypes
<1>8. prober # generation + 1
  BY <1>1, <1>3 DEF Turns, Looking, Probers, Insisting, Controls!Probers, Controls!Jobs, Jobs
<1>9. Turns'
  <2>1. generation' <= saves' /\ (saving' # None => generation' < saves')
    BY <1>1, <1>2 DEF ControlTypes, Turns
  <2>2. \A j \in Jobs : j > generation' => tasks'[j].pc = "idle"
    BY <1>1, <1>2, <1>6 DEF ControlTypes, Turns, Jobs, Probers, Insisting
  <2>3. \A a \in Insisting : tasks'[a].pc \notin {"idle", "lock"} => applier' = a
    BY <1>1, <1>2, <1>4, <1>6, <1>7 DEF Turns, Probers
  <2>4. \A a \in Probers : tasks'[a].pc \in {"open", "lookRetry", "retry"} => tasks'[a].left # 0 /\ a # Widget
    BY <1>1, <1>4, <1>6, <1>7 DEF Turns
  <2>5. prober' # None => tasks'[prober'].pc \in Looking
    BY <1>1, <1>2, <1>6, <1>8 DEF ControlTypes, Turns
  <2> QED
    BY <2>1, <2>2, <2>3, <2>4, <2>5 DEF Turns
<1>10. preference' \in BOOLEAN /\ Carried' /\ Controls!LastSettingWins'
  BY <1>1, <1>2, Zenon DEF Carried, Controls!LastSettingWins
<1> QED
  BY <1>5, <1>9, <1>10 DEF ControlsInv

\* A task that no traversal runs for goes on; who works holds the lock.
LEMMA TaskGoes ==
    ASSUME ControlsInv, NEW a \in Probers, prober # a,
           NEW r \in Job, tasks' = [tasks EXCEPT ![a] = r],
           a \in Jobs /\ a > generation => r.pc = "idle",
           a # Widget /\ r.pc \notin {"idle", "lock"} => applier' = a,
           r.pc \in {"open", "lookRetry", "retry"} => r.left # 0 /\ a # Widget,
           applier' \in {None} \cup Insisting,
           applier' # applier => applier \in {None, a},
           UNCHANGED <<preference, saves, saving, generation, prober, probe, pinned, applied, touched>>,
           bar' \in Bars
    PROVE  ControlsInv'
PROOF
<1> USE TogglesAreCounted, ProbersDiffer, NoneIsNoProber
<1>1. ControlTypes /\ preference \in BOOLEAN /\ Turns /\ Carried /\ Controls!LastSettingWins
  BY DEF ControlsInv
<1>2. ControlTypes'
  BY <1>1 DEF ControlTypes
<1>3. tasks'[a] = r /\ \A b \in Probers : b # a => tasks'[b] = tasks[b]
  BY <1>1 DEF ControlTypes
<1>4. Turns'
  <2>1. generation' <= saves' /\ (saving' # None => generation' < saves')
    BY <1>1 DEF Turns
  <2>2. \A j \in Jobs : j > generation' => tasks'[j].pc = "idle"
    BY <1>1, <1>3 DEF Turns, Probers, Insisting
  <2>3. \A b \in Insisting : tasks'[b].pc \notin {"idle", "lock"} => applier' = b
    <3> SUFFICES ASSUME NEW b \in Insisting, tasks'[b].pc \notin {"idle", "lock"}
                 PROVE  applier' = b
      OBVIOUS
    <3>1. b \in Probers /\ b # Widget /\ b # None
      BY DEF Insisting, Probers, Jobs, Controls!Probers, Controls!Jobs
    <3>2. CASE b = a
      BY <1>3, <3>1, <3>2
    <3>3. CASE b # a
      BY <1>1, <1>3, <3>1, <3>3 DEF Turns
    <3> QED
      BY <3>2, <3>3
  <2>4. \A b \in Probers : tasks'[b].pc \in {"open", "lookRetry", "retry"} => tasks'[b].left # 0 /\ b # Widget
    BY <1>1, <1>3 DEF Turns
  <2>5. prober' # None => tasks'[prober'].pc \in Looking
    BY <1>1, <1>3 DEF ControlTypes, Turns
  <2> QED
    BY <2>1, <2>2, <2>3, <2>4, <2>5 DEF Turns
<1>5. preference' \in BOOLEAN /\ Carried' /\ Controls!LastSettingWins'
  BY <1>1, Zenon DEF Carried, Controls!LastSettingWins
<1> QED
  BY <1>2, <1>4, <1>5 DEF ControlsInv

LEMMA PcIs ==
    ASSUME ControlTypes, NEW a \in Probers, NEW pc,
           pc \in {"idle", "lock", "probe", "lookAgain", "again", "open", "lookRetry", "retry"},
           tasks' = [tasks EXCEPT ![a].pc = pc]
    PROVE  \E r \in Job : /\ tasks' = [tasks EXCEPT ![a] = r]
                          /\ r.pc = pc /\ r.want = tasks[a].want /\ r.left = tasks[a].left
PROOF
<1> DEFINE r == [tasks[a] EXCEPT !.pc = pc]
<1>1. tasks[a] \in Job
  BY DEF ControlTypes
<1>2. r \in Job /\ r.pc = pc /\ r.want = tasks[a].want /\ r.left = tasks[a].left
  BY <1>1 DEF Job
<1>3. tasks' = [tasks EXCEPT ![a] = r]
  OBVIOUS
<1> QED
  BY <1>2, <1>3

LEMMA LockStep ==
    ASSUME ControlsInv,
           \/ \E j \in Jobs : Controls!JobLocks(j) \/ Controls!JobLooks(j)
           \/ Controls!EnforceLocks
    PROVE  ControlsInv'
PROOF
<1> USE TogglesAreCounted, ProbersDiffer, NoneIsNoProber
<1>1. ControlTypes /\ preference \in BOOLEAN /\ Turns /\ Carried /\ Controls!LastSettingWins
  BY DEF ControlsInv
<1>2. /\ UNCHANGED <<preference, saves, saving, generation, prober, probe, pinned, applied, touched>>
      /\ bar' \in Bars
  BY <1>1 DEF Controls!JobLocks, Controls!JobLooks, Controls!EnforceLocks, Controls!requests, Controls!game, ControlTypes
<1>3. ASSUME NEW a \in Insisting, tasks[a].pc = "lock", applier = None, applier' = a,
             tasks' = [tasks EXCEPT ![a].pc = "probe"], a \in Jobs => a = generation
      PROVE  ControlsInv'
  <2>1. a \in Probers /\ prober # a /\ a # Widget
    BY <1>1, <1>3 DEF Turns, Looking, Insisting, Probers, Jobs, Controls!Probers, Controls!Jobs
  <2>2. PICK r \in Job : tasks' = [tasks EXCEPT ![a] = r] /\ r.pc = "probe"
    BY <1>1, <1>3, <2>1, PcIs
  <2>3. a \in Jobs => ~(a > generation)
    BY <1>1, <1>3 DEF ControlTypes
  <2> QED
    BY <1>2, <1>3, <2>1, <2>2, <2>3, TaskGoes
<1>4. ASSUME NEW j \in Jobs, Controls!JobLocks(j)
      PROVE  ControlsInv'
  <2>1. CASE j = generation
    BY <1>3, <1>4, <2>1 DEF Controls!JobLocks, Controls!To, Insisting
  <2>2. CASE j # generation
    <3>1. /\ tasks[j].pc = "lock" /\ UNCHANGED applier
          /\ tasks' = [tasks EXCEPT ![j] = [pc |-> "idle", want |-> None, left |-> 0]]
      BY <1>4, <2>2 DEF Controls!JobLocks, Controls!Ends, Controls!Idle
    <3>2. [pc |-> "idle", want |-> None, left |-> 0] \in Job
      BY DEF Job, Wants
    <3>3. j \in Probers /\ prober # j /\ applier' \in {None} \cup Insisting
      BY <1>1, <3>1 DEF ControlTypes, Turns, Looking, Insisting, Probers, Controls!Probers, Controls!Jobs, Jobs
    <3> QED
      BY <1>2, <3>1, <3>2, <3>3, TaskGoes
  <2> QED
    BY <2>1, <2>2
<1>5. ASSUME NEW j \in Jobs, Controls!JobLooks(j)
      PROVE  ControlsInv'
  <2>1. tasks[j].pc \in {"lookAgain", "lookRetry"}
    BY <1>5 DEF Controls!JobLooks
  <2>2. j \in Probers /\ j \in Insisting /\ prober # j /\ applier = j /\ j # Widget
    BY <1>1, <2>1 DEF ControlTypes, Turns, Looking, Insisting, Probers, Controls!Probers, Controls!Jobs, Jobs
  <2>3. CASE j = generation
    <3> DEFINE pc == IF tasks[j].pc = "lookAgain" THEN "again" ELSE "retry"
    <3>1. UNCHANGED applier /\ tasks' = [tasks EXCEPT ![j].pc = pc]
      BY <1>5, <2>3 DEF Controls!JobLooks, Controls!To
    <3>5. pc \in {"again", "retry"} /\ (pc = "retry" => tasks[j].pc = "lookRetry")
      BY <2>1
    <3> HIDE DEF pc
    <3>6. pc \in {"idle", "lock", "probe", "lookAgain", "again", "open", "lookRetry", "retry"}
      BY <3>5
    <3> DEFINE r == [tasks[j] EXCEPT !.pc = pc]
    <3>7. tasks' = [tasks EXCEPT ![j] = r]
      BY <3>1, Zenon
    <3>8. tasks[j] \in Job
      BY <1>1, <2>2 DEF ControlTypes
    <3>2. r \in Job /\ r.pc = pc /\ r.left = tasks[j].left
      BY <3>6, <3>8 DEF Job
    <3> HIDE DEF r
    <3>3. r.pc \in {"open", "lookRetry", "retry"} => r.left # 0
      BY <1>1, <2>1, <2>2, <3>2, <3>5 DEF Turns
    <3>4. ~(j > generation) /\ applier' = j /\ applier' \in {None} \cup Insisting
      BY <1>1, <2>2, <2>3, <3>1 DEF ControlTypes
    <3> QED
      BY <1>2, <2>2, <3>2, <3>3, <3>4, <3>5, <3>7, TaskGoes
  <2>4. CASE j # generation
    <3>1. /\ applier' = None
          /\ tasks' = [tasks EXCEPT ![j] = [pc |-> "idle", want |-> None, left |-> 0]]
      BY <1>5, <2>4 DEF Controls!JobLooks, Controls!Ends, Controls!Idle
    <3>2. [pc |-> "idle", want |-> None, left |-> 0] \in Job
      BY DEF Job, Wants
    <3> QED
      BY <1>2, <2>2, <3>1, <3>2, TaskGoes
  <2> QED
    BY <2>3, <2>4
<1>6. ASSUME Controls!EnforceLocks
      PROVE  ControlsInv'
  BY <1>3, <1>6 DEF Controls!EnforceLocks, Controls!To, Insisting, Jobs
<1> QED
  BY <1>4, <1>5, <1>6

LEMMA AskStep ==
    ASSUME ControlsInv, Controls!ReportOff \/ Controls!TimePasses \/ Controls!WidgetAsks
    PROVE  ControlsInv'
PROOF
<1> USE TogglesAreCounted, ProbersDiffer, NoneIsNoProber
<1>1. ControlTypes /\ preference \in BOOLEAN /\ Turns /\ Carried /\ Controls!LastSettingWins
  BY DEF ControlsInv
<1>2. /\ UNCHANGED <<preference, saves, saving, generation, applier, prober, probe, pinned, applied, touched>>
      /\ bar' = bar /\ bar' \in Bars /\ applier' \in {None} \cup Insisting
  BY <1>1 DEF Controls!ReportOff, Controls!TimePasses, Controls!WidgetAsks, Controls!locks, Controls!game, ControlTypes
<1>3. CASE Controls!ReportOff
  <2> DEFINE r == [pc |-> "lock", want |-> "through", left |-> 0]
  <2>1. tasks[Enforce].pc = "idle" /\ tasks' = [tasks EXCEPT ![Enforce] = r]
    BY <1>3 DEF Controls!ReportOff
  <2>2. r \in Job /\ r.pc = "lock"
    BY DEF Job, Wants
  <2>3. Enforce \in Probers /\ Enforce \notin Jobs /\ prober # Enforce
    BY <1>1, <2>1 DEF Turns, Looking, Insisting, Probers, Jobs, Controls!Probers, Controls!Jobs
  <2> HIDE DEF r
  <2> QED
    BY <1>2, <2>1, <2>2, <2>3, TaskGoes
<1>4. CASE Controls!TimePasses
  <2>1. UNCHANGED tasks
    BY <1>4 DEF Controls!TimePasses
  <2>2. ControlTypes' /\ Turns'
    BY <1>1, <1>2, <2>1 DEF ControlTypes, Turns
  <2>3. preference' \in BOOLEAN /\ Carried' /\ Controls!LastSettingWins'
    BY <1>1, <1>2, Zenon DEF Carried, Controls!LastSettingWins
  <2> QED
    BY <2>2, <2>3 DEF ControlsInv
<1>5. CASE Controls!WidgetAsks
  <2>1. tasks[Widget].pc = "idle" /\ tasks' = [tasks EXCEPT ![Widget].pc = "probe"]
    BY <1>5 DEF Controls!WidgetAsks, Controls!To
  <2>2. Widget \in Probers /\ Widget \notin Jobs /\ prober # Widget
    BY <1>1, <2>1 DEF Turns, Looking, Insisting, Probers, Jobs, Controls!Probers, Controls!Jobs
  <2>3. PICK r \in Job : tasks' = [tasks EXCEPT ![Widget] = r] /\ r.pc = "probe"
    BY <1>1, <2>1, <2>2, PcIs
  <2> QED
    BY <1>2, <2>2, <2>3, TaskGoes
<1> QED
  BY <1>3, <1>4, <1>5

LEMMA BeginStep == ASSUME ControlsInv, NEW a \in Probers, Controls!BeginProbe(a) PROVE ControlsInv'
PROOF
<1> USE TogglesAreCounted, ProbersDiffer, NoneIsNoProber
<1>1. ControlTypes /\ preference \in BOOLEAN /\ Turns /\ Carried /\ Controls!LastSettingWins
  BY DEF ControlsInv
<1>2. /\ tasks[a].pc \in Looking /\ prober' = a
      /\ UNCHANGED <<preference, saves, saving, generation, tasks, applier, bar, pinned, applied, touched>>
  BY DEF Controls!BeginProbe, Controls!requests, Controls!game, Looking
<1>3. probe' = [stage |-> "scan", pin |-> IF a = Enforce THEN None ELSE preference, through |-> TRUE, at |-> saves]
  BY DEF Controls!BeginProbe, Controls!Targets
<1>4. probe'.at = saves /\ probe'.pin = (IF a = Enforce THEN None ELSE preference)
      /\ probe' = [stage |-> probe'.stage, pin |-> probe'.pin, through |-> probe'.through, at |-> probe'.at]
  BY <1>3
<1>5. ControlTypes'
  BY <1>1, <1>2, <1>4 DEF ControlTypes
<1>6. Turns'
  BY <1>1, <1>2 DEF Turns
<1>7. preference' \in BOOLEAN /\ Controls!LastSettingWins'
  BY <1>1, <1>2, Zenon DEF Controls!LastSettingWins
<1>8. Carried'
  BY <1>2, <1>4, Zenon DEF Carried
<1> QED
  BY <1>5, <1>6, <1>7, <1>8 DEF ControlsInv

\* The traversal finds what is selected; what it is to set stays.
LEMMA ScanStep == ASSUME ControlsInv, NEW a \in Probers, Controls!Scans(a) PROVE ControlsInv'
PROOF
<1>1. ControlTypes /\ preference \in BOOLEAN /\ Turns /\ Carried /\ Controls!LastSettingWins
  BY DEF ControlsInv
<1>2. /\ UNCHANGED <<preference, saves, saving, generation, tasks, applier, prober, pinned, applied, touched>>
      /\ probe' = [probe EXCEPT !.stage = Controls!Found]
  BY DEF Controls!Scans, Controls!requests
<1>3. bar' \in Bars
  BY <1>1 DEF Controls!Scans, Controls!Selection, ControlTypes, Bars
<1>4. /\ probe'.pin = probe.pin /\ probe'.at = probe.at
      /\ probe' = [stage |-> probe'.stage, pin |-> probe'.pin, through |-> probe'.through, at |-> probe'.at]
  <2> DEFINE found == Controls!Found
  <2> HIDE DEF found
  <2>1. probe' = [stage |-> found, pin |-> probe.pin, through |-> probe.through, at |-> probe.at]
    BY <1>1, <1>2 DEF ControlTypes, found
  <2> QED
    BY <2>1
<1>5. ControlTypes'
  BY <1>1, <1>2, <1>3, <1>4 DEF ControlTypes
<1>6. Turns'
  BY <1>1, <1>2 DEF Turns
<1>7. preference' \in BOOLEAN /\ Controls!LastSettingWins'
  BY <1>1, <1>2, Zenon DEF Controls!LastSettingWins
<1>8. Carried'
  BY <1>1, <1>2, <1>4, Zenon DEF Carried
<1> QED
  BY <1>5, <1>6, <1>7, <1>8 DEF ControlsInv

\* After its traversal a task looks again, opens Game Bar, tries on or is done.
LEMMA Continued ==
    ASSUME ControlTypes, Turns, NEW a \in Probers, tasks[a].pc \in Looking,
           NEW pinOn, NEW throughOn, Controls!Continues(a, pinOn, throughOn)
    PROVE  \E r \in Job :
              /\ tasks' = [tasks EXCEPT ![a] = r]
              /\ a # Widget /\ r.pc \notin {"idle", "lock"} => applier' = a
              /\ r.pc \in {"open", "lookRetry", "retry"} => r.left # 0 /\ a # Widget
              /\ applier' \in {None} \cup Insisting
              /\ applier' # applier => applier = a
PROOF
<1> USE TogglesAreCounted, ProbersDiffer, NoneIsNoProber
<1> DEFINE t == tasks[a]
<1>1. t \in Job /\ applier \in {None} \cup Insisting
  BY DEF ControlTypes
<1>2. a # Widget => applier = a
  BY DEF Turns, Looking, Insisting, Probers
<1>3. CASE tasks' = [tasks EXCEPT ![a].pc = "lookAgain"] /\ UNCHANGED applier /\ a \in Jobs
  <2>1. PICK r \in Job : tasks' = [tasks EXCEPT ![a] = r] /\ r.pc = "lookAgain"
    BY <1>3, PcIs
  <2> QED
    BY <1>1, <1>2, <1>3, <2>1
<1>4. CASE /\ tasks' = [tasks EXCEPT ![a] = [pc |-> "idle", want |-> None, left |-> 0]]
           /\ applier' = IF applier = a THEN None ELSE applier
  <2>1. [pc |-> "idle", want |-> None, left |-> 0] \in Job
    BY DEF Job, Wants
  <2> QED
    BY <1>1, <1>4, <2>1
<1>5. CASE /\ ~Controls!Done(a, pinOn, throughOn) /\ UNCHANGED applier
           /\ tasks' = [tasks EXCEPT
                  ![a].pc = IF ~(tasks[a].pc = "retry") THEN "open" ELSE IF a = Enforce THEN "retry" ELSE "lookRetry",
                  ![a].left = IF tasks[a].pc = "retry" THEN @ - 1 ELSE Retries]
  <2> DEFINE pc == IF ~(tasks[a].pc = "retry") THEN "open" ELSE IF a = Enforce THEN "retry" ELSE "lookRetry"
             tries == IF t.pc = "retry" THEN t.left - 1 ELSE Retries
             r == [pc |-> pc, want |-> t.want, left |-> tries]
  <2>1. a # Widget /\ ~(t.pc = "retry" /\ t.left = 1)
    BY <1>5 DEF Controls!Done
  <2>2. t.left \in 0..Retries /\ (t.pc = "retry" => t.left # 0)
    BY <1>1 DEF Job, Turns
  <2>3. tries \in 1..Retries
    BY <2>1, <2>2
  <2>4. pc \in {"open", "retry", "lookRetry"}
    OBVIOUS
  <2>5. tasks' = [tasks EXCEPT ![a] = r]
    <3> HIDE DEF pc
    <3> DEFINE f == [tasks[a] EXCEPT !.pc = pc, !.left = tries]
    <3>1. tasks' = [tasks EXCEPT ![a] = f]
      BY <1>5, Zenon DEF pc
    <3>2. f = r
      <4> DEFINE q == [tasks[a] EXCEPT !.pc = pc]
      <4> HIDE DEF tries
      <4>1. t = [pc |-> t.pc, want |-> t.want, left |-> t.left]
        BY <1>1 DEF Job
      <4> HIDE DEF t
      <4>2. q = [pc |-> pc, want |-> t.want, left |-> t.left]
        BY <4>1 DEF t
      <4>3. f = [q EXCEPT !.left = tries]
        OBVIOUS
      <4> HIDE DEF q, f
      <4> QED
        BY <4>2, <4>3
    <3> QED
      BY <3>1, <3>2, Zenon
  <2>6. r \in Job
    BY <1>1, <2>3, <2>4 DEF Job
  <2> HIDE DEF pc, tries
  <2>7. r.pc = pc /\ r.left # 0
    BY <2>3
  <2> QED
    BY <1>1, <1>2, <1>5, <2>1, <2>4, <2>5, <2>6, <2>7
<1> QED
  BY <1>3, <1>4, <1>5 DEF Controls!Continues, Controls!To, Controls!Ends, Controls!Idle, Controls!Jobs, Jobs

LEMMA ActStep == ASSUME ControlsInv, NEW a \in Probers, Controls!Acts(a) PROVE ControlsInv'
PROOF
<1> USE TogglesAreCounted, ProbersDiffer, NoneIsNoProber
<1>1. ControlTypes /\ preference \in BOOLEAN /\ Turns /\ Carried /\ Controls!LastSettingWins
  BY DEF ControlsInv
<1>2. /\ prober = a /\ prober' = None /\ probe' = [stage |-> "none", pin |-> None, through |-> FALSE, at |-> 0]
      /\ UNCHANGED <<preference, saves, saving, generation, bar, touched>>
  BY DEF Controls!Acts, Controls!NoProbe, Controls!requests
<1>3. a # None /\ tasks[a].pc \in Looking
  BY <1>1, <1>2 DEF Turns, Probers, Insisting, Jobs, Controls!Probers, Controls!Jobs
<1>4. \E p, q : Controls!Continues(a, p, q)
  BY DEF Controls!Acts
<1>5. PICK r \in Job :
         /\ tasks' = [tasks EXCEPT ![a] = r]
         /\ a # Widget /\ r.pc \notin {"idle", "lock"} => applier' = a
         /\ r.pc \in {"open", "lookRetry", "retry"} => r.left # 0 /\ a # Widget
         /\ applier' \in {None} \cup Insisting
         /\ applier' # applier => applier = a
  BY <1>1, <1>3, <1>4, Continued
<1>6. ~(a \in Jobs /\ a > generation)
  BY <1>1, <1>3 DEF Turns, Looking
<1>7. ControlTypes'
  BY <1>1, <1>2, <1>5 DEF ControlTypes
<1>8. Turns'
  <2>1. tasks'[a] = r /\ \A b \in Probers : b # a => tasks'[b] = tasks[b]
    BY <1>1, <1>5 DEF ControlTypes
  <2>2. generation' <= saves' /\ (saving' # None => generation' < saves')
    BY <1>1, <1>2 DEF Turns
  <2>3. \A j \in Jobs : j > generation' => tasks'[j].pc = "idle"
    BY <1>1, <1>2, <1>6, <2>1 DEF Turns, Probers, Insisting
  <2>4. \A b \in Insisting : tasks'[b].pc \notin {"idle", "lock"} => applier' = b
    <3> SUFFICES ASSUME NEW b \in Insisting, tasks'[b].pc \notin {"idle", "lock"}
                 PROVE  applier' = b
      OBVIOUS
    <3>1. b \in Probers /\ b # Widget /\ b # None
      BY DEF Insisting, Probers, Jobs, Controls!Probers, Controls!Jobs
    <3> QED
      BY <1>1, <1>5, <2>1, <3>1 DEF Turns
  <2>5. \A b \in Probers : tasks'[b].pc \in {"open", "lookRetry", "retry"} => tasks'[b].left # 0 /\ b # Widget
    BY <1>1, <1>5, <2>1 DEF Turns
  <2> QED
    BY <1>2, <2>2, <2>3, <2>4, <2>5 DEF Turns
<1>9. Carried'
  BY <1>2, Zenon DEF Carried
<1>10. preference' \in BOOLEAN
  BY <1>1, <1>2, Zenon
<1>11. Controls!LastSettingWins'
  <2>1. CASE UNCHANGED <<pinned, applied>>
    BY <1>1, <1>2, <2>1, Zenon DEF Controls!LastSettingWins
  <2>2. CASE /\ pinned' = (IF probe.pin = None THEN pinned ELSE probe.pin)
             /\ applied' = (applied \/ (probe.pin # None /\ probe.at = saves))
    <3>1. CASE probe.pin = None
      BY <1>1, <1>2, <2>2, <3>1, Zenon DEF Controls!LastSettingWins
    <3>2. CASE probe.pin # None
      <4>1. applied' => applied \/ probe.at = saves
        BY <2>2, Zenon
      <4>2. applied' => probe.pin = preference
        BY <1>1, <1>2, <1>3, <3>2, <4>1, Zenon DEF Carried
      <4> QED
        BY <1>2, <2>2, <3>2, <4>2, Zenon DEF Controls!LastSettingWins
    <3> QED
      BY <3>1, <3>2
  <2>3. \/ UNCHANGED <<pinned, applied>>
        \/ /\ pinned' = (IF probe.pin = None THEN pinned ELSE probe.pin)
           /\ applied' = (applied \/ (probe.pin # None /\ probe.at = saves))
    BY Zenon DEF Controls!Acts, Controls!Toggled
  <2> QED
    BY <2>1, <2>2, <2>3
<1> QED
  BY <1>7, <1>8, <1>9, <1>10, <1>11 DEF ControlsInv

LEMMA OpenStep == ASSUME ControlsInv, NEW a \in Probers, Controls!Opens(a) PROVE ControlsInv'
PROOF
<1> USE TogglesAreCounted, ProbersDiffer, NoneIsNoProber
<1>1. ControlTypes /\ preference \in BOOLEAN /\ Turns /\ Carried /\ Controls!LastSettingWins
  BY DEF ControlsInv
<1> DEFINE pc == IF a = Enforce THEN "retry" ELSE "lookRetry"
<1>2. /\ tasks[a].pc = "open" /\ tasks' = [tasks EXCEPT ![a].pc = pc]
      /\ UNCHANGED <<preference, saves, saving, generation, applier, prober, probe, pinned, applied, touched>>
  BY DEF Controls!Opens, Controls!To, Controls!requests, Controls!locks
<1>3. bar' \in Bars
  BY <1>1 DEF Controls!Opens, ControlTypes, Bars
<1>4. pc \in {"retry", "lookRetry"}
  OBVIOUS
<1> HIDE DEF pc
<1>8. pc \in {"idle", "lock", "probe", "lookAgain", "again", "open", "lookRetry", "retry"}
  BY <1>4
<1> DEFINE r == [tasks[a] EXCEPT !.pc = pc]
<1>9. tasks' = [tasks EXCEPT ![a] = r]
  BY <1>2, Zenon
<1>10. tasks[a] \in Job
  BY <1>1 DEF ControlTypes
<1>5. r \in Job /\ r.pc = pc /\ r.left = tasks[a].left
  BY <1>8, <1>10 DEF Job
<1> HIDE DEF r
<1>6. r.left # 0 /\ a # Widget /\ applier = a
  BY <1>1, <1>2, <1>5 DEF Turns, Probers, Insisting
<1>7. prober # a /\ ~(a \in Jobs /\ a > generation) /\ applier' = a /\ applier' \in {None} \cup Insisting
  BY <1>1, <1>2, <1>6 DEF ControlTypes, Turns, Looking, Probers, Insisting, Controls!Probers, Controls!Jobs, Jobs
<1> QED
  BY <1>2, <1>3, <1>4, <1>5, <1>6, <1>7, <1>9, TaskGoes

LEMMA ControlsNextStep == ASSUME ControlsInv, Controls!Next PROVE ControlsInv'
PROOF
<1>1. Controls!Jobs = Jobs /\ Controls!Probers = Probers
  BY DEF Controls!Jobs, Controls!Probers, Jobs, Probers, Insisting
<1> QED
  BY <1>1, GameStep, SaveStep, RequestStep, LockStep, AskStep, BeginStep, ScanStep, ActStep, OpenStep DEF Controls!Next

LEMMA ControlsSafety == ASSUME ControlsInv PROVE Controls!TypeOK /\ Controls!LastSettingWins
PROOF
<1>1. ControlTypes /\ preference \in BOOLEAN /\ Turns /\ Carried /\ Controls!LastSettingWins
  BY DEF ControlsInv
<1>2. Controls!Jobs = Jobs /\ Controls!Probers = Probers
  BY DEF Controls!Jobs, Controls!Probers, Jobs, Probers, Insisting
<1>3. /\ generation \in 0..MaxToggles /\ tasks \in [Probers -> Job] /\ applier \in {None, Enforce} \cup Jobs
      /\ prober \in {None} \cup Probers /\ bar \in Bars
  BY <1>1 DEF ControlTypes, Insisting
<1>4. \A a \in Probers \ {Widget} : tasks[a].pc \notin {"idle", "lock"} => applier = a
  BY <1>1 DEF Turns, Probers
<1> QED
  BY <1>1, <1>2, <1>3, <1>4, Zenon DEF Controls!TypeOK, Job, Wants, Bars

-------------------------------------------------------------------------------
(* The updates of the overlay                                                 *)

Builds == Releases \cup {0}
Ops == [kind : {"none", "background", "force", "install"},
        pc : {"free", "fetch", "decide", "stage", "unpack", "run", "await"}, target : Builds]
Stages == {"check", "install", "verify"}
Script == [rel : Releases, from : {"force", "install"}, pc : Stages]
Told == op.pc \notin {"free", "fetch"}

OverlayTypes ==
    /\ published \in Releases /\ appx \in Builds /\ deferred \in Builds /\ zip \in Builds
    /\ cache = [rel |-> cache.rel, fresh |-> cache.fresh] /\ cache.rel \in Builds
    /\ op \in Ops /\ scripts \subseteq Script
    /\ stateFile.rel \in Builds
    /\ exits \in Nat /\ fails \in Nat
    /\ op.pc \in {"decide", "stage"} => op.kind # "install"
    /\ op.pc = "unpack" => op.kind = "install"
    /\ op.pc # "free" => op.kind # "none"
    /\ op.pc \in {"run", "await"} => op.kind # "background"
    /\ Told => op.target \in Releases

OverlayFlags ==
    /\ widget \in BOOLEAN /\ updater \in BOOLEAN /\ sneaked \in BOOLEAN /\ down \in BOOLEAN
    /\ left \in BOOLEAN /\ outdated \in BOOLEAN
    /\ cache.fresh => cache.rel # 0

\* What is to be applied was asked for.
Asked ==
    /\ Told /\ op.kind # "background" => op.target \in wanted
    /\ \A s \in scripts : s.rel \in wanted
    /\ deferred # 0 => deferred \in wanted

\* No agent has left a script behind, and none has forgotten a release that is, or is
\* to be, registered.
Attended == ~ left
Upward == ~ left /\ ~ outdated

\* The lock of the agent is held as long as the script it started runs.
Alone ==
    Attended => scripts = {} \/ (op.pc = "await" /\ \E pc \in Stages :
                                    scripts = {[rel |-> op.target, from |-> op.kind, pc |-> pc]})

\* An update is of the latest release the agent was told of.
Latest == Told => op.target = cache.rel

\* The agent or state.json knows what is registered, and what is deferred is no older;
\* what is about to be registered is at least what state.json tells.
Ahead ==
    Upward =>
        /\ appx <= cache.rel \/ appx <= stateFile.rel
        /\ deferred <= cache.rel \/ deferred <= stateFile.rel
        /\ deferred # 0 => appx <= deferred
        /\ op.pc \in {"stage", "unpack", "run", "await"} => stateFile.rel <= op.target

\* An installed package is registered, or Windows will register it.
Registered ==
    Attended => \A s \in scripts : s.pc = "verify" =>
        \/ appx = s.rel /\ deferred = 0
        \/ appx # s.rel /\ deferred = s.rel

\* What state.json calls installed is, and nothing else is to come, until a script
\* changes it.
Truthful ==
    Attended /\ fails = 0 /\ (\A s \in scripts : s.pc # "verify")
        /\ stateFile.rel # 0 /\ ~ stateFile.pending => appx = stateFile.rel /\ deferred = 0

OverlayInv ==
    /\ OverlayTypes /\ OverlayFlags /\ Asked /\ Alone /\ Latest /\ Ahead /\ Registered /\ Truthful
    /\ Overlay!OnlyAsked /\ Overlay!NeverDown

LEMMA ReleasesAreNumbers == Releases \subseteq Nat \ {0} /\ 1 \in Releases
PROOF BY ReleasesAreCounted

LEMMA NextIsARelease ==
    ASSUME NEW r \in Releases, r < Overlay!MaxRelease
    PROVE  r + 1 \in Releases
PROOF BY ReleasesAreCounted

LEMMA OverlayInit == Overlay!Init => OverlayInv
PROOF
<1> SUFFICES ASSUME Overlay!Init
             PROVE  OverlayInv
  OBVIOUS
<1> USE ReleasesAreNumbers
<1>1. /\ published = 1 /\ appx = 0 /\ deferred = 0 /\ zip = 0 /\ exits = 0 /\ fails = 0
      /\ stateFile = [rel |-> 0, pending |-> FALSE] /\ cache = [rel |-> 0, fresh |-> FALSE]
      /\ op = [kind |-> "none", pc |-> "free", target |-> 0] /\ scripts = {}
  BY DEF Overlay!Init, Overlay!Free, Overlay!NoState
<1>2. OverlayTypes
  BY <1>1 DEF OverlayTypes, Builds, Ops, Told
<1>3. OverlayFlags /\ Overlay!OnlyAsked /\ Overlay!NeverDown
  <2>1. ~ cache.fresh
    BY <1>1, Zenon
  <2>2. /\ widget = FALSE /\ updater = FALSE /\ sneaked = FALSE /\ down = FALSE
        /\ left = FALSE /\ outdated = FALSE
    BY Zenon DEF Overlay!Init
  <2> QED
    BY <2>1, <2>2, Zenon DEF OverlayFlags, Overlay!OnlyAsked, Overlay!NeverDown
<1>4. Asked /\ Alone /\ Latest /\ Ahead /\ Registered /\ Truthful
  BY <1>1 DEF Asked, Alone, Latest, Ahead, Registered, Truthful, Told
<1> QED
  BY <1>2, <1>3, <1>4 DEF OverlayInv

LEMMA OverlayWorldStep ==
    ASSUME OverlayInv,
           \/ Overlay!Publish \/ Overlay!WidgetOpens \/ Overlay!WidgetCloses \/ Overlay!CacheAges
    PROVE  OverlayInv'
PROOF
<1> USE ReleasesAreNumbers
<1>1. /\ OverlayTypes /\ OverlayFlags /\ Asked /\ Alone /\ Latest /\ Ahead /\ Registered /\ Truthful
      /\ Overlay!OnlyAsked /\ Overlay!NeverDown
  BY DEF OverlayInv
<1>2. /\ UNCHANGED <<appx, deferred, sneaked, down, stateFile, zip, updater, op, scripts, exits, fails, wanted>>
      /\ UNCHANGED <<left, outdated>>
  BY DEF Overlay!Publish, Overlay!WidgetOpens, Overlay!WidgetCloses, Overlay!CacheAges,
         Overlay!package, Overlay!files, Overlay!world, Overlay!history
<1>3. published' \in Releases
  BY <1>1, NextIsARelease DEF Overlay!Publish, Overlay!WidgetOpens, Overlay!WidgetCloses, Overlay!CacheAges,
         Overlay!world, OverlayTypes
<1>4. widget' \in BOOLEAN
  BY <1>1, Zenon DEF Overlay!Publish, Overlay!WidgetOpens, Overlay!WidgetCloses, Overlay!CacheAges,
         Overlay!world, OverlayFlags
<1>5. cache'.rel = cache.rel /\ cache' = [rel |-> cache'.rel, fresh |-> cache'.fresh] /\ (cache'.fresh => cache.fresh)
  <2>1. CASE cache' = cache
    <3>1. cache'.rel = cache.rel /\ cache' = [rel |-> cache'.rel, fresh |-> cache'.fresh]
      BY <1>1, <2>1 DEF OverlayTypes
    <3>2. cache'.fresh => cache.fresh
      BY <2>1, Zenon
    <3> QED
      BY <3>1, <3>2
  <2>2. CASE cache' = [cache EXCEPT !.fresh = FALSE]
    <3>1. cache' = [rel |-> cache.rel, fresh |-> FALSE]
      BY <1>1, <2>2 DEF OverlayTypes
    <3>2. cache'.rel = cache.rel /\ cache' = [rel |-> cache'.rel, fresh |-> cache'.fresh]
      BY <3>1
    <3>3. ~ cache'.fresh
      BY <3>1, Zenon
    <3> QED
      BY <3>2, <3>3
  <2> QED
    BY <2>1, <2>2 DEF Overlay!Publish, Overlay!WidgetOpens, Overlay!WidgetCloses, Overlay!CacheAges
<1>6. Attended' = Attended /\ Upward' = Upward
  BY <1>2, Zenon DEF Attended, Upward
<1>7. OverlayTypes'
  BY <1>1, <1>2, <1>3, <1>5 DEF OverlayTypes, Told
<1>8. OverlayFlags' /\ Overlay!OnlyAsked' /\ Overlay!NeverDown'
  <2>1. cache'.fresh => cache'.rel # 0
    BY <1>1, <1>5, Zenon DEF OverlayFlags
  <2> QED
    BY <1>1, <1>2, <1>4, <2>1, Zenon DEF OverlayFlags, Overlay!OnlyAsked, Overlay!NeverDown
<1>9. Asked' /\ Alone' /\ Latest' /\ Ahead' /\ Registered'
  BY <1>1, <1>2, <1>5, <1>6 DEF Asked, Alone, Latest, Ahead, Registered, Told
<1>10. Truthful'
  BY <1>1, <1>2, <1>6, Zenon DEF Truthful
<1> QED
  BY <1>7, <1>8, <1>9, <1>10 DEF OverlayInv

LEMMA AgentExitsStep == ASSUME OverlayInv, Overlay!AgentExits PROVE OverlayInv'
PROOF
<1> USE ReleasesAreNumbers
<1>1. /\ OverlayTypes /\ OverlayFlags /\ Asked /\ Ahead /\ Truthful
      /\ Overlay!OnlyAsked /\ Overlay!NeverDown
  BY DEF OverlayInv
<1>2. /\ UNCHANGED <<published, widget, appx, deferred, sneaked, down, stateFile, zip, updater, scripts, fails, wanted>>
      /\ exits' = exits + 1 /\ cache' = [rel |-> 0, fresh |-> FALSE]
      /\ op' = [kind |-> "none", pc |-> "free", target |-> 0]
  BY DEF Overlay!AgentExits, Overlay!Free, Overlay!package, Overlay!files
<1>3. /\ left' = (left \/ scripts # {})
      /\ outdated' = (outdated \/ stateFile.rel < appx \/ stateFile.rel < deferred)
  BY Zenon DEF Overlay!AgentExits
<1>4. /\ Attended' => Attended /\ scripts = {}
      /\ Upward' => Upward /\ ~ (stateFile.rel < appx) /\ ~ (stateFile.rel < deferred)
  BY <1>3, Zenon DEF Attended, Upward
<1>5. OverlayTypes'
  BY <1>1, <1>2 DEF OverlayTypes, Ops, Builds, Told
<1>6. OverlayFlags' /\ Overlay!OnlyAsked' /\ Overlay!NeverDown'
  <2>1. ~ cache'.fresh
    BY <1>2, Zenon
  <2>2. left' \in BOOLEAN /\ outdated' \in BOOLEAN
    BY <1>3, Zenon
  <2>3. Overlay!NeverDown'
    BY <1>1, <1>2, <1>3, Zenon DEF Overlay!NeverDown
  <2> QED
    BY <1>1, <1>2, <2>1, <2>2, <2>3, Zenon DEF OverlayFlags, Overlay!OnlyAsked
<1>7. Asked' /\ Alone' /\ Latest' /\ Registered'
  BY <1>1, <1>2, <1>4 DEF Asked, Alone, Latest, Registered, Told
<1>8. Ahead'
  BY <1>1, <1>2, <1>4 DEF Ahead, OverlayTypes, Builds
<1>9. Truthful'
  BY <1>1, <1>2, <1>4, Zenon DEF Truthful
<1> QED
  BY <1>5, <1>6, <1>7, <1>8, <1>9 DEF OverlayInv

\* A package that was asked for is registered.
LEMMA Registration ==
    ASSUME OverlayInv, NEW v \in Releases, NEW from, Overlay!Registers(v, from), v \in wanted,
           Upward /\ from # "install" => appx <= v, UNCHANGED <<wanted, left, outdated>>
    PROVE  appx' = v /\ sneaked' \in BOOLEAN /\ down' \in BOOLEAN /\ Overlay!OnlyAsked' /\ Overlay!NeverDown'
PROOF
<1>1. OverlayTypes /\ OverlayFlags /\ Overlay!OnlyAsked /\ Overlay!NeverDown
  BY DEF OverlayInv
<1>2. appx' = v
  BY DEF Overlay!Registers
<1>3. Upward => ~ (v < appx /\ from # "install")
  BY <1>1, ReleasesAreNumbers DEF OverlayTypes, Builds
<1>4. sneaked' = (sneaked \/ v \notin wanted) /\ down' = (down \/ (v < appx /\ from # "install"))
  BY Zenon DEF Overlay!Registers
<1>5. sneaked' \in BOOLEAN /\ down' \in BOOLEAN
  BY <1>4, Zenon
<1> QED
  BY <1>1, <1>2, <1>3, <1>4, <1>5, Zenon DEF Overlay!OnlyAsked, Overlay!NeverDown, Upward

LEMMA DeferredStep == ASSUME OverlayInv, Overlay!DeferredRegisters PROVE OverlayInv'
PROOF
<1> USE ReleasesAreNumbers
<1>1. /\ OverlayTypes /\ OverlayFlags /\ Asked /\ Alone /\ Latest /\ Ahead /\ Registered /\ Truthful
      /\ Overlay!OnlyAsked /\ Overlay!NeverDown
  BY DEF OverlayInv
<1>2. /\ deferred # 0 /\ Overlay!Registers(deferred, "windows") /\ deferred' = 0
      /\ UNCHANGED <<published, widget, exits, stateFile, zip, updater, cache, op, scripts, fails, wanted>>
      /\ UNCHANGED <<left, outdated>>
  BY DEF Overlay!DeferredRegisters, Overlay!world, Overlay!files, Overlay!history
<1>3. deferred \in Releases /\ deferred \in wanted /\ (Upward => appx <= deferred)
  BY <1>1, <1>2 DEF OverlayTypes, Builds, Asked, Ahead
<1>4. appx' = deferred /\ sneaked' \in BOOLEAN /\ down' \in BOOLEAN /\ Overlay!OnlyAsked' /\ Overlay!NeverDown'
  BY <1>2, <1>3, Registration
<1>5. Attended' = Attended /\ Upward' = Upward
  BY <1>2, Zenon DEF Attended, Upward
<1>6. OverlayTypes'
  BY <1>1, <1>2, <1>3, <1>4 DEF OverlayTypes, Builds, Told
<1>7. OverlayFlags'
  BY <1>1, <1>2, <1>4, Zenon DEF OverlayFlags
<1>8. Asked' /\ Alone' /\ Latest' /\ Registered'
  BY <1>1, <1>2, <1>4, <1>5 DEF Asked, Alone, Latest, Registered, Told
<1>9. Ahead'
  BY <1>1, <1>2, <1>4, <1>5 DEF Ahead, OverlayTypes, Builds
<1>10. Truthful'
  BY <1>1, <1>2, <1>5, Zenon DEF Truthful
<1> QED
  BY <1>4, <1>6, <1>7, <1>8, <1>9, <1>10 DEF OverlayInv

\* What leaves the package, the scripts and state.json alone keeps what was said of
\* them as long as what the agent holds is right.
LEMMA OnlyTheAgent ==
    ASSUME OverlayInv, OverlayTypes', OverlayFlags',
           UNCHANGED <<appx, deferred, sneaked, down, scripts, stateFile, left>>,
           Upward' => Upward,
           fails' = 0 => fails = 0,
           wanted \subseteq wanted', Told' /\ op'.kind # "background" => op'.target \in wanted',
           cache.rel <= cache'.rel, Latest', Attended => scripts = {},
           Upward' /\ op'.pc \in {"stage", "unpack", "run", "await"} => stateFile.rel <= op'.target
    PROVE  OverlayInv'
PROOF
<1> USE ReleasesAreNumbers
<1>1. /\ OverlayTypes /\ OverlayFlags /\ Asked /\ Ahead /\ Registered /\ Truthful
      /\ Overlay!OnlyAsked /\ Overlay!NeverDown
  BY DEF OverlayInv
<1>2. Attended' = Attended
  BY Zenon DEF Attended
<1>3. Asked'
  BY <1>1 DEF Asked
<1>4. Alone' /\ Registered'
  BY <1>2 DEF Alone, Registered
<1>5. Ahead'
  BY <1>1 DEF Ahead, OverlayTypes, Builds
<1>6. Truthful'
  BY <1>1, <1>2, Zenon DEF Truthful
<1>7. Overlay!OnlyAsked' /\ Overlay!NeverDown'
  BY <1>1, Zenon DEF Overlay!OnlyAsked, Overlay!NeverDown, Upward
<1> QED
  BY <1>3, <1>4, <1>5, <1>6, <1>7 DEF OverlayInv

LEMMA StartStep ==
    ASSUME OverlayInv,
           \/ Overlay!CheckInBackground \/ Overlay!CheckWithWinG \/ Overlay!InstallLatest
           \/ Overlay!FetchFails
    PROVE  OverlayInv'
PROOF
<1> USE ReleasesAreNumbers
<1>1. OverlayTypes /\ OverlayFlags /\ Asked /\ Alone
  BY DEF OverlayInv
<1>2. /\ UNCHANGED <<published, widget, exits, appx, deferred, sneaked, down, stateFile, zip, updater, cache,
                     scripts, wanted, left, outdated>>
      /\ fails' \in {fails, fails + 1}
  BY DEF Overlay!CheckInBackground, Overlay!CheckWithWinG, Overlay!InstallLatest, Overlay!FetchFails,
         Overlay!Fails, Overlay!world, Overlay!package, Overlay!files, Overlay!history
<1>3. op.pc # "await"
  BY DEF Overlay!CheckInBackground, Overlay!CheckWithWinG, Overlay!InstallLatest, Overlay!FetchFails,
         Overlay!Start, Overlay!Free
<1>4. /\ op' \in Ops /\ op'.pc \in {"free", "fetch"} /\ (op'.pc # "free" => op'.kind # "none")
  BY DEF Overlay!CheckInBackground, Overlay!CheckWithWinG, Overlay!InstallLatest, Overlay!FetchFails,
         Overlay!Start, Overlay!Return, Overlay!Free, Ops, Builds
<1>5. OverlayTypes'
  BY <1>1, <1>2, <1>4 DEF OverlayTypes, Told
<1>6. OverlayFlags'
  BY <1>1, <1>2, Zenon DEF OverlayFlags
<1>7. fails' = 0 => fails = 0
  BY <1>1, <1>2 DEF OverlayTypes
<1>8. ~ Told' /\ (Attended => scripts = {}) /\ cache.rel <= cache'.rel
  BY <1>1, <1>2, <1>3, <1>4 DEF Told, Alone, OverlayTypes, Builds
<1>9. Upward' => Upward
  BY <1>2, Zenon DEF Upward
<1>10. Latest' /\ op'.pc \notin {"stage", "unpack", "run", "await"}
  BY <1>4, <1>8 DEF Latest
<1> QED
  BY <1>2, <1>5, <1>6, <1>7, <1>8, <1>9, <1>10, OnlyTheAgent

LEMMA ResetStep == ASSUME OverlayInv, Overlay!Reset PROVE OverlayInv'
PROOF
<1> USE ReleasesAreNumbers
<1>1. /\ OverlayTypes /\ OverlayFlags /\ Asked /\ Alone /\ Latest
      /\ Overlay!OnlyAsked /\ Overlay!NeverDown
  BY DEF OverlayInv
<1>2. /\ appx' = 0 /\ deferred' = 0 /\ zip' = 0 /\ stateFile' = [rel |-> 0, pending |-> FALSE] /\ op.pc = "free"
      /\ UNCHANGED <<published, exits, cache, op, scripts, fails, wanted, sneaked, down, left, outdated>>
  BY DEF Overlay!Reset, Overlay!NoState, Overlay!Free, Overlay!history
<1>3. OverlayTypes'
  BY <1>1, <1>2 DEF OverlayTypes, Builds, Told
<1>4. OverlayFlags' /\ Overlay!OnlyAsked' /\ Overlay!NeverDown'
  <2>1. updater' = FALSE /\ widget' = FALSE
    BY Zenon DEF Overlay!Reset
  <2> QED
    BY <1>1, <1>2, <2>1, Zenon DEF OverlayFlags, Overlay!OnlyAsked, Overlay!NeverDown
<1>5. Attended' = Attended
  BY <1>2, Zenon DEF Attended
<1>6. Asked' /\ Alone' /\ Latest' /\ Registered' /\ Truthful'
  BY <1>1, <1>2, <1>5 DEF Asked, Alone, Latest, Registered, Truthful, Told, OverlayTypes, Builds
<1>7. Ahead'
  BY <1>1, <1>2 DEF Ahead, OverlayTypes, Builds
<1> QED
  BY <1>3, <1>4, <1>6, <1>7 DEF OverlayInv

\* The target is a release that was served, now or before.
LEMMA FetchStep ==
    ASSUME OverlayInv, Overlay!FetchCached \/ \E r \in Releases : Overlay!Fetch(r)
    PROVE  OverlayInv'
PROOF
<1> USE ReleasesAreNumbers
<1>1. OverlayTypes /\ OverlayFlags /\ Asked /\ Alone
  BY DEF OverlayInv
<1>2. /\ UNCHANGED <<published, widget, exits, appx, deferred, sneaked, down, stateFile, zip, updater, scripts, fails>>
      /\ UNCHANGED left /\ op.pc = "fetch"
  BY DEF Overlay!FetchCached, Overlay!Fetch, Overlay!world, Overlay!package, Overlay!files
<1>3. ASSUME NEW r \in Releases, Overlay!Fetched(r), cache'.rel = r, cache.rel <= r,
             cache' = [rel |-> cache'.rel, fresh |-> cache'.fresh]
      PROVE  OverlayInv'
  <2>1. /\ wanted' = (IF op.kind = "background" THEN wanted ELSE wanted \cup {r})
        /\ op' = [op EXCEPT !.pc = IF op.kind = "install" THEN "unpack" ELSE "decide", !.target = r]
    BY <1>3 DEF Overlay!Fetched
  <2>2. /\ op' \in Ops /\ op'.kind = op.kind /\ op'.target = r
        /\ op'.pc = (IF op.kind = "install" THEN "unpack" ELSE "decide")
    BY <1>1, <2>1 DEF OverlayTypes, Ops, Builds
  <2>3. OverlayTypes'
    BY <1>1, <1>2, <1>3, <2>2 DEF OverlayTypes, Told, Builds
  <2>4. cache'.rel # 0
    BY <1>3
  <2>5. outdated' = (outdated \/ (op.kind = "install" /\ r < stateFile.rel))
    BY <1>3, Zenon DEF Overlay!Fetched
  <2>6. OverlayFlags'
    <3>1. outdated' \in BOOLEAN
      BY <2>5, Zenon
    <3> QED
      BY <1>1, <1>2, <2>4, <3>1, Zenon DEF OverlayFlags
  <2>7. wanted \subseteq wanted' /\ (op'.kind # "background" => op'.target \in wanted')
    BY <2>1, <2>2
  <2>8. Attended => scripts = {}
    BY <1>1, <1>2 DEF Alone
  <2>9. (Upward' => Upward) /\ (Upward' => ~ (op.kind = "install" /\ r < stateFile.rel))
    BY <1>2, <2>5, Zenon DEF Upward
  <2>10. op'.pc \in {"stage", "unpack", "run", "await"} => op.kind = "install"
    BY <2>2
  <2>11. Upward' /\ op'.pc \in {"stage", "unpack", "run", "await"} => stateFile.rel <= op'.target
    BY <1>1, <2>2, <2>9, <2>10 DEF OverlayTypes, Builds
  <2>12. Latest'
    BY <1>3, <2>2 DEF Latest
  <2> QED
    BY <1>2, <1>3, <2>3, <2>6, <2>7, <2>8, <2>9, <2>11, <2>12, OnlyTheAgent
<1>4. CASE Overlay!FetchCached
  <2>1. cache.fresh
    BY <1>4, Zenon DEF Overlay!FetchCached
  <2>2. cache.rel # 0
    BY <1>1, <2>1, Zenon DEF OverlayFlags
  <2>3. Overlay!Fetched(cache.rel) /\ cache' = cache
    BY <1>4 DEF Overlay!FetchCached
  <2>4. cache.rel \in Releases
    BY <1>1, <2>2 DEF OverlayTypes, Builds
  <2>5. cache'.rel = cache.rel /\ cache.rel <= cache.rel /\ cache' = [rel |-> cache'.rel, fresh |-> cache'.fresh]
    BY <1>1, <2>3, <2>4 DEF OverlayTypes
  <2> QED
    BY <1>3, <2>3, <2>4, <2>5
<1>5. ASSUME NEW r \in Releases, Overlay!Fetch(r)
      PROVE  OverlayInv'
  <2>1. /\ Overlay!Fetched(Overlay!Newer(r))
        /\ cache' = IF cache.rel > r THEN cache ELSE [rel |-> r, fresh |-> TRUE]
    BY <1>5 DEF Overlay!Fetch
  <2>2. CASE cache.rel > r
    <3>1. Overlay!Newer(r) = cache.rel /\ cache' = cache
      BY <2>1, <2>2 DEF Overlay!Newer
    <3>2. cache.rel \in Releases
      BY <1>1, <2>2 DEF OverlayTypes, Builds
    <3>3. cache'.rel = cache.rel /\ cache.rel <= cache.rel /\ cache' = [rel |-> cache'.rel, fresh |-> cache'.fresh]
      BY <1>1, <3>1, <3>2 DEF OverlayTypes
    <3>4. Overlay!Fetched(cache.rel)
      BY <2>1, <3>1, Zenon
    <3> QED
      BY <1>3, <3>2, <3>3, <3>4
  <2>3. CASE ~ (cache.rel > r)
    <3>1. Overlay!Newer(r) = r /\ cache' = [rel |-> r, fresh |-> TRUE]
      BY <2>1, <2>3 DEF Overlay!Newer
    <3>2. cache'.rel = r /\ cache' = [rel |-> cache'.rel, fresh |-> cache'.fresh]
      BY <3>1
    <3>3. cache.rel <= r
      BY <1>1, <2>3 DEF OverlayTypes, Builds
    <3>4. Overlay!Fetched(r)
      BY <2>1, <3>1, Zenon
    <3> QED
      BY <1>3, <3>2, <3>3, <3>4
  <2> QED
    BY <2>2, <2>3
<1> QED
  BY <1>4, <1>5

\* What state.json says is compared, the archive staged, the updater unpacked.
LEMMA PrepareStep ==
    ASSUME OverlayInv, Overlay!Decide \/ Overlay!Stage \/ Overlay!Unpack \/ Overlay!Awaited
    PROVE  OverlayInv'
PROOF
<1> USE ReleasesAreNumbers
<1>1. OverlayTypes /\ OverlayFlags /\ Asked /\ Alone /\ Latest /\ Ahead
  BY DEF OverlayInv
<1>2. /\ UNCHANGED <<published, widget, exits, appx, deferred, sneaked, down, stateFile, cache, scripts, fails, wanted>>
      /\ UNCHANGED <<left, outdated>>
  BY DEF Overlay!Decide, Overlay!Stage, Overlay!Unpack, Overlay!Awaited, Overlay!world, Overlay!package, Overlay!files,
         Overlay!history
<1>3. op.pc \in {"decide", "stage", "unpack", "await"}
  BY DEF Overlay!Decide, Overlay!Stage, Overlay!Unpack, Overlay!Awaited
<1>4. op.target \in Releases /\ op.kind # "none"
  BY <1>1, <1>3 DEF OverlayTypes, Told
<1>5. Attended => scripts = {}
  <2>1. CASE op.pc # "await"
    BY <1>1, <2>1 DEF Alone
  <2>2. CASE op.pc = "await"
    <3>1. ~ \E s \in scripts : s.rel = op.target /\ s.from = op.kind
      BY <2>2 DEF Overlay!Awaited, Overlay!Decide, Overlay!Stage, Overlay!Unpack
    <3>2. ASSUME NEW pc \in Stages, scripts = {[rel |-> op.target, from |-> op.kind, pc |-> pc]}
          PROVE  FALSE
      BY <3>1, <3>2
    <3> QED
      BY <1>1, <3>2 DEF Alone
  <2> QED
    BY <2>1, <2>2
<1>6. /\ op' \in Ops
      /\ op'.pc # "free" => op'.kind = op.kind /\ op'.target = op.target
      /\ op'.pc \in {"free", "stage", "run"}
      /\ op'.pc = "stage" => op.pc = "decide"
      /\ op'.pc = "run" => op.kind # "background"
      /\ op'.pc = "run" => op.kind # "none"
      /\ op'.pc # "free" => ~ Overlay!KeptNewer \/ op.pc \in {"stage", "unpack"}
  <2>1. op = [kind |-> op.kind, pc |-> op.pc, target |-> op.target] /\ op \in Ops
    BY <1>1 DEF OverlayTypes, Ops
  <2>2. CASE op' = Overlay!Free
    BY <2>2 DEF Overlay!Free, Ops, Builds
  <2>3. CASE op' = [op EXCEPT !.pc = "stage"] /\ op.pc = "decide" /\ ~ Overlay!KeptNewer
    BY <2>1, <2>3 DEF Ops
  <2>4. CASE /\ op' = [op EXCEPT !.pc = "run"] /\ op.kind \notin {"background", "none"}
             /\ ~ Overlay!KeptNewer \/ op.pc \in {"stage", "unpack"}
    BY <2>1, <2>4 DEF Ops
  <2>5. CASE Overlay!Decide
    <3> DEFINE same == stateFile.rel = op.target
               force == op.kind = "force"
               idle == Overlay!KeptNewer \/ (same /\ appx = op.target) \/ (same /\ stateFile.pending /\ ~ force)
               run == same /\ stateFile.pending /\ zip # 0
    <3>1. op.pc = "decide" /\ op' = (IF idle THEN Overlay!Free ELSE IF run THEN [op EXCEPT !.pc = "run"]
                                                                    ELSE [op EXCEPT !.pc = "stage"])
      BY <2>5, Zenon DEF Overlay!Decide
    <3>2. (~ idle /\ run => force) /\ (~ idle => ~ Overlay!KeptNewer)
      BY Zenon
    <3> HIDE DEF idle, run, same
    <3> QED
      BY <2>2, <2>3, <2>4, <3>1, <3>2
  <2>6. CASE Overlay!Stage
    BY <2>2, <2>4, <2>6 DEF Overlay!Stage, Overlay!Applies
  <2>7. CASE Overlay!Unpack
    BY <1>1, <2>4, <2>7 DEF Overlay!Unpack, OverlayTypes
  <2>8. CASE Overlay!Awaited
    BY <2>2, <2>8 DEF Overlay!Awaited, Overlay!Return
  <2> QED
    BY <2>5, <2>6, <2>7, <2>8
<1>7. zip' \in Builds
  BY <1>1, <1>4 DEF Overlay!Decide, Overlay!Stage, Overlay!Unpack, Overlay!Awaited, Overlay!files, OverlayTypes, Builds
<1>8. updater' \in BOOLEAN
  BY <1>1, Zenon DEF Overlay!Decide, Overlay!Stage, Overlay!Unpack, Overlay!Awaited, Overlay!files, OverlayFlags
<1>9. op'.pc = "stage" => op.kind # "install"
  BY <1>1, <1>6 DEF OverlayTypes
<1>10. OverlayTypes'
  BY <1>1, <1>2, <1>4, <1>6, <1>7, <1>9 DEF OverlayTypes, Told
<1>11. OverlayFlags'
  BY <1>1, <1>2, <1>8, Zenon DEF OverlayFlags
<1>12. Told
  BY <1>3 DEF Told
<1>13. Told' /\ op'.kind # "background" => op'.target \in wanted'
  BY <1>1, <1>2, <1>6, <1>12 DEF Asked, Told
<1>14. cache.rel <= cache'.rel /\ Latest'
  BY <1>1, <1>2, <1>6, <1>12 DEF Latest, Told, OverlayTypes, Builds
<1>15. Upward' => Upward
  BY <1>2, Zenon DEF Upward
<1>16. Upward' /\ op'.pc \in {"stage", "unpack", "run", "await"} => stateFile.rel <= op'.target
  BY <1>1, <1>4, <1>6, <1>15 DEF Ahead, Overlay!KeptNewer, OverlayTypes, Builds
<1> QED
  BY <1>2, <1>5, <1>10, <1>11, <1>13, <1>14, <1>15, <1>16, OnlyTheAgent

LEMMA RunStep == ASSUME OverlayInv, Overlay!Run PROVE OverlayInv'
PROOF
<1> USE ReleasesAreNumbers
<1>1. /\ OverlayTypes /\ OverlayFlags /\ Asked /\ Alone /\ Latest /\ Ahead /\ Registered /\ Truthful
      /\ Overlay!OnlyAsked /\ Overlay!NeverDown
  BY DEF OverlayInv
<1> DEFINE s == [rel |-> op.target, from |-> op.kind, pc |-> "check"]
<1>2. /\ op.pc = "run" /\ scripts' = scripts \cup {s} /\ op' = [op EXCEPT !.pc = "await"]
      /\ UNCHANGED <<published, widget, exits, appx, deferred, sneaked, down, stateFile, zip, updater, cache,
                     fails, wanted, left, outdated>>
  BY DEF Overlay!Run, Overlay!world, Overlay!package, Overlay!files, Overlay!history
<1>3. op' \in Ops /\ op'.pc = "await" /\ op'.kind = op.kind /\ op'.target = op.target
  BY <1>1, <1>2 DEF OverlayTypes, Ops
<1>4. op.kind \in {"force", "install"} /\ op.target \in Releases /\ Told
  BY <1>1, <1>2 DEF OverlayTypes, Told, Ops
<1>5. s \in Script /\ s.rel = op.target /\ s.pc = "check"
  BY <1>4 DEF Script, Stages
<1>6. OverlayTypes'
  BY <1>1, <1>2, <1>3, <1>4, <1>5 DEF OverlayTypes, Told
<1>7. OverlayFlags' /\ Overlay!OnlyAsked' /\ Overlay!NeverDown'
  BY <1>1, <1>2, Zenon DEF OverlayFlags, Overlay!OnlyAsked, Overlay!NeverDown
<1>8. Attended' = Attended /\ Upward' = Upward
  BY <1>2, Zenon DEF Attended, Upward
<1>9. Alone' /\ Latest' /\ Ahead'
  <2>1. Attended => scripts' = {s}
    BY <1>1, <1>2 DEF Alone
  <2>2. Attended => \E pc \in Stages : scripts' = {[rel |-> op'.target, from |-> op'.kind, pc |-> pc]}
    BY <1>3, <2>1 DEF Stages
  <2> QED
    BY <1>1, <1>2, <1>3, <1>4, <1>8, <2>2 DEF Alone, Latest, Ahead
<1> HIDE DEF s
<1>10. Asked'
  BY <1>1, <1>2, <1>3, <1>4, <1>5 DEF Asked
<1>11. Registered'
  BY <1>1, <1>2, <1>5, <1>8 DEF Registered
<1>12. Truthful'
  <2>1. (\A q \in scripts' : q.pc # "verify") => \A q \in scripts : q.pc # "verify"
    BY <1>2
  <2> QED
    BY <1>1, <1>2, <1>8, <2>1, Zenon DEF Truthful
<1> QED
  BY <1>6, <1>7, <1>9, <1>10, <1>11, <1>12 DEF OverlayInv

\* A script that no agent has left behind is the only one, and its release the latest
\* the agent was told of.
LEMMA OneScript ==
    ASSUME OverlayInv, NEW s \in scripts
    PROVE  /\ s \in Script /\ s.rel \in wanted
           /\ Attended => /\ scripts = {s} /\ s.rel = cache.rel /\ op.pc = "await"
                          /\ s.rel = op.target /\ s.from = op.kind
           /\ Upward => Attended /\ appx <= s.rel /\ stateFile.rel <= s.rel
PROOF
<1> USE ReleasesAreNumbers
<1>1. OverlayTypes /\ Asked /\ Alone /\ Latest /\ Ahead
  BY DEF OverlayInv
<1>2. s \in Script /\ s.rel \in wanted
  BY <1>1 DEF OverlayTypes, Asked
<1>3. ASSUME Attended
      PROVE  /\ scripts = {s} /\ s.rel = cache.rel /\ op.pc = "await"
             /\ s.rel = op.target /\ s.from = op.kind
  <2>1. PICK pc \in Stages : scripts = {[rel |-> op.target, from |-> op.kind, pc |-> pc]} /\ op.pc = "await"
    BY <1>1, <1>3 DEF Alone
  <2> QED
    BY <1>1, <1>3, <2>1 DEF Latest, Told
<1>4. Upward => Attended
  BY Zenon DEF Upward, Attended
<1>5. Upward => appx <= s.rel /\ stateFile.rel <= s.rel
  BY <1>1, <1>3, <1>4 DEF Ahead, OverlayTypes, Builds
<1> QED
  BY <1>2, <1>3, <1>4, <1>5

\* A script goes on.
LEMMA ScriptGoes ==
    ASSUME OverlayInv, NEW s \in scripts, NEW pc \in Stages,
           scripts' = (scripts \ {s}) \cup {[s EXCEPT !.pc = pc]},
           UNCHANGED <<published, exits, stateFile, zip, cache, op, fails, wanted, left, outdated>>, OverlayFlags',
           Overlay!OnlyAsked' /\ Overlay!NeverDown',
           appx' \in {appx, s.rel}, deferred' \in {0, deferred, s.rel},
           deferred' = 0 \/ deferred' = s.rel \/ (appx' = appx /\ deferred' = deferred),
           pc = "verify" =>
              \/ appx' = s.rel /\ deferred' = 0
              \/ appx' # s.rel /\ deferred' = s.rel,
           pc # "verify" => s.pc # "verify" /\ appx' = appx /\ deferred' = deferred
    PROVE  OverlayInv'
PROOF
<1> USE ReleasesAreNumbers
<1>1. OverlayTypes /\ Asked /\ Alone /\ Latest /\ Ahead /\ Registered /\ Truthful
  BY DEF OverlayInv
<1>2. /\ s \in Script /\ s.rel \in wanted
      /\ Attended => /\ scripts = {s} /\ s.rel = cache.rel /\ op.pc = "await"
                     /\ s.rel = op.target /\ s.from = op.kind
      /\ Upward => Attended /\ appx <= s.rel /\ stateFile.rel <= s.rel
  BY OneScript
<1> DEFINE n == [s EXCEPT !.pc = pc]
<1>3. n \in Script /\ n.rel = s.rel /\ n.pc = pc /\ n = [rel |-> s.rel, from |-> s.from, pc |-> pc]
  BY <1>2 DEF Script
<1> HIDE DEF n
<1>4. scripts' = (scripts \ {s}) \cup {n} /\ s.rel \in Releases
  BY <1>2 DEF n, Script
<1>5. Attended' = Attended /\ Upward' = Upward
  BY Zenon DEF Attended, Upward
<1>6. OverlayTypes'
  BY <1>1, <1>3, <1>4 DEF OverlayTypes, Told, Builds
<1>7. Asked' /\ Latest'
  BY <1>1, <1>2, <1>3, <1>4 DEF Asked, Latest, Told
<1>8. Attended => scripts' = {n}
  BY <1>2, <1>4
<1>9. Alone'
  <2>1. Attended => \E p \in Stages : scripts' = {[rel |-> op'.target, from |-> op'.kind, pc |-> p]}
    BY <1>2, <1>3, <1>8
  <2> QED
    BY <1>2, <1>5, <2>1 DEF Alone
<1>10. Ahead'
  BY <1>1, <1>2, <1>4, <1>5 DEF Ahead, OverlayTypes, Builds
<1>11. Registered'
  BY <1>3, <1>5, <1>8 DEF Registered
<1>12. Truthful'
  <2>1. CASE pc = "verify" \/ ~ Attended
    BY <1>3, <1>5, <1>8, <2>1 DEF Truthful
  <2>2. CASE pc # "verify" /\ Attended
    <3>1. \A q \in scripts : q.pc # "verify"
      BY <1>2, <2>2
    <3>2. appx' = appx /\ deferred' = deferred
      BY <2>2
    <3> QED
      BY <1>1, <1>5, <3>1, <3>2, Zenon DEF Truthful
  <2> QED
    BY <2>1, <2>2
<1> QED
  BY <1>6, <1>7, <1>9, <1>10, <1>11, <1>12 DEF OverlayInv

LEMMA InstallStep ==
    ASSUME OverlayInv, NEW s \in scripts, Overlay!ScriptInstalls(s)
    PROVE  OverlayInv'
PROOF
<1> USE ReleasesAreNumbers
<1>1. OverlayTypes /\ OverlayFlags /\ Alone /\ Overlay!OnlyAsked /\ Overlay!NeverDown
  BY DEF OverlayInv
<1>2. s \in Script /\ s.rel \in wanted /\ (Upward => appx <= s.rel)
  BY OneScript
<1>3. /\ scripts' = (scripts \ {s}) \cup {[s EXCEPT !.pc = "verify"]}
      /\ UNCHANGED <<published, widget, exits, stateFile, zip, updater, cache, op, fails, wanted, left, outdated>>
  BY DEF Overlay!ScriptInstalls, Overlay!Becomes, Overlay!world, Overlay!files, Overlay!history
<1>4. "verify" \in Stages /\ s.rel \in Releases
  BY <1>2 DEF Stages, Script
<1>5. CASE widget /\ appx # s.rel
  <2>1. deferred' = s.rel /\ UNCHANGED <<appx, sneaked, down>>
    BY <1>5, Zenon DEF Overlay!ScriptInstalls
  <2>2. OverlayFlags' /\ Overlay!OnlyAsked' /\ Overlay!NeverDown'
    BY <1>1, <1>3, <2>1, Zenon DEF OverlayFlags, Overlay!OnlyAsked, Overlay!NeverDown
  <2>3. appx # s.rel
    BY <1>5, Zenon
  <2> QED
    BY <1>3, <1>4, <2>1, <2>2, <2>3, ScriptGoes
<1>6. CASE ~ (widget /\ appx # s.rel)
  <2>1. Overlay!Registers(s.rel, s.from) /\ deferred' = 0
    BY <1>6, Zenon DEF Overlay!ScriptInstalls
  <2>2. UNCHANGED <<wanted, left, outdated>> /\ (Upward /\ s.from # "install" => appx <= s.rel)
    BY <1>2, <1>3
  <2>3. appx' = s.rel /\ sneaked' \in BOOLEAN /\ down' \in BOOLEAN /\ Overlay!OnlyAsked' /\ Overlay!NeverDown'
    BY <1>2, <1>4, <2>1, <2>2, Registration
  <2>4. OverlayFlags'
    BY <1>1, <1>3, <2>3, Zenon DEF OverlayFlags
  <2> QED
    BY <1>3, <1>4, <2>1, <2>3, <2>4, ScriptGoes
<1> QED
  BY <1>5, <1>6

LEMMA FinalizeStep ==
    ASSUME OverlayInv, NEW s \in scripts, Overlay!ScriptFinalizes(s)
    PROVE  OverlayInv'
PROOF
<1> USE ReleasesAreNumbers
<1>1. OverlayTypes /\ OverlayFlags /\ Alone /\ Overlay!OnlyAsked /\ Overlay!NeverDown
  BY DEF OverlayInv
<1>2. s \in Script /\ s.rel \in wanted /\ (Upward => appx <= s.rel)
  BY OneScript
<1>3. /\ s.pc = "verify" /\ deferred' = 0 /\ Overlay!Registers(s.rel, s.from)
      /\ UNCHANGED <<published, exits, scripts, stateFile, zip, updater, cache, op, fails, wanted, left, outdated>>
  BY DEF Overlay!ScriptFinalizes, Overlay!files, Overlay!history
<1>4. "verify" \in Stages /\ s.rel \in Releases
  BY <1>2 DEF Stages, Script
<1>5. scripts' = (scripts \ {s}) \cup {[s EXCEPT !.pc = "verify"]}
  <2>1. [s EXCEPT !.pc = "verify"] = s
    BY <1>2, <1>3 DEF Script
  <2> QED
    BY <1>3, <2>1
<1>6. appx' = s.rel /\ sneaked' \in BOOLEAN /\ down' \in BOOLEAN /\ Overlay!OnlyAsked' /\ Overlay!NeverDown'
  BY <1>2, <1>3, <1>4, Registration
<1>7. widget' = FALSE
  BY Zenon DEF Overlay!ScriptFinalizes
<1>8. OverlayFlags'
  BY <1>1, <1>3, <1>6, <1>7, Zenon DEF OverlayFlags
<1> QED
  BY <1>3, <1>4, <1>5, <1>6, <1>8, ScriptGoes

\* A script ends: before it touched the package, with state.json right, or failed.
LEMMA ScriptIsDone ==
    ASSUME OverlayInv, NEW s \in scripts, scripts' = scripts \ {s},
           UNCHANGED <<published, exits, appx, deferred, sneaked, down, cache, op, wanted, left, outdated>>, OverlayFlags',
           zip' \in Builds, stateFile'.rel \in {stateFile.rel, s.rel}, fails' \in Nat,
           \/ UNCHANGED <<stateFile, fails>> /\ s.pc # "verify"
           \/ fails' # 0
           \/ Attended /\ ~ stateFile'.pending => appx = stateFile'.rel /\ deferred = 0
    PROVE  OverlayInv'
PROOF
<1> USE ReleasesAreNumbers
<1>1. OverlayTypes /\ Asked /\ Alone /\ Latest /\ Ahead /\ Truthful /\ Overlay!OnlyAsked /\ Overlay!NeverDown
  BY DEF OverlayInv
<1>2. /\ s \in Script
      /\ Attended => scripts = {s} /\ s.rel = op.target
      /\ Upward => Attended /\ stateFile.rel <= s.rel
  BY OneScript
<1>3. Attended => scripts' = {}
  BY <1>2
<1>4. Attended' = Attended /\ Upward' = Upward
  BY Zenon DEF Attended, Upward
<1>5. s.rel \in Builds
  BY <1>2 DEF Script, Builds
<1>6. OverlayTypes' /\ Asked' /\ Latest'
  BY <1>1, <1>5 DEF OverlayTypes, Asked, Latest, Told
<1>7. Alone' /\ Registered'
  BY <1>3, <1>4 DEF Alone, Registered
<1>8. Ahead'
  BY <1>1, <1>2, <1>4, <1>5 DEF Ahead, OverlayTypes, Builds
<1>9. Overlay!OnlyAsked' /\ Overlay!NeverDown'
  BY <1>1, Zenon DEF Overlay!OnlyAsked, Overlay!NeverDown
<1>10. Truthful'
  <2>1. ASSUME UNCHANGED <<stateFile, fails>>, s.pc # "verify", Attended
        PROVE  Truthful'
    <3>1. \A q \in scripts : q.pc # "verify"
      BY <1>2, <2>1
    <3> QED
      BY <1>1, <1>4, <2>1, <3>1, Zenon DEF Truthful
  <2>2. ~ Attended => Truthful'
    BY <1>4, Zenon DEF Truthful
  <2>3. fails' # 0 => Truthful'
    BY Zenon DEF Truthful
  <2>4. ASSUME Attended /\ ~ stateFile'.pending => appx = stateFile'.rel /\ deferred = 0
        PROVE  Truthful'
    BY <1>4, <2>4, Zenon DEF Truthful
  <2> QED
    BY <2>1, <2>2, <2>3, <2>4, Zenon
<1> QED
  BY <1>6, <1>7, <1>8, <1>9, <1>10 DEF OverlayInv

LEMMA ScriptStep ==
    ASSUME OverlayInv, NEW s \in scripts,
           Overlay!ScriptChecks(s) \/ Overlay!ScriptEnds(s) \/ Overlay!ScriptFails(s)
    PROVE  OverlayInv'
PROOF
<1> USE ReleasesAreNumbers
<1>1. /\ OverlayTypes /\ OverlayFlags /\ Alone /\ Registered /\ Overlay!OnlyAsked /\ Overlay!NeverDown
  BY DEF OverlayInv
<1>2. s \in Script
  BY OneScript
<1>3. UNCHANGED <<published, widget, exits, appx, deferred, sneaked, down, cache, op, wanted, left, outdated>>
  BY DEF Overlay!ScriptChecks, Overlay!ScriptEnds, Overlay!ScriptFails, Overlay!world, Overlay!package, Overlay!history
<1>4. updater' \in BOOLEAN
  BY <1>1, Zenon DEF Overlay!ScriptChecks, Overlay!ScriptEnds, Overlay!ScriptFails, Overlay!files, OverlayFlags
<1>5. OverlayFlags' /\ Overlay!OnlyAsked' /\ Overlay!NeverDown'
  BY <1>1, <1>3, <1>4, Zenon DEF OverlayFlags, Overlay!OnlyAsked, Overlay!NeverDown
<1>6. zip' \in Builds
  BY <1>1 DEF Overlay!ScriptChecks, Overlay!ScriptEnds, Overlay!ScriptFails, Overlay!files, OverlayTypes, Builds
<1>7. CASE Overlay!ScriptChecks(s)
  <2>1. s.pc = "check" /\ UNCHANGED <<stateFile, zip, fails>>
    BY <1>7 DEF Overlay!ScriptChecks, Overlay!files
  <2>2. stateFile'.rel = stateFile.rel /\ fails' \in Nat /\ "install" \in Stages
    BY <1>1, <2>1 DEF OverlayTypes, Stages
  <2>3. CASE scripts' = scripts \ {s}
    BY <1>3, <1>5, <1>6, <2>1, <2>2, <2>3, ScriptIsDone
  <2>4. CASE scripts' = (scripts \ {s}) \cup {[s EXCEPT !.pc = "install"]}
    <3> DEFINE pc == "install"
    <3>1. pc \in Stages /\ pc # "verify" /\ s.pc # "verify" /\ scripts' = (scripts \ {s}) \cup {[s EXCEPT !.pc = pc]}
      BY <2>1, <2>2, <2>4
    <3> HIDE DEF pc
    <3> QED
      BY <1>3, <1>5, <2>1, <3>1, ScriptGoes
  <2> QED
    BY <1>7, <2>3, <2>4 DEF Overlay!ScriptChecks, Overlay!Becomes, Overlay!Ends
<1>8. CASE Overlay!ScriptEnds(s)
  <2>1. /\ s.pc = "verify" /\ scripts' = scripts \ {s} /\ UNCHANGED fails
        /\ stateFile' = [rel |-> s.rel, pending |-> appx # s.rel]
    BY <1>8 DEF Overlay!ScriptEnds, Overlay!Ends, Overlay!PendingOf, Overlay!NotYet
  <2>2. stateFile'.rel = s.rel /\ fails' \in Nat
    BY <1>1, <1>2, <2>1 DEF OverlayTypes, Script, Builds
  <2>3. stateFile'.pending = (appx # s.rel)
    BY <2>1, Zenon
  <2>4. ~ stateFile'.pending => appx = s.rel
    BY <2>3, Zenon
  <2>5. Attended /\ appx = s.rel => deferred = 0
    BY <1>1, <2>1 DEF Registered
  <2>6. Attended /\ ~ stateFile'.pending => appx = stateFile'.rel /\ deferred = 0
    BY <2>2, <2>4, <2>5, Zenon
  <2> QED
    BY <1>3, <1>5, <1>6, <2>1, <2>2, <2>6, ScriptIsDone
<1>9. CASE Overlay!ScriptFails(s)
  <2>1. scripts' = scripts \ {s} /\ fails' = fails + 1 /\ UNCHANGED stateFile
    BY <1>9 DEF Overlay!ScriptFails, Overlay!Fails, Overlay!Ends
  <2>2. stateFile'.rel = stateFile.rel /\ fails' \in Nat /\ fails' # 0
    BY <1>1, <2>1 DEF OverlayTypes
  <2> QED
    BY <1>3, <1>5, <1>6, <2>1, <2>2, ScriptIsDone
<1> QED
  BY <1>7, <1>8, <1>9

LEMMA OverlayNextStep == ASSUME OverlayInv, Overlay!Next PROVE OverlayInv'
PROOF
BY OverlayWorldStep, AgentExitsStep, DeferredStep, StartStep, ResetStep, FetchStep, PrepareStep, RunStep, InstallStep, FinalizeStep, ScriptStep
   DEF Overlay!Next

LEMMA OverlaySafety ==
    ASSUME OverlayInv
    PROVE  Overlay!TypeOK /\ Overlay!OnlyAsked /\ Overlay!StateTrue /\ Overlay!NeverDown
PROOF
<1>1. /\ OverlayTypes /\ OverlayFlags /\ Truthful /\ Overlay!OnlyAsked /\ Overlay!NeverDown
  BY DEF OverlayInv
<1>2. Overlay!StateTrue
  BY <1>1, Zenon DEF Truthful, Attended, Overlay!StateTrue
<1>3. /\ published \in Releases /\ {appx, deferred, zip} \subseteq Releases \cup {0}
      /\ stateFile.rel \in Releases \cup {0} /\ cache.rel \in Releases \cup {0}
      /\ op.pc \in {"free", "fetch", "decide", "stage", "unpack", "run", "await"}
      /\ \A s \in scripts : s.rel \in Releases /\ s.pc \in {"check", "install", "verify"}
  BY <1>1 DEF OverlayTypes, Builds, Ops, Script, Stages
<1>4. {widget, updater, sneaked, down, left, outdated} \subseteq BOOLEAN
  BY <1>1, Zenon DEF OverlayFlags
<1> QED
  BY <1>1, <1>2, <1>3, <1>4, Zenon DEF Overlay!TypeOK

-------------------------------------------------------------------------------
(* The mouse over the overlay                                                 *)

Blocks == [active : BOOLEAN, captured : BOOLEAN, down : BOOLEAN]
Tests == [active : BOOLEAN, fresh : BOOLEAN, owned : BOOLEAN]
Polls == [pc : {"sleep", "sampled"}, was : BOOLEAN, down : BOOLEAN]
Places == {"hitbox", "rect", "out"}

InputTypes ==
    /\ button \in BOOLEAN /\ async \in BOOLEAN /\ behind \in BOOLEAN /\ shield \in BOOLEAN
    /\ polled \in BOOLEAN /\ doubt \in BOOLEAN
    /\ at \in Places /\ began \in Places
    /\ block \in Blocks /\ ext \in Tests /\ poll \in Polls
    /\ sync \in {"no", "yes", "hide"}

\* A press held for the overlay never reached the application behind it, and only
\* an active test blocks.
Held ==
    /\ block.captured => ~ behind
    /\ block.down <=> block.captured
    /\ block.active => ext.active
    /\ sync = "hide" => ~ block.active

\* The thread that polls knows of a press that it has seen, and a gesture it took for
\* one over the hitbox began there, or there is doubt.
Seen ==
    /\ ~ polled /\ ~ doubt => at = began
    /\ ext.owned => poll.was
    /\ ext.owned /\ ~ doubt => began = "hitbox"
    /\ ~ poll.was /\ (async \/ block.down) => ~ polled \/ doubt
    /\ poll.pc = "sampled" /\ poll.down /\ ~ poll.was => ~ polled \/ doubt
    /\ poll.pc = "sampled" /\ ~ poll.down /\ (async \/ block.down) => doubt

InputInv ==
    /\ InputTypes /\ Held /\ Seen
    /\ Input!GameReleased /\ Input!ShieldMatches /\ Input!ClickOwned

LEMMA InputInit == Input!Init => InputInv
PROOF
<1> SUFFICES ASSUME Input!Init
             PROVE  InputInv
  OBVIOUS
<1>1. /\ block = [active |-> FALSE, captured |-> FALSE, down |-> FALSE]
      /\ ext = [active |-> FALSE, fresh |-> FALSE, owned |-> FALSE]
      /\ poll = [pc |-> "sleep", was |-> FALSE, down |-> FALSE]
      /\ sync = "no" /\ at = "out" /\ began = "out" /\ clicked = "none"
  BY DEF Input!Init
<1>2. button = FALSE /\ async = FALSE /\ behind = FALSE /\ shield = FALSE /\ polled = TRUE /\ doubt = FALSE
  BY Zenon DEF Input!Init
<1>3. block \in Blocks /\ ext \in Tests /\ poll \in Polls
  BY <1>1 DEF Blocks, Tests, Polls
<1>4. /\ ~ block.active /\ ~ block.captured /\ ~ block.down /\ ~ ext.active /\ ~ ext.owned
      /\ ~ poll.was /\ poll.pc = "sleep"
  BY <1>1, Zenon
<1>5. InputTypes
  BY <1>1, <1>2, <1>3, Zenon DEF InputTypes, Places
<1>6. Held /\ Seen
  BY <1>1, <1>2, <1>4, Zenon DEF Held, Seen
<1>7. Input!GameReleased /\ Input!ShieldMatches /\ Input!ClickOwned
  BY <1>1, <1>2, <1>4, Zenon DEF Input!GameReleased, Input!ShieldMatches, Input!ClickOwned
<1> QED
  BY <1>5, <1>6, <1>7 DEF InputInv

LEMMA BlockSet ==
    ASSUME NEW b \in Blocks, NEW v \in BOOLEAN, NEW c, c = [b EXCEPT !.captured = v, !.down = v]
    PROVE  c \in Blocks /\ c.active = b.active /\ c.captured = v /\ c.down = v
PROOF BY DEF Blocks

LEMMA BlockActive ==
    ASSUME NEW b \in Blocks, NEW v \in BOOLEAN, NEW c, c = [b EXCEPT !.active = v]
    PROVE  c \in Blocks /\ c.active = v /\ c.captured = b.captured /\ c.down = b.down
PROOF BY DEF Blocks

LEMMA MoveStep == ASSUME InputInv, NEW p \in {"hitbox", "rect", "out"}, Input!Move(p) PROVE InputInv'
PROOF
<1>1. InputTypes /\ Held /\ Seen /\ Input!GameReleased /\ Input!ShieldMatches /\ Input!ClickOwned
  BY DEF InputInv
<1>2. /\ at' = p
      /\ UNCHANGED <<button, async, behind, block, shield, ext, clicked, poll, sync, began, polled>>
  BY DEF Input!Move
<1>3. doubt' = (doubt \/ ~ polled)
  BY Zenon DEF Input!Move
<1>4. InputTypes'
  BY <1>1, <1>2, <1>3, Zenon DEF InputTypes, Places
<1>5. Held' /\ Seen'
  BY <1>1, <1>2, <1>3, Zenon DEF Held, Seen
<1>6. Input!GameReleased' /\ Input!ShieldMatches' /\ Input!ClickOwned'
  BY <1>1, <1>2, Zenon DEF Input!GameReleased, Input!ShieldMatches, Input!ClickOwned
<1> QED
  BY <1>4, <1>5, <1>6 DEF InputInv

\* Whatever the hook does of a press, it makes for doubt unless the poll took the
\* button for released, and reaches the application or the overlay.
LEMMA PressStep ==
    ASSUME InputInv, Input!PressSwallowed \/ Input!PressPassed \/ Input!PressMissed
    PROVE  InputInv'
PROOF
<1>1. InputTypes /\ Held /\ Seen /\ Input!GameReleased /\ Input!ShieldMatches /\ Input!ClickOwned
  BY DEF InputInv
<1>2. began' = at /\ UNCHANGED <<at, ext, clicked, poll, sync>>
  BY DEF Input!PressSwallowed, Input!PressPassed, Input!PressMissed, Input!Pressed
<1>3. ~ button /\ button' = TRUE /\ polled' = FALSE /\ doubt' = (poll.was \/ poll.pc = "sampled")
  BY Zenon DEF Input!PressSwallowed, Input!PressPassed, Input!PressMissed, Input!Pressed
<1>4. async' \in BOOLEAN
  BY Zenon DEF Input!PressSwallowed, Input!PressPassed, Input!PressMissed
<1>5. doubt' \in BOOLEAN /\ polled' \in BOOLEAN /\ button' \in BOOLEAN
  BY <1>3, Zenon
<1>6. Seen'
  BY <1>1, <1>2, <1>3, Zenon DEF Seen
<1>7. Input!GameReleased' /\ Input!ClickOwned'
  BY <1>1, <1>2, <1>3, Zenon DEF Input!GameReleased, Input!ClickOwned
<1>8. CASE Input!PressSwallowed
  <2>1. block' = [block EXCEPT !.captured = TRUE, !.down = TRUE]
    BY <1>8 DEF Input!PressSwallowed
  <2>2. shield' = TRUE /\ behind' = behind /\ (block.captured \/ block.active)
    BY <1>8, Zenon DEF Input!PressSwallowed, Input!Swallows
  <2>3. block \in Blocks
    BY <1>1, Zenon DEF InputTypes
  <2>4. block' \in Blocks /\ block'.active = block.active /\ block'.captured = TRUE /\ block'.down = TRUE
    BY <2>1, <2>3, BlockSet
  <2>5. ~ behind
    BY <1>1, <1>3, Zenon DEF Input!GameReleased
  <2>6. InputTypes'
    BY <1>1, <1>2, <1>4, <1>5, <2>2, <2>4, Zenon DEF InputTypes
  <2>7. Held' /\ Input!ShieldMatches'
    BY <1>1, <1>2, <2>2, <2>4, <2>5, Zenon DEF Held, Input!ShieldMatches
  <2> QED
    BY <1>6, <1>7, <2>6, <2>7 DEF InputInv
<1>9. CASE Input!PressPassed \/ Input!PressMissed
  <2>1. UNCHANGED <<block, shield>>
    BY <1>9 DEF Input!PressPassed, Input!PressMissed
  <2>2. behind' = ~ shield
    BY <1>9, Zenon DEF Input!PressPassed, Input!PressMissed, Input!Reaches
  <2>3. InputTypes'
    BY <1>1, <1>2, <1>4, <1>5, <2>1, <2>2, Zenon DEF InputTypes
  <2>4. Held' /\ Input!ShieldMatches'
    BY <1>1, <1>2, <2>1, <2>2, Zenon DEF Held, Input!ShieldMatches
  <2> QED
    BY <1>6, <1>7, <2>3, <2>4 DEF InputInv
<1> QED
  BY <1>8, <1>9

LEMMA ReleaseStep ==
    ASSUME InputInv, Input!ReleaseSwallowed \/ Input!ReleasePassed \/ Input!ReleaseMissed
    PROVE  InputInv'
PROOF
<1>1. InputTypes /\ Held /\ Seen /\ Input!GameReleased /\ Input!ShieldMatches /\ Input!ClickOwned
  BY DEF InputInv
<1>2. UNCHANGED <<at, ext, clicked, poll, sync, began>>
  BY DEF Input!ReleaseSwallowed, Input!ReleasePassed, Input!ReleaseMissed, Input!Released, Input!historyVars
<1>3. button' = FALSE /\ async' = FALSE /\ polled' = polled /\ doubt' = doubt
  BY Zenon DEF Input!ReleaseSwallowed, Input!ReleasePassed, Input!ReleaseMissed, Input!Released, Input!historyVars
<1>4. Input!ClickOwned'
  BY <1>1, <1>2 DEF Input!ClickOwned
<1>5. CASE Input!ReleaseSwallowed
  <2>1. block' = [block EXCEPT !.captured = FALSE, !.down = FALSE]
    BY <1>5 DEF Input!ReleaseSwallowed
  <2>2. shield' = FALSE /\ behind' = behind /\ block.captured
    BY <1>5, Zenon DEF Input!ReleaseSwallowed, Input!SwallowsRelease
  <2>3. block \in Blocks
    BY <1>1, Zenon DEF InputTypes
  <2>4. block' \in Blocks /\ block'.active = block.active /\ block'.captured = FALSE /\ block'.down = FALSE
    BY <2>1, <2>3, BlockSet
  <2>5. InputTypes'
    BY <1>1, <1>2, <1>3, <2>2, <2>4, Zenon DEF InputTypes
  <2>6. Held' /\ Input!GameReleased'
    BY <1>1, <1>2, <2>2, <2>4, Zenon DEF Held, Input!GameReleased
  <2>7. Seen'
    BY <1>1, <1>2, <1>3, <2>4, Zenon DEF Seen
  <2>8. Input!ShieldMatches'
    BY <1>1, <1>2, <2>2, <2>4, Zenon DEF Held, Input!ShieldMatches
  <2> QED
    BY <1>4, <2>5, <2>6, <2>7, <2>8 DEF InputInv
<1>6. CASE Input!ReleasePassed \/ Input!ReleaseMissed
  <2>1. UNCHANGED <<block, shield>>
    BY <1>6 DEF Input!ReleasePassed, Input!ReleaseMissed
  <2>2. behind' = FALSE
    BY <1>6, Zenon DEF Input!ReleasePassed, Input!ReleaseMissed
  <2>3. InputTypes'
    BY <1>1, <1>2, <1>3, <2>1, <2>2, Zenon DEF InputTypes
  <2>4. Held' /\ Input!GameReleased' /\ Input!ShieldMatches'
    BY <1>1, <1>2, <2>1, <2>2, Zenon DEF Held, Input!GameReleased, Input!ShieldMatches
  <2>5. Seen'
    BY <1>1, <1>2, <1>3, <2>1, Zenon DEF Seen
  <2> QED
    BY <1>4, <2>3, <2>4, <2>5 DEF InputInv
<1> QED
  BY <1>5, <1>6

LEMMA PollStep ==
    ASSUME InputInv, Input!PollIdle \/ Input!PollSample \/ Input!PollCount
    PROVE  InputInv'
PROOF
<1>1. InputTypes /\ Held /\ Seen /\ Input!GameReleased /\ Input!ShieldMatches /\ Input!ClickOwned
  BY DEF InputInv
<1>2. UNCHANGED <<button, at, async, behind, block, shield, sync, began, doubt>>
  BY DEF Input!PollIdle, Input!PollSample, Input!PollCount, Input!mouseVars, Input!historyVars
<1>3. Input!GameReleased' /\ Input!ShieldMatches'
  BY <1>1, <1>2, Zenon DEF Input!GameReleased, Input!ShieldMatches
<1>4. ext \in Tests /\ poll \in Polls /\ async \in BOOLEAN /\ block \in Blocks
  BY <1>1, Zenon DEF InputTypes
<1>5. block.down \in BOOLEAN
  BY <1>4 DEF Blocks
<1>6. CASE Input!PollIdle
  <2>1. /\ poll' = [poll EXCEPT !.was = async] /\ ext' = [ext EXCEPT !.owned = FALSE]
        /\ poll.pc = "sleep" /\ clicked' = clicked
    BY <1>6 DEF Input!PollIdle
  <2>2. polled' = TRUE /\ ~ ext.active
    BY <1>6, Zenon DEF Input!PollIdle
  <2>3. poll' \in Polls /\ poll'.was = async /\ poll'.pc = "sleep"
    BY <1>4, <2>1 DEF Polls
  <2>4. ext' \in Tests /\ ext'.owned = FALSE /\ ext'.active = ext.active
    BY <1>4, <2>1 DEF Tests
  <2>5. InputTypes'
    BY <1>1, <1>2, <2>2, <2>3, <2>4, Zenon DEF InputTypes
  <2>6. Held'
    BY <1>1, <1>2, <2>4, Zenon DEF Held
  <2>7. ~ block.down
    BY <1>1, <2>2, Zenon DEF Held, Input!ShieldMatches
  <2>8. poll'.pc # "sampled" /\ (poll'.was <=> async) /\ ~ ext'.owned
    BY <2>3, <2>4, Zenon
  <2>9. Seen'
    BY <1>2, <2>2, <2>7, <2>8, Zenon DEF Seen
  <2>10. Input!ClickOwned'
    BY <1>1, <2>1 DEF Input!ClickOwned
  <2> QED
    BY <1>3, <2>5, <2>6, <2>9, <2>10 DEF InputInv
<1>7. CASE Input!PollSample
  <2> DEFINE now == async \/ block.down
  <2>1. now \in BOOLEAN
    BY Zenon
  <2>2. poll' = [poll EXCEPT !.pc = "sampled", !.down = now] /\ UNCHANGED <<ext, clicked, polled>>
    BY <1>7 DEF Input!PollSample, Input!historyVars
  <2>10. now = (async \/ block.down)
    OBVIOUS
  <2> HIDE DEF now
  <2>3. poll' \in Polls /\ poll'.was = poll.was /\ poll'.pc = "sampled" /\ poll'.down = now
    BY <1>4, <2>1, <2>2 DEF Polls
  <2>4. InputTypes'
    BY <1>1, <1>2, <2>2, <2>3, Zenon DEF InputTypes
  <2>5. Held'
    BY <1>1, <1>2, <2>2, Zenon DEF Held
  <2>6. poll'.down <=> async \/ block.down
    BY <2>3, <2>10, Zenon
  <2>7. Seen'
    BY <1>1, <1>2, <2>2, <2>3, <2>6, Zenon DEF Seen
  <2>8. Input!ClickOwned'
    BY <1>1, <2>2 DEF Input!ClickOwned
  <2> QED
    BY <1>3, <2>4, <2>5, <2>7, <2>8 DEF InputInv
<1>8. CASE Input!PollCount
  <2> DEFINE edge == poll.down # poll.was
             owned == Input!Owned /\ ~ (edge /\ ~ poll.down)
  <2>1. owned \in BOOLEAN
    BY Zenon
  <2>2. /\ ext' = [ext EXCEPT !.owned = owned]
        /\ poll' = [pc |-> "sleep", was |-> poll.down, down |-> FALSE]
    BY <1>8, Zenon DEF Input!PollCount
  <2>3. /\ poll.pc = "sampled"
        /\ polled' = (polled \/ (poll.down /\ button))
        /\ clicked' = IF edge /\ ~ poll.down /\ Input!Owned /\ Input!Hovered
                      THEN IF doubt THEN "doubt" ELSE began
                      ELSE clicked
    BY <1>8, Zenon DEF Input!PollCount
  <2>4. poll.down \in BOOLEAN /\ poll.was \in BOOLEAN /\ ext.owned \in BOOLEAN
    BY <1>4 DEF Polls, Tests
  <2>5. owned => (poll.down /\ ~ poll.was /\ at = "hitbox") \/ (ext.owned /\ poll.down)
    BY <1>1, <2>4, Zenon DEF Input!Owned, Input!Hovered, Seen
  <2>6. edge /\ ~ poll.down /\ Input!Owned => ext.owned
    BY Zenon DEF Input!Owned
  <2> HIDE DEF owned
  <2>7. ext' \in Tests /\ ext'.owned = owned /\ ext'.active = ext.active
    BY <1>4, <2>1, <2>2 DEF Tests
  <2>8. poll' \in Polls
    BY <2>2, <2>4 DEF Polls
  <2>9. poll'.was = poll.down /\ poll'.pc = "sleep"
    BY <2>2
  <2>10. polled' \in BOOLEAN
    BY <2>3, Zenon
  <2>11. InputTypes'
    BY <1>1, <1>2, <2>7, <2>8, <2>10, Zenon DEF InputTypes
  <2>12. Held'
    BY <1>1, <1>2, <2>7, Zenon DEF Held
  <2>13. Seen'
    <3>1. poll'.pc # "sampled" /\ (poll'.was <=> poll.down) /\ (ext'.owned <=> owned)
      BY <2>7, <2>9, Zenon
    <3>2. ~ polled' /\ ~ doubt' => at' = began'
      BY <1>1, <1>2, <2>3, Zenon DEF Seen
    <3>3. ext'.owned => poll'.was
      BY <2>5, <3>1, Zenon
    <3>4. ext'.owned /\ ~ doubt' => began' = "hitbox"
      BY <1>1, <1>2, <2>3, <2>5, <3>1, Zenon DEF Seen
    <3>5. ~ poll'.was /\ (async' \/ block'.down) => ~ polled' \/ doubt'
      BY <1>1, <1>2, <2>3, <3>1, Zenon DEF Seen
    <3> QED
      BY <3>1, <3>2, <3>3, <3>4, <3>5, Zenon DEF Seen
  <2>14. Input!ClickOwned'
    <3>1. CASE edge /\ ~ poll.down /\ Input!Owned /\ Input!Hovered
      <4>1. ext.owned
        BY <2>6, <3>1, Zenon
      <4>2. clicked' = IF doubt THEN "doubt" ELSE began
        BY <2>3, <3>1, Zenon
      <4> QED
        BY <1>1, <4>1, <4>2, Zenon DEF Seen, Input!ClickOwned
    <3>2. CASE ~ (edge /\ ~ poll.down /\ Input!Owned /\ Input!Hovered)
      BY <1>1, <2>3, <3>2, Zenon DEF Input!ClickOwned
    <3> QED
      BY <3>1, <3>2
  <2> QED
    BY <1>3, <2>11, <2>12, <2>13, <2>14 DEF InputInv
<1> QED
  BY <1>6, <1>7, <1>8

LEMMA SyncStep ==
    ASSUME InputInv,
           \/ \E active, blocks \in BOOLEAN : Input!Sync(active, blocks)
           \/ Input!GrowsStale \/ Input!SyncHides \/ Input!SyncReturns
    PROVE  InputInv'
PROOF
<1>1. InputTypes /\ Held /\ Seen /\ Input!GameReleased /\ Input!ShieldMatches /\ Input!ClickOwned
  BY DEF InputInv
<1>2. UNCHANGED <<button, at, async, behind, clicked, poll, began, polled>>
  BY DEF Input!Sync, Input!GrowsStale, Input!SyncHides, Input!SyncReturns, Input!mouseVars, Input!historyVars
<1>3. Input!GameReleased' /\ Input!ClickOwned'
  BY <1>1, <1>2, Zenon DEF Input!GameReleased, Input!ClickOwned
<1>4. ext \in Tests /\ block \in Blocks
  BY <1>1, Zenon DEF InputTypes
<1>5. ASSUME NEW active \in BOOLEAN, NEW blocks \in BOOLEAN, Input!Sync(active, blocks)
      PROVE  InputInv'
  <2> DEFINE v == active /\ blocks
             b == [block EXCEPT !.active = v]
  <2>1. /\ ext' = [ext EXCEPT !.active = active, !.fresh = TRUE]
        /\ block' = (IF b.active THEN b ELSE [b EXCEPT !.captured = FALSE, !.down = FALSE])
        /\ sync' = IF block'.captured # block.captured THEN "hide" ELSE "yes"
        /\ sync = "no" /\ shield' = shield
    BY <1>5 DEF Input!Sync, Input!LetGo
  <2>2. doubt' = (doubt \/ ~ polled)
    BY <1>5, Zenon DEF Input!Sync
  <2>3. v \in BOOLEAN /\ (v => active)
    BY Zenon
  <2> HIDE DEF v
  <2>4. b \in Blocks /\ b.active = v /\ b.captured = block.captured /\ b.down = block.down
    BY <1>4, <2>3, BlockActive
  <2> HIDE DEF b
  <2>5. ext' \in Tests /\ ext'.active = active /\ ext'.owned = ext.owned
    BY <1>4, <2>1 DEF Tests
  <2>6. /\ block' \in Blocks
        /\ block'.active = v
        /\ (v /\ block'.captured = block.captured /\ block'.down = block.down)
           \/ (~ v /\ block'.captured = FALSE /\ block'.down = FALSE)
    <3>1. CASE v
      BY <2>1, <2>4, <3>1, Zenon
    <3>2. CASE ~ v
      <4>1. block' = [b EXCEPT !.captured = FALSE, !.down = FALSE]
        BY <2>1, <2>4, <3>2, Zenon
      <4>2. block' \in Blocks /\ block'.active = b.active /\ block'.captured = FALSE /\ block'.down = FALSE
        BY <2>4, <4>1, BlockSet
      <4> QED
        BY <2>4, <3>2, <4>2, Zenon
    <3> QED
      BY <3>1, <3>2, Zenon
  <2>7. block'.captured \in BOOLEAN /\ block.captured \in BOOLEAN
    BY <1>4, <2>6 DEF Blocks
  <2>8. doubt' \in BOOLEAN /\ sync' \in {"no", "yes", "hide"}
    BY <2>1, <2>2, Zenon
  <2>9. InputTypes'
    BY <1>1, <1>2, <2>1, <2>5, <2>6, <2>8, Zenon DEF InputTypes
  <2>13. sync' = "hide" => ~ v
    BY <2>1, <2>6, Zenon
  <2>14. sync' = "hide" => ~ block'.active
    BY <2>6, <2>13, Zenon
  <2>10. Held'
    BY <1>1, <1>2, <2>3, <2>5, <2>6, <2>14, Zenon DEF Held
  <2>11. Seen'
    BY <1>1, <1>2, <2>2, <2>5, <2>6, Zenon DEF Seen
  <2>12. Input!ShieldMatches'
    <3>1. CASE block'.captured # block.captured
      <4>1. sync' = "hide" /\ block.captured
        BY <2>1, <2>6, <2>7, <3>1, Zenon
      <4>2. shield /\ (block'.captured => block'.active)
        BY <1>1, <2>6, <4>1, Zenon DEF Input!ShieldMatches
      <4> QED
        BY <2>1, <4>1, <4>2, Zenon DEF Input!ShieldMatches
    <3>2. CASE block'.captured = block.captured
      <4>1. sync' # "hide"
        BY <2>1, <3>2, Zenon
      <4>2. sync # "hide"
        BY <2>1
      <4>3. block'.captured => block'.active
        BY <2>6, Zenon
      <4> QED
        BY <1>1, <2>1, <3>2, <4>1, <4>2, <4>3, Zenon DEF Input!ShieldMatches
    <3> QED
      BY <3>1, <3>2
  <2> QED
    BY <1>3, <2>9, <2>10, <2>11, <2>12 DEF InputInv
<1>6. CASE Input!GrowsStale
  <2>1. ext' = [ext EXCEPT !.fresh = FALSE] /\ UNCHANGED <<block, shield, sync, doubt>>
    BY <1>6 DEF Input!GrowsStale, Input!historyVars
  <2>2. ext' \in Tests /\ ext'.active = ext.active /\ ext'.owned = ext.owned
    BY <1>4, <2>1 DEF Tests
  <2>3. InputTypes'
    BY <1>1, <1>2, <2>1, <2>2, Zenon DEF InputTypes
  <2>4. Held' /\ Seen' /\ Input!ShieldMatches'
    BY <1>1, <1>2, <2>1, <2>2, Zenon DEF Held, Seen, Input!ShieldMatches
  <2> QED
    BY <1>3, <2>3, <2>4 DEF InputInv
<1>7. CASE Input!SyncHides \/ Input!SyncReturns
  <2>1. sync' \in {"yes", "no"} /\ sync' # "hide" /\ UNCHANGED <<block, ext, doubt>>
    BY <1>7 DEF Input!SyncHides, Input!SyncReturns, Input!historyVars
  <2>5. \/ sync = "hide" /\ shield' = FALSE
        \/ sync = "yes" /\ shield' = shield
    BY <1>7, Zenon DEF Input!SyncHides, Input!SyncReturns
  <2>2. InputTypes'
    BY <1>1, <1>2, <2>1, <2>5, Zenon DEF InputTypes
  <2>3. Held' /\ Seen'
    BY <1>1, <1>2, <2>1, Zenon DEF Held, Seen
  <2>4. Input!ShieldMatches'
    <3>1. CASE sync = "hide" /\ shield' = FALSE
      BY <1>1, <2>1, <3>1, Zenon DEF Held, Input!ShieldMatches
    <3>2. CASE sync = "yes" /\ shield' = shield
      BY <1>1, <2>1, <3>2, Zenon DEF Input!ShieldMatches
    <3> QED
      BY <2>5, <3>1, <3>2
  <2> QED
    BY <1>3, <2>2, <2>3, <2>4 DEF InputInv
<1> QED
  BY <1>5, <1>6, <1>7

LEMMA InputNextStep == ASSUME InputInv, Input!Next PROVE InputInv'
PROOF
BY MoveStep, PressStep, ReleaseStep, PollStep, SyncStep DEF Input!Next, Input!Places

LEMMA InputSafety ==
    ASSUME InputInv
    PROVE  Input!TypeOK /\ Input!GameReleased /\ Input!ShieldMatches /\ Input!ClickOwned
PROOF
<1>1. InputTypes /\ Input!GameReleased /\ Input!ShieldMatches /\ Input!ClickOwned
  BY DEF InputInv
<1>2. clicked \in Input!Places \cup {"none", "doubt"}
  BY <1>1, Zenon DEF Input!ClickOwned, Input!Places
<1>3. {button, async, behind, shield, polled, doubt} \subseteq BOOLEAN
  BY <1>1, Zenon DEF InputTypes
<1> QED
  BY <1>1, <1>2, <1>3, Zenon DEF InputTypes, Input!TypeOK, Input!Places, Places, Blocks, Tests, Polls

-------------------------------------------------------------------------------
(* Induction over the natural numbers, for a set in place of a predicate.     *)

\* A set of natural numbers that is not empty has a least element.
LEMMA LeastExists ==
    ASSUME NEW T, T \subseteq Nat, T # {}
    PROVE  \E x \in T : \A y \in T : x <= y
PROOF
<1> DEFINE R == OpToRel(<, Nat)
<1>1. R = {ss \in Nat \X Nat : ss[1] < ss[2]}
  BY Zenon DEF OpToRel
<1>2. IsWellFoundedOn(R, Nat)
  BY NatLessThanWellFounded
<1> HIDE DEF R
<1>3. PICK x \in T : \A y \in T : <<y, x>> \notin R
  BY <1>2, WFMin, Zenon
<1>4. ASSUME NEW y \in T PROVE x <= y
  <2>1. <<y, x>> \notin R
    BY <1>3
  <2>2. ~(y < x)
    BY <1>1, <2>1
  <2> QED
    BY <2>2
<1> QED
  BY <1>3, <1>4

\* What holds of 0 and of the successor of every number it holds of.
LEMMA Induction ==
    ASSUME NEW S, 0 \in S, \A n \in Nat : n \in S => n + 1 \in S
    PROVE  Nat \subseteq S
PROOF
<1> SUFFICES ASSUME NEW k \in Nat, k \notin S
             PROVE  FALSE
  OBVIOUS
<1> DEFINE T == {n \in Nat : n \notin S}
<1>1. T \subseteq Nat /\ T # {}
  OBVIOUS
<1>2. PICK x \in T : \A y \in T : x <= y
  <2> HIDE DEF T
  <2> QED
    BY <1>1, LeastExists
<1>3. x # 0 /\ x - 1 \in Nat
  OBVIOUS
<1>4. x - 1 \in S
  BY <1>2, <1>3
<1>5. (x - 1) + 1 \in S
  BY <1>3, <1>4
<1> QED
  BY <1>5

-------------------------------------------------------------------------------
(* Filtering                                                                  *)

\* The prefix of length n contributes k[n].
Filters(k, b, S, m) ==
    k = [n \in 0..m |->
            IF n = 0 THEN <<>>
            ELSE IF b[n] \in S THEN Append(k[n - 1], b[n]) ELSE k[n - 1]]

FirstOnes(b, n) == {b[i] : i \in 1..n}

\* There is such a function: the recursion of Kept defines something.
LEMMA FilterExists ==
    ASSUME NEW b, NEW S, NEW m \in Nat
    PROVE  \E k : Filters(k, b, S, m)
PROOF
<1> DEFINE G == {n \in Nat : \E k : Filters(k, b, S, n)}
<1>1. 0 \in G
  <2> DEFINE k == [n \in 0..0 |-> <<>>]
  <2>1. Filters(k, b, S, 0)
    BY DEF Filters
  <2> QED
    BY <2>1
<1>2. ASSUME NEW n \in Nat, n \in G PROVE n + 1 \in G
  <2>1. PICK k : Filters(k, b, S, n)
    BY <1>2
  <2> DEFINE l == [i \in 0..(n + 1) |->
                      IF i \in 0..n THEN k[i]
                      ELSE IF b[i] \in S THEN Append(k[n], b[i]) ELSE k[n]]
  <2>2. ASSUME NEW i \in 0..(n + 1)
        PROVE  l[i] = IF i = 0 THEN <<>>
                      ELSE IF b[i] \in S THEN Append(l[i - 1], b[i]) ELSE l[i - 1]
    <3>1. l[i] = IF i \in 0..n THEN k[i]
                 ELSE IF b[i] \in S THEN Append(k[n], b[i]) ELSE k[n]
      OBVIOUS
    <3>2. CASE i \in 0..n
      <4>1. l[i] = k[i] /\ (i # 0 => l[i - 1] = k[i - 1])
        BY <3>2
      <4>2. k[i] = IF i = 0 THEN <<>>
                   ELSE IF b[i] \in S THEN Append(k[i - 1], b[i]) ELSE k[i - 1]
        BY <2>1, <3>2 DEF Filters
      <4> HIDE DEF l
      <4> QED
        BY <4>1, <4>2, Zenon
    <3>3. CASE i \notin 0..n
      <4>1. i = n + 1 /\ i - 1 = n /\ i # 0
        BY <3>3
      <4>2. l[i - 1] = k[n]
        BY <4>1
      <4> HIDE DEF l
      <4> QED
        BY <3>1, <3>3, <4>1, <4>2
    <3> QED
      BY <3>2, <3>3
  <2>3. Filters(l, b, S, n + 1)
    <3> HIDE DEF l
    <3>1. l = [i \in 0..(n + 1) |-> l[i]]
      BY DEF l
    <3> QED
      BY <2>2, <3>1, Zenon DEF Filters
  <2> QED
    BY <2>3
<1>3. Nat \subseteq G
  <2> HIDE DEF G
  <2> QED
    BY <1>1, <1>2, Induction
<1> QED
  BY <1>3

LEMMA ElementsOfAppend ==
    ASSUME NEW A, NEW q \in Seq(A), NEW e \in A
    PROVE  Shown!Elements(Append(q, e)) = Shown!Elements(q) \cup {e}
PROOF
<1>1. Len(Append(q, e)) = Len(q) + 1 /\ Append(q, e)[Len(q) + 1] = e
  OBVIOUS
<1>2. ASSUME NEW i \in 1..Len(q) PROVE Append(q, e)[i] = q[i]
  OBVIOUS
<1>3. 1..(Len(q) + 1) = (1..Len(q)) \cup {Len(q) + 1}
  OBVIOUS
<1> DEFINE r == Append(q, e)
<1> HIDE DEF r
<1>4. {r[i] : i \in 1..Len(r)} = {r[i] : i \in 1..Len(q)} \cup {r[Len(q) + 1]}
  BY <1>1, <1>3 DEF r
<1>5. {r[i] : i \in 1..Len(q)} = {q[i] : i \in 1..Len(q)}
  BY <1>2 DEF r
<1> QED
  BY <1>1, <1>4, <1>5 DEF r, Shown!Elements

\* A filter keeps frames only, those in S, and makes nothing longer.
LEMMA FilterPrefix ==
    ASSUME NEW A, NEW b \in Seq(A), NEW S, NEW k, Filters(k, b, S, Len(b)), NEW n \in 0..Len(b)
    PROVE  /\ k[n] \in Seq(A) /\ Len(k[n]) <= n
           /\ Shown!Elements(k[n]) = FirstOnes(b, n) \cap S
PROOF
<1> DEFINE Good(i) == /\ k[i] \in Seq(A) /\ Len(k[i]) <= i
                      /\ Shown!Elements(k[i]) = FirstOnes(b, i) \cap S
           G == {i \in Nat : i <= Len(b) => Good(i)}
<1>1. 0 \in G
  <2>1. 0 \in 0..Len(b) /\ k[0] = <<>>
    BY DEF Filters
  <2>2. FirstOnes(b, 0) = {} /\ Shown!Elements(<<>>) = {}
    BY DEF Shown!Elements, FirstOnes
  <2>3. Good(0)
    BY <2>1, <2>2
  <2> QED
    BY <2>3
<1>2. ASSUME NEW i \in Nat, i \in G PROVE i + 1 \in G
  <2> SUFFICES ASSUME i + 1 <= Len(b)
               PROVE  Good(i + 1)
    OBVIOUS
  <2>1. Good(i)
    BY <1>2
  <2>2. k[i + 1] = IF b[i + 1] \in S THEN Append(k[i], b[i + 1]) ELSE k[i]
    <3>1. i + 1 \in 0..Len(b) /\ i + 1 # 0 /\ (i + 1) - 1 = i
      OBVIOUS
    <3> QED
      BY <3>1 DEF Filters
  <2>3. FirstOnes(b, i + 1) = FirstOnes(b, i) \cup {b[i + 1]}
    BY DEF FirstOnes
  <2>4. b[i + 1] \in A
    OBVIOUS
  <2>5. CASE b[i + 1] \in S
    <3>1. Shown!Elements(Append(k[i], b[i + 1])) = Shown!Elements(k[i]) \cup {b[i + 1]}
      BY <2>1, <2>4, ElementsOfAppend
    <3> QED
      BY <2>1, <2>2, <2>3, <2>4, <2>5, <3>1
  <2>6. CASE b[i + 1] \notin S
    BY <2>1, <2>2, <2>3, <2>6
  <2> QED
    BY <2>5, <2>6
<1>3. Nat \subseteq G
  <2> HIDE DEF G
  <2> QED
    BY <1>1, <1>2, Induction
<1>4. n \in Nat /\ n <= Len(b)
  OBVIOUS
<1> QED
  BY <1>3, <1>4

\* What retain does: exactly the elements in S are left, none twice as often.
LEMMA KeptElements ==
    ASSUME NEW A, NEW b \in Seq(A), NEW S
    PROVE  /\ Shown!Kept(b, S) \in Seq(A) /\ Len(Shown!Kept(b, S)) <= Len(b)
           /\ Shown!Elements(Shown!Kept(b, S)) = Shown!Elements(b) \cap S
PROOF
<1> DEFINE k == CHOOSE k : Filters(k, b, S, Len(b))
<1>1. Filters(k, b, S, Len(b))
  <2>1. Len(b) \in Nat
    OBVIOUS
  <2> QED
    BY <2>1, FilterExists
<1>2. Shown!Kept(b, S) = k[Len(b)]
  BY DEF Shown!Kept, Filters
<1> HIDE DEF k
<1>3. Len(b) \in 0..Len(b)
  OBVIOUS
<1>4. /\ k[Len(b)] \in Seq(A) /\ Len(k[Len(b)]) <= Len(b)
      /\ Shown!Elements(k[Len(b)]) = FirstOnes(b, Len(b)) \cap S
  BY <1>1, <1>3, FilterPrefix
<1> QED
  BY <1>2, <1>4 DEF Shown!Elements, FirstOnes

\* Two filters of one list agree.
LEMMA FilterUnique ==
    ASSUME NEW b, NEW c, NEW S, NEW m \in Nat, NEW n \in Nat, n <= m,
           NEW k, NEW l, Filters(k, b, S, m), Filters(l, c, S, n), \A i \in 1..n : b[i] = c[i]
    PROVE  \A i \in 0..n : k[i] = l[i]
PROOF
<1> DEFINE G == {i \in Nat : i <= n => k[i] = l[i]}
<1>1. 0 \in G
  BY DEF Filters
<1>2. ASSUME NEW i \in Nat, i \in G PROVE i + 1 \in G
  <2> SUFFICES ASSUME i + 1 <= n
               PROVE  k[i + 1] = l[i + 1]
    OBVIOUS
  <2>1. i + 1 \in 0..m /\ i + 1 \in 0..n /\ i + 1 \in 1..n /\ i + 1 # 0 /\ (i + 1) - 1 = i /\ k[i] = l[i]
    BY <1>2
  <2>2. k[i + 1] = IF b[i + 1] \in S THEN Append(k[i], b[i + 1]) ELSE k[i]
    BY <2>1 DEF Filters
  <2>3. l[i + 1] = IF c[i + 1] \in S THEN Append(l[i], c[i + 1]) ELSE l[i]
    BY <2>1 DEF Filters
  <2>4. b[i + 1] = c[i + 1]
    BY <2>1
  <2> QED
    BY <2>1, <2>2, <2>3, <2>4
<1>3. Nat \subseteq G
  <2> HIDE DEF G
  <2> QED
    BY <1>1, <1>2, Induction
<1> QED
  BY <1>3

LEMMA KeptOfNone == ASSUME NEW S PROVE Shown!Kept(<<>>, S) = <<>>
PROOF
<1> DEFINE k == CHOOSE k : Filters(k, <<>>, S, Len(<<>>))
<1>1. Filters(k, <<>>, S, Len(<<>>))
  <2>1. Len(<<>>) \in Nat
    OBVIOUS
  <2> QED
    BY <2>1, FilterExists
<1>2. Shown!Kept(<<>>, S) = k[Len(<<>>)]
  BY DEF Shown!Kept, Filters
<1> HIDE DEF k
<1>3. k[0] = <<>> /\ Len(<<>>) = 0
  BY <1>1 DEF Filters
<1> QED
  BY <1>2, <1>3

LEMMA KeptOfAppend ==
    ASSUME NEW A, NEW q \in Seq(A), NEW e \in A, NEW S
    PROVE  Shown!Kept(Append(q, e), S) = IF e \in S THEN Append(Shown!Kept(q, S), e) ELSE Shown!Kept(q, S)
PROOF
<1> DEFINE r == Append(q, e)
           k == CHOOSE k : Filters(k, r, S, Len(r))
           l == CHOOSE l : Filters(l, q, S, Len(q))
<1>1. Len(r) = Len(q) + 1 /\ r[Len(q) + 1] = e /\ Len(q) \in Nat /\ \A i \in 1..Len(q) : r[i] = q[i]
  OBVIOUS
<1> HIDE DEF r
<1>2. Filters(k, r, S, Len(r)) /\ Filters(l, q, S, Len(q))
  <2>1. Len(r) \in Nat
    BY <1>1
  <2> QED
    BY <1>1, <2>1, FilterExists
<1>3. Shown!Kept(r, S) = k[Len(r)] /\ Shown!Kept(q, S) = l[Len(q)]
  BY DEF Shown!Kept, Filters
<1> HIDE DEF k, l
<1>4. k[Len(q)] = l[Len(q)]
  <2>1. Len(r) \in Nat /\ Len(q) <= Len(r) /\ Len(q) \in 0..Len(q)
    BY <1>1
  <2>2. Filters(k, r, S, Len(r)) /\ Filters(l, q, S, Len(q)) /\ Len(q) \in Nat /\ \A i \in 1..Len(q) : r[i] = q[i]
    BY <1>1, <1>2
  <2> DEFINE m == Len(r)
             n == Len(q)
  <2>4. m \in Nat /\ n \in Nat /\ n <= m /\ Filters(k, r, S, m) /\ Filters(l, q, S, n) /\ \A i \in 1..n : r[i] = q[i]
    BY <2>1, <2>2
  <2> HIDE DEF m, n
  <2>5. \A i \in 0..n : k[i] = l[i]
    BY <2>4, FilterUnique, SMTT(60)
  <2>3. \A i \in 0..Len(q) : k[i] = l[i]
    BY <2>5 DEF n
  <2> QED
    BY <2>1, <2>3
<1>5. k[Len(r)] = IF e \in S THEN Append(k[Len(q)], e) ELSE k[Len(q)]
  <2>1. Len(r) \in 0..Len(r) /\ Len(r) # 0 /\ Len(r) - 1 = Len(q) /\ r[Len(r)] = e
    BY <1>1
  <2> QED
    BY <1>2, <2>1 DEF Filters
<1> QED
  BY <1>3, <1>4, <1>5 DEF r

\* To filter twice is to filter once with the stricter test.
LEMMA KeptTwice ==
    ASSUME NEW A, NEW b \in Seq(A), NEW S, NEW T, T \subseteq S
    PROVE  Shown!Kept(Shown!Kept(b, S), T) = Shown!Kept(b, T)
PROOF
<1> DEFINE k == CHOOSE k : Filters(k, b, S, Len(b))
           l == CHOOSE l : Filters(l, b, T, Len(b))
<1>1. Len(b) \in Nat
  OBVIOUS
<1>2. Filters(k, b, S, Len(b)) /\ Filters(l, b, T, Len(b))
  BY <1>1, FilterExists
<1>3. Shown!Kept(b, S) = k[Len(b)] /\ Shown!Kept(b, T) = l[Len(b)]
  BY DEF Shown!Kept, Filters
<1> HIDE DEF k, l
<1> DEFINE G == {i \in Nat : i <= Len(b) => Shown!Kept(k[i], T) = l[i]}
<1>4. 0 \in G
  <2>1. k[0] = <<>> /\ l[0] = <<>>
    BY <1>1, <1>2 DEF Filters
  <2> QED
    BY <2>1, KeptOfNone
<1>5. ASSUME NEW i \in Nat, i \in G PROVE i + 1 \in G
  <2> SUFFICES ASSUME i + 1 <= Len(b)
               PROVE  Shown!Kept(k[i + 1], T) = l[i + 1]
    OBVIOUS
  <2> DEFINE e == b[i + 1]
  <2>1. i + 1 \in 0..Len(b) /\ i \in 0..Len(b) /\ i + 1 # 0 /\ (i + 1) - 1 = i /\ Shown!Kept(k[i], T) = l[i] /\ e \in A
    BY <1>5
  <2>2. k[i + 1] = IF e \in S THEN Append(k[i], e) ELSE k[i]
    BY <1>2, <2>1 DEF Filters
  <2>3. l[i + 1] = IF e \in T THEN Append(l[i], e) ELSE l[i]
    BY <1>2, <2>1 DEF Filters
  <2>4. k[i] \in Seq(A)
    BY <1>2, <2>1, FilterPrefix
  <2> HIDE DEF e
  <2>5. Shown!Kept(Append(k[i], e), T) = IF e \in T THEN Append(Shown!Kept(k[i], T), e) ELSE Shown!Kept(k[i], T)
    BY <2>1, <2>4, KeptOfAppend
  <2> QED
    BY <2>1, <2>2, <2>3, <2>5
<1>6. Nat \subseteq G
  <2> HIDE DEF G
  <2> QED
    BY <1>4, <1>5, Induction
<1>7. Shown!Kept(k[Len(b)], T) = l[Len(b)]
  BY <1>1, <1>6
<1> QED
  BY <1>3, <1>7
-------------------------------------------------------------------------------
(* The snapshots the widget is shown                                          *)

Toasts == [id : Sources \cup Friends, stamp : 1..MaxPushes]
Messages == [channel : Channels, stamp : 1..MaxPushes]
FriendLists == [connected : BOOLEAN, friends : SUBSET Friends]
Snaps == [base : FriendLists, toasts : Seq(Toasts), channel : Channels \cup {"none"},
          voice : Seq(Messages), reset : 0..MaxResets]
Watches == [pc : {"idle", "set", "toasts"}, tick : 0..(RefreshEvery - 1), cached : SUBSET Friends,
            inited : BOOLEAN, got : FriendLists, fresh : BOOLEAN, toast : SUBSET Friends]
Widgets == [pc : {"off", "send", "sending", "wait"}, notified : BOOLEAN, seen : Snaps]

\* The snapshot without what is over by E.
Without(s, E) ==
    [base |-> s.base, toasts |-> Shown!Kept(s.toasts, {t \in Toasts : t.stamp \notin E}), channel |-> s.channel,
     voice |-> Shown!Kept(s.voice, {t \in Messages : t.stamp \notin E}), reset |-> s.reset]

Bounded(s) == Len(s.toasts) <= MaxToasts /\ Len(s.voice) <= MaxVoice
OneChannel(s) == \A m \in Shown!Elements(s.voice) : m.channel = s.channel

SnapshotTypes ==
    /\ online \subseteq Friends /\ steady \subseteq online /\ greeted \subseteq steady
    /\ snap \in Snaps /\ Bounded(snap)
    /\ watch \in Watches /\ widgetClient \in Widgets
    /\ expired \subseteq 1..stamp /\ stamp \in 0..MaxPushes

\* What the widget was sent, or is being sent, is what there is to show, or it has
\* been notified.
Current ==
    widgetClient.pc \in {"sending", "wait"} /\ ~ widgetClient.notified =>
        Without(widgetClient.seen, expired) = Without(snap, expired)

\* Unless a list was made up, the friends who have been there all along are in the
\* list the watcher remembers and in the one it has just got, and are not announced.
Remembered ==
    /\ missed \in BOOLEAN
    /\ ~ missed /\ watch.inited => steady \subseteq watch.cached
    /\ ~ missed /\ watch.pc = "set" /\ watch.fresh /\ watch.got.connected => steady \subseteq watch.got.friends
    /\ ~ missed /\ watch.pc = "toasts" => watch.toast \cap steady = {}

ShownInv ==
    /\ SnapshotTypes /\ Current /\ OneChannel(snap) /\ Remembered
    /\ Shown!NothingOverrun /\ Shown!Baseline

-------------------------------------------------------------------------------
(* Pruning                                                                    *)

LEMMA PrunedIs ==
    ASSUME NEW s \in Snaps
    PROVE  Shown!Pruned(s) = Without(s, expired)
PROOF
<1> DEFINE T == {t \in Toasts : t.stamp \notin expired}
           M == {t \in Messages : t.stamp \notin expired}
           toasts == Shown!Kept(s.toasts, T)
           voice == Shown!Kept(s.voice, M)
           q == [s EXCEPT !.toasts = toasts]
<1>1. Shown!Pruned(s) = [s EXCEPT !.toasts = toasts, !.voice = voice]
  BY Zenon DEF Shown!Pruned, Shown!Live, Shown!Toast, Shown!Message, Toasts, Messages
<1>2. Without(s, expired) = [base |-> s.base, toasts |-> toasts, channel |-> s.channel, voice |-> voice, reset |-> s.reset]
  BY Zenon DEF Without
<1> HIDE DEF toasts, voice
<1>3. s = [base |-> s.base, toasts |-> s.toasts, channel |-> s.channel, voice |-> s.voice, reset |-> s.reset]
  BY DEF Snaps
<1>4. q = [base |-> s.base, toasts |-> toasts, channel |-> s.channel, voice |-> s.voice, reset |-> s.reset]
  BY <1>3
<1>5. Shown!Pruned(s) = [q EXCEPT !.voice = voice]
  BY <1>1
<1> HIDE DEF q
<1> QED
  BY <1>2, <1>4, <1>5

LEMMA WithoutIsTyped ==
    ASSUME NEW s \in Snaps, NEW E
    PROVE  /\ Without(s, E) \in Snaps
           /\ Without(s, E).base = s.base /\ Without(s, E).channel = s.channel
           /\ Without(s, E).reset = s.reset
           /\ Bounded(s) => Bounded(Without(s, E))
           /\ OneChannel(s) => OneChannel(Without(s, E))
PROOF
<1> DEFINE T == {t \in Toasts : t.stamp \notin E}
           M == {t \in Messages : t.stamp \notin E}
           toasts == Shown!Kept(s.toasts, T)
           voice == Shown!Kept(s.voice, M)
<1>1. s.toasts \in Seq(Toasts) /\ s.voice \in Seq(Messages)
  BY DEF Snaps
<1>2. toasts \in Seq(Toasts) /\ Len(toasts) <= Len(s.toasts)
  <2> HIDE DEF T
  <2> QED
    BY <1>1, KeptElements
<1>3. voice \in Seq(Messages) /\ Len(voice) <= Len(s.voice) /\ Shown!Elements(voice) \subseteq Shown!Elements(s.voice)
  <2> HIDE DEF M
  <2> QED
    BY <1>1, KeptElements
<1> HIDE DEF toasts, voice
<1>4. Without(s, E) = [base |-> s.base, toasts |-> toasts, channel |-> s.channel, voice |-> voice, reset |-> s.reset]
  BY DEF Without, toasts, voice
<1>5. Without(s, E) \in Snaps
  BY <1>2, <1>3, <1>4 DEF Snaps
<1>6. /\ Without(s, E).base = s.base /\ Without(s, E).channel = s.channel /\ Without(s, E).reset = s.reset
      /\ Without(s, E).toasts = toasts /\ Without(s, E).voice = voice
  BY <1>4
<1>7. Bounded(s) => Bounded(Without(s, E))
  BY <1>1, <1>2, <1>3, <1>6, PushesAreCounted DEF Bounded
<1>8. OneChannel(s) => OneChannel(Without(s, E))
  BY <1>3, <1>6 DEF OneChannel
<1> QED
  BY <1>5, <1>6, <1>7, <1>8

\* To prune twice is to prune once, by what is over at last.
LEMMA WithoutTwice ==
    ASSUME NEW s \in Snaps, NEW E, NEW F, E \subseteq F
    PROVE  Without(Without(s, E), F) = Without(s, F)
PROOF
<1> DEFINE TE == {t \in Toasts : t.stamp \notin E}
           TF == {t \in Toasts : t.stamp \notin F}
           ME == {t \in Messages : t.stamp \notin E}
           MF == {t \in Messages : t.stamp \notin F}
           w == Without(s, E)
<1>1. s.toasts \in Seq(Toasts) /\ s.voice \in Seq(Messages)
  BY DEF Snaps
<1>2. TF \subseteq TE /\ MF \subseteq ME
  OBVIOUS
<1>3. /\ w.base = s.base /\ w.channel = s.channel /\ w.reset = s.reset
      /\ w.toasts = Shown!Kept(s.toasts, TE) /\ w.voice = Shown!Kept(s.voice, ME)
  BY DEF Without
<1>4. Without(w, F) = [base |-> w.base, toasts |-> Shown!Kept(w.toasts, TF), channel |-> w.channel,
                       voice |-> Shown!Kept(w.voice, MF), reset |-> w.reset]
  BY Zenon DEF Without
<1>5. Without(s, F) = [base |-> s.base, toasts |-> Shown!Kept(s.toasts, TF), channel |-> s.channel,
                       voice |-> Shown!Kept(s.voice, MF), reset |-> s.reset]
  BY Zenon DEF Without
<1> HIDE DEF TE, TF, ME, MF, w
<1>6. Shown!Kept(w.toasts, TF) = Shown!Kept(s.toasts, TF) /\ Shown!Kept(w.voice, MF) = Shown!Kept(s.voice, MF)
  BY <1>1, <1>2, <1>3, KeptTwice
<1> QED
  BY <1>3, <1>4, <1>5, <1>6 DEF w

LEMMA ShownInit == Shown!Init => ShownInv
PROOF
<1> SUFFICES ASSUME Shown!Init
             PROVE  ShownInv
  OBVIOUS
<1> USE PushesAreCounted
<1> DEFINE none == [connected |-> FALSE, friends |-> {}]
           blank == [base |-> none, toasts |-> <<>>, channel |-> "none", voice |-> <<>>, reset |-> 0]
<1>1. /\ online \subseteq Friends /\ steady = online /\ greeted = {} /\ snap = blank /\ expired = {} /\ stamp = 0
      /\ watch = [pc |-> "idle", tick |-> 0, cached |-> {}, inited |-> FALSE, got |-> none,
                  fresh |-> FALSE, toast |-> {}]
      /\ widgetClient = [pc |-> "off", notified |-> FALSE, seen |-> blank]
  BY DEF Shown!Init, Shown!Blank, Shown!Nothing, Shown!Base
<1>2. none \in FriendLists
  BY DEF FriendLists
<1>3. blank \in Snaps /\ Bounded(blank)
  BY <1>2 DEF Snaps, Bounded
<1>4. OneChannel(blank)
  BY DEF OneChannel, Shown!Elements
<1> HIDE DEF none, blank
<1>5. watch \in Watches /\ widgetClient \in Widgets
  BY <1>1, <1>2, <1>3 DEF Watches, Widgets
<1>6. SnapshotTypes
  BY <1>1, <1>3, <1>5 DEF SnapshotTypes
<1>7. widgetClient.pc = "off" /\ watch.pc = "idle"
  BY <1>1
<1>8. ~ watch.inited
  BY <1>1, Zenon
<1>9. missed = FALSE /\ overrun = {}
  BY Zenon DEF Shown!Init
<1>10. Current
  BY <1>7 DEF Current
<1>11. Remembered
  BY <1>7, <1>8, <1>9, Zenon DEF Remembered
<1>12. Shown!NothingOverrun /\ Shown!Baseline
  BY <1>1, <1>9, Zenon DEF Shown!NothingOverrun, Shown!Baseline
<1> QED
  BY <1>1, <1>4, <1>6, <1>10, <1>11, <1>12 DEF ShownInv

\* A change that the widget is notified of, or that shows the same.
LEMMA NotifyCurrent ==
    ASSUME SnapshotTypes, Current, NEW before, NEW after, Shown!Notify(before, after),
           Without(before, expired) = Without(snap, expired), snap' = after, after \in Snaps, UNCHANGED expired
    PROVE  widgetClient' \in Widgets /\ Current'
PROOF
<1> DEFINE n == widgetClient.notified \/ (widgetClient.pc # "off" /\ before # after)
<1>1. widgetClient \in Widgets
  BY DEF SnapshotTypes
<1>2. widgetClient' = [widgetClient EXCEPT !.notified = n]
  BY Zenon DEF Shown!Notify
<1>3. n \in BOOLEAN
  BY Zenon
<1>5. n <=> widgetClient.notified \/ (widgetClient.pc # "off" /\ before # after)
  BY Zenon
<1> HIDE DEF n
<1>4. /\ widgetClient' \in Widgets /\ widgetClient'.pc = widgetClient.pc
      /\ widgetClient'.seen = widgetClient.seen /\ widgetClient'.notified = n
  BY <1>1, <1>2, <1>3 DEF Widgets
<1>6. ASSUME widgetClient'.pc \in {"sending", "wait"}, ~ widgetClient'.notified
      PROVE  Without(widgetClient'.seen, expired') = Without(snap', expired')
  <2>1. widgetClient.pc \in {"sending", "wait"} /\ widgetClient.pc # "off"
    BY <1>4, <1>6
  <2>2. ~ n
    BY <1>4, <1>6, Zenon
  <2>3. ~ widgetClient.notified /\ before = after
    BY <1>5, <2>1, <2>2, Zenon
  <2>4. Without(widgetClient.seen, expired) = Without(snap, expired)
    BY <2>1, <2>3, Zenon DEF Current
  <2> QED
    BY <1>4, <2>3, <2>4
<1> QED
  BY <1>4, <1>6, Zenon DEF Current

\* A change of what is pushed leaves the watcher alone.
LEMMA PushedStep ==
    ASSUME ShownInv, NEW new \in Snaps, Shown!Change(new), Bounded(new), OneChannel(new),
           stamp' \in stamp..MaxPushes
    PROVE  ShownInv'
PROOF
<1>1. SnapshotTypes /\ Current /\ Remembered /\ Shown!NothingOverrun /\ Shown!Baseline
  BY DEF ShownInv
<1>2. /\ snap' = new /\ Shown!Notify(snap, new)
      /\ UNCHANGED <<online, watch, expired, steady, greeted, missed, overrun>>
  BY DEF Shown!Change, Shown!historyVars
<1>3. widgetClient' \in Widgets /\ Current'
  BY <1>1, <1>2, NotifyCurrent
<1>4. SnapshotTypes'
  <2>1. stamp' \in 0..MaxPushes /\ 1..stamp \subseteq 1..stamp'
    BY <1>1, PushesAreCounted DEF SnapshotTypes
  <2> QED
    BY <1>1, <1>2, <1>3, <2>1 DEF SnapshotTypes, Bounded
<1>5. OneChannel(snap)'
  BY <1>2 DEF OneChannel
<1>6. Remembered' /\ Shown!NothingOverrun' /\ Shown!Baseline'
  BY <1>1, <1>2, Zenon DEF Remembered, Shown!NothingOverrun, Shown!Baseline
<1> QED
  BY <1>3, <1>4, <1>5, <1>6 DEF ShownInv

\* The last ones of a list.
LEMMA LastOfIs ==
    ASSUME NEW A, NEW q \in Seq(A), NEW n \in Nat
    PROVE  /\ Shown!LastOf(q, n) \in Seq(A) /\ Len(Shown!LastOf(q, n)) <= n
           /\ Shown!Elements(Shown!LastOf(q, n)) \subseteq Shown!Elements(q)
PROOF
<1> DEFINE m == IF Len(q) > n THEN Len(q) - n + 1 ELSE 1
           r == SubSeq(q, m, Len(q))
<1>1. m \in Nat \ {0} /\ m <= Len(q) + 1 /\ Len(q) - m + 1 <= n /\ Len(q) - m + 1 \in Nat
  OBVIOUS
<1> HIDE DEF m
<1>2. r \in Seq(A) /\ Len(r) = Len(q) - m + 1 /\ \A i \in 1..Len(r) : r[i] = q[m + i - 1]
  BY <1>1, SubSeqProperties
<1>3. Shown!Elements(r) \subseteq Shown!Elements(q)
  <2>1. ASSUME NEW i \in 1..Len(r) PROVE r[i] = q[m + i - 1] /\ m + i - 1 \in 1..Len(q)
    BY <1>1, <1>2
  <2> QED
    BY <2>1 DEF Shown!Elements
<1>4. Shown!LastOf(q, n) = r
  BY DEF Shown!LastOf, m
<1> QED
  BY <1>1, <1>2, <1>3, <1>4

LEMMA ToastStep ==
    ASSUME ShownInv, NEW id \in Sources, Shown!PushToast(id) \/ Shown!RemoveToast(id)
    PROVE  ShownInv'
PROOF
<1> USE PushesAreCounted
<1>1. SnapshotTypes /\ OneChannel(snap)
  BY DEF ShownInv
<1>2. snap \in Snaps /\ Bounded(snap) /\ stamp \in 0..MaxPushes
  BY <1>1 DEF SnapshotTypes
<1>3. CASE Shown!PushToast(id)
  <2> DEFINE t == [id |-> id, stamp |-> stamp + 1]
             s == Without(snap, expired)
  <2>1. stamp < MaxPushes /\ stamp' = stamp + 1 /\ Shown!Change(Shown!WithToast(Shown!Pruned(snap), t))
    BY <1>3 DEF Shown!PushToast
  <2>2. t \in Toasts /\ t.id = id
    BY <1>2, <2>1 DEF Toasts
  <2>3. Shown!Pruned(snap) = s
    BY <1>2, PrunedIs
  <2>4. s \in Snaps /\ Bounded(s) /\ OneChannel(s)
    BY <1>1, <1>2, WithoutIsTyped
  <2> HIDE DEF s, t
  <2> DEFINE same == {i \in DOMAIN s.toasts : s.toasts[i].id = t.id}
             w == Shown!WithToast(s, t)
  <2>5. w = IF same = {} THEN [s EXCEPT !.toasts = Shown!LastOf(Append(s.toasts, t), MaxToasts)]
            ELSE [s EXCEPT !.toasts = [s.toasts EXCEPT ![CHOOSE i \in same : TRUE] = IF t.id = Sticky THEN @ ELSE t]]
    BY DEF Shown!WithToast
  <2>6. \E q \in Seq(Toasts) : Len(q) <= MaxToasts /\ w = [s EXCEPT !.toasts = q]
    <3>1. s.toasts \in Seq(Toasts) /\ Len(s.toasts) <= MaxToasts
      BY <2>4 DEF Snaps, Bounded
    <3>2. CASE same = {}
      <4> DEFINE q == Append(s.toasts, t)
      <4>1. q \in Seq(Toasts)
        BY <2>2, <3>1
      <4> HIDE DEF q
      <4>2. Shown!LastOf(q, MaxToasts) \in Seq(Toasts) /\ Len(Shown!LastOf(q, MaxToasts)) <= MaxToasts
        BY <4>1, LastOfIs
      <4> QED
        BY <2>5, <3>2, <4>2 DEF q
    <3>3. CASE same # {}
      <4> DEFINE c == CHOOSE i \in same : TRUE
                 q == [s.toasts EXCEPT ![c] = IF t.id = Sticky THEN @ ELSE t]
      <4>1. c \in DOMAIN s.toasts
        BY <3>3
      <4> HIDE DEF c
      <4>2. q = [s.toasts EXCEPT ![c] = IF t.id = Sticky THEN s.toasts[c] ELSE t]
        OBVIOUS
      <4>3. s.toasts[c] \in Toasts
        BY <3>1, <4>1
      <4>4. q \in Seq(Toasts) /\ Len(q) = Len(s.toasts)
        BY <2>2, <3>1, <4>1, <4>2, <4>3
      <4>5. w = [s EXCEPT !.toasts = q]
        BY <2>5, <3>3 DEF c
      <4> HIDE DEF q, w
      <4> QED
        BY <3>1, <4>4, <4>5
    <3> QED
      BY <3>2, <3>3
  <2> HIDE DEF w
  <2>7. PICK q \in Seq(Toasts) : Len(q) <= MaxToasts /\ w = [s EXCEPT !.toasts = q]
    BY <2>6
  <2>8. w \in Snaps /\ w.toasts = q /\ w.voice = s.voice /\ w.channel = s.channel
    BY <2>4, <2>7 DEF Snaps
  <2>9. Bounded(w) /\ OneChannel(w)
    BY <2>4, <2>7, <2>8 DEF Bounded, OneChannel
  <2>10. stamp' \in stamp..MaxPushes
    BY <1>2, <2>1
  <2>11. Shown!Change(w)
    BY <2>1, <2>3 DEF w, t
  <2> QED
    BY <2>8, <2>9, <2>10, <2>11, PushedStep
<1>4. CASE Shown!RemoveToast(id)
  <2> DEFINE T == {t \in Toasts : t.id # id}
             q == Shown!Kept(snap.toasts, T)
             w == [snap EXCEPT !.toasts = q]
  <2>1. Shown!Change(w) /\ stamp' = stamp
    BY <1>4 DEF Shown!RemoveToast, Shown!Toast, Toasts
  <2>2. snap.toasts \in Seq(Toasts)
    BY <1>2 DEF Snaps
  <2>3. q \in Seq(Toasts) /\ Len(q) <= Len(snap.toasts)
    <3> HIDE DEF T
    <3> QED
      BY <2>2, KeptElements
  <2> HIDE DEF q
  <2>4. w \in Snaps /\ w.toasts = q /\ w.voice = snap.voice /\ w.channel = snap.channel
    BY <1>2, <2>3 DEF Snaps
  <2> HIDE DEF w
  <2>5. Bounded(w) /\ OneChannel(w)
    BY <1>1, <1>2, <2>2, <2>3, <2>4 DEF Bounded, OneChannel
  <2>6. stamp' \in stamp..MaxPushes
    BY <1>2, <2>1
  <2> QED
    BY <2>1, <2>4, <2>5, <2>6, PushedStep
<1> QED
  BY <1>3, <1>4

LEMMA VoiceSet ==
    ASSUME NEW s \in Snaps, NEW c, NEW r
    PROVE  [s EXCEPT !.channel = c, !.voice = r] =
               [base |-> s.base, toasts |-> s.toasts, channel |-> c, voice |-> r, reset |-> s.reset]
PROOF
<1> DEFINE q == [s EXCEPT !.channel = c]
<1>1. s = [base |-> s.base, toasts |-> s.toasts, channel |-> s.channel, voice |-> s.voice, reset |-> s.reset]
  BY DEF Snaps
<1>2. q = [base |-> s.base, toasts |-> s.toasts, channel |-> c, voice |-> s.voice, reset |-> s.reset]
  BY <1>1
<1>3. [s EXCEPT !.channel = c, !.voice = r] = [q EXCEPT !.voice = r]
  OBVIOUS
<1> HIDE DEF q
<1> QED
  BY <1>2, <1>3

LEMMA VoiceStep ==
    ASSUME ShownInv, NEW c \in Channels, Shown!PushVoice(c)
    PROVE  ShownInv'
PROOF
<1> USE PushesAreCounted
<1>1. SnapshotTypes /\ OneChannel(snap)
  BY DEF ShownInv
<1>2. snap \in Snaps /\ Bounded(snap) /\ stamp \in 0..MaxPushes
  BY <1>1 DEF SnapshotTypes
<1> DEFINE m == [channel |-> c, stamp |-> stamp + 1]
           s == Without(snap, expired)
           q == Append(Shown!KeepsVoice(s, c), m)
           r == Shown!LastOf(q, MaxVoice)
           w == [s EXCEPT !.channel = c, !.voice = r]
<1>3. Shown!Pruned(snap) = s
  BY <1>2, PrunedIs
<1>4. s \in Snaps /\ Bounded(s) /\ OneChannel(s)
  BY <1>1, <1>2, WithoutIsTyped
<1>5. stamp < MaxPushes /\ stamp' = stamp + 1 /\ Shown!Change(w)
  <2> HIDE DEF s
  <2> QED
    BY <1>3 DEF Shown!PushVoice
<1>6. m \in Messages /\ m.channel = c
  BY <1>2, <1>5 DEF Messages
<1> HIDE DEF s, m
<1>7. /\ Shown!KeepsVoice(s, c) \in Seq(Messages)
      /\ \A x \in Shown!Elements(Shown!KeepsVoice(s, c)) : x.channel = c
  <2>1. s.voice \in Seq(Messages) /\ Shown!Elements(<<>>) = {}
    BY <1>4 DEF Snaps, Shown!Elements
  <2>2. CASE s.channel = c
    BY <1>4, <2>1, <2>2 DEF Shown!KeepsVoice, OneChannel
  <2>3. CASE s.channel # c
    BY <2>1, <2>3 DEF Shown!KeepsVoice
  <2> QED
    BY <2>2, <2>3
<1>8. q \in Seq(Messages) /\ \A x \in Shown!Elements(q) : x.channel = c
  <2> DEFINE k == Shown!KeepsVoice(s, c)
  <2>1. k \in Seq(Messages)
    BY <1>7
  <2>3. \A x \in Shown!Elements(k) : x.channel = c
    BY <1>7
  <2> HIDE DEF k
  <2>2. Shown!Elements(Append(k, m)) = Shown!Elements(k) \cup {m}
    BY <1>6, <2>1, ElementsOfAppend
  <2> QED
    BY <1>6, <2>1, <2>2, <2>3 DEF k
<1> HIDE DEF q
<1>9. r \in Seq(Messages) /\ Len(r) <= MaxVoice /\ Shown!Elements(r) \subseteq Shown!Elements(q)
  BY <1>8, LastOfIs
<1> HIDE DEF r
<1>10. /\ w \in Snaps /\ w.toasts = s.toasts /\ w.voice = r /\ w.channel = c
  <2>1. w = [base |-> s.base, toasts |-> s.toasts, channel |-> c, voice |-> r, reset |-> s.reset]
    BY <1>4, VoiceSet
  <2> HIDE DEF w
  <2> QED
    BY <1>4, <1>9, <2>1 DEF Snaps
<1> HIDE DEF w
<1>11. Bounded(w) /\ OneChannel(w)
  BY <1>4, <1>8, <1>9, <1>10 DEF Bounded, OneChannel
<1>12. stamp' \in stamp..MaxPushes
  BY <1>2, <1>5
<1> QED
  BY <1>5, <1>10, <1>11, <1>12, PushedStep

LEMMA ClearStep ==
    ASSUME ShownInv,
           \/ \E m \in Shown!Elements(snap.voice) : Shown!PushKnownVoice(m)
           \/ Shown!ClearVoice \/ Shown!ResetTutorial
    PROVE  ShownInv'
PROOF
<1> USE PushesAreCounted
<1>1. SnapshotTypes /\ OneChannel(snap)
  BY DEF ShownInv
<1>2. snap \in Snaps /\ Bounded(snap) /\ stamp \in 0..MaxPushes
  BY <1>1 DEF SnapshotTypes
<1>3. stamp' = stamp /\ stamp' \in stamp..MaxPushes
  BY <1>2 DEF Shown!PushKnownVoice, Shown!ClearVoice, Shown!ResetTutorial
<1>4. ASSUME NEW m \in Shown!Elements(snap.voice), Shown!PushKnownVoice(m)
      PROVE  ShownInv'
  <2>1. Shown!Change(Shown!Pruned(snap))
    BY <1>4 DEF Shown!PushKnownVoice
  <2>2. Shown!Change(Without(snap, expired))
    BY <1>2, <2>1, PrunedIs
  <2>3. Without(snap, expired) \in Snaps /\ Bounded(Without(snap, expired)) /\ OneChannel(Without(snap, expired))
    BY <1>1, <1>2, WithoutIsTyped
  <2> QED
    BY <1>3, <2>2, <2>3, PushedStep
<1>5. CASE Shown!ClearVoice
  <2> DEFINE w == [snap EXCEPT !.channel = "none", !.voice = <<>>]
  <2>1. Shown!Change(w)
    BY <1>5 DEF Shown!ClearVoice
  <2>2. w = [base |-> snap.base, toasts |-> snap.toasts, channel |-> "none", voice |-> <<>>, reset |-> snap.reset]
    BY <1>2, VoiceSet
  <2> HIDE DEF w
  <2>3. w \in Snaps /\ w.toasts = snap.toasts /\ w.voice = <<>>
    BY <1>2, <2>2 DEF Snaps
  <2>4. Bounded(w)
    BY <1>2, <2>3 DEF Bounded
  <2>5. OneChannel(w)
    BY <2>3 DEF OneChannel, Shown!Elements
  <2> QED
    BY <1>3, <2>1, <2>3, <2>4, <2>5, PushedStep
<1>6. CASE Shown!ResetTutorial
  <2> DEFINE w == [snap EXCEPT !.reset = snap.reset + 1]
  <2>1. Shown!Change(w) /\ snap.reset < MaxResets
    BY <1>6 DEF Shown!ResetTutorial
  <2>2. w \in Snaps /\ w.toasts = snap.toasts /\ w.voice = snap.voice /\ w.channel = snap.channel
    BY <1>2, <2>1 DEF Snaps
  <2> HIDE DEF w
  <2>3. Bounded(w) /\ OneChannel(w)
    BY <1>1, <1>2, <2>2 DEF Bounded, OneChannel
  <2> QED
    BY <1>3, <2>1, <2>2, <2>3, PushedStep
<1> QED
  BY <1>4, <1>5, <1>6

\* The snapshot shows the same when it is pruned.
LEMMA PrunedShowsTheSame ==
    ASSUME SnapshotTypes, Current, OneChannel(snap), snap' = Shown!Pruned(snap), UNCHANGED <<expired, widgetClient>>
    PROVE  snap' \in Snaps /\ Bounded(snap') /\ OneChannel(snap)' /\ Current'
PROOF
<1>1. snap \in Snaps /\ Bounded(snap)
  BY DEF SnapshotTypes
<1>2. snap' = Without(snap, expired)
  BY <1>1, PrunedIs
<1>3. snap' \in Snaps /\ Bounded(snap') /\ OneChannel(snap')
  BY <1>1, <1>2, WithoutIsTyped
<1>4. Without(snap', expired) = Without(snap, expired)
  BY <1>1, <1>2, WithoutTwice
<1>5. Current'
  BY <1>4, Zenon DEF Current
<1>6. OneChannel(snap)'
  BY <1>3 DEF OneChannel
<1> QED
  BY <1>3, <1>5, <1>6

LEMMA TimeStep ==
    ASSUME ShownInv,
           \/ Shown!Read \/ \E n \in 1..stamp : Shown!Expire(n)
           \/ \E f \in Friends : Shown!FriendComes(f) \/ Shown!FriendGoes(f)
    PROVE  ShownInv'
PROOF
<1>1. SnapshotTypes /\ Current /\ OneChannel(snap) /\ Remembered /\ Shown!NothingOverrun /\ Shown!Baseline
  BY DEF ShownInv
<1>2. CASE Shown!Read
  <2>1. snap' = Shown!Pruned(snap) /\ UNCHANGED <<online, watch, expired, stamp, widgetClient, steady, greeted, missed, overrun>>
    BY <1>2 DEF Shown!Read, Shown!historyVars
  <2>2. snap' \in Snaps /\ Bounded(snap') /\ OneChannel(snap)' /\ Current'
    BY <1>1, <2>1, PrunedShowsTheSame
  <2>3. SnapshotTypes'
    BY <1>1, <2>1, <2>2 DEF SnapshotTypes, Bounded
  <2>4. Remembered' /\ Shown!NothingOverrun' /\ Shown!Baseline'
    BY <1>1, <2>1, Zenon DEF Remembered, Shown!NothingOverrun, Shown!Baseline
  <2> QED
    BY <2>2, <2>3, <2>4 DEF ShownInv
<1>3. ASSUME NEW n \in 1..stamp, Shown!Expire(n)
      PROVE  ShownInv'
  <2>1. /\ expired' = expired \cup {n}
        /\ UNCHANGED <<online, snap, watch, stamp, widgetClient, steady, greeted, missed, overrun>>
    BY <1>3 DEF Shown!Expire, Shown!historyVars
  <2>2. SnapshotTypes' /\ OneChannel(snap)'
    BY <1>1, <2>1 DEF SnapshotTypes, Bounded, OneChannel
  <2>3. Remembered' /\ Shown!NothingOverrun' /\ Shown!Baseline'
    BY <1>1, <2>1, Zenon DEF Remembered, Shown!NothingOverrun, Shown!Baseline
  <2>4. snap \in Snaps /\ widgetClient.seen \in Snaps /\ expired \subseteq expired'
    BY <1>1, <2>1 DEF SnapshotTypes, Widgets
  <2>5. /\ Without(Without(snap, expired), expired') = Without(snap, expired')
        /\ Without(Without(widgetClient.seen, expired), expired') = Without(widgetClient.seen, expired')
    BY <2>4, WithoutTwice
  <2>6. widgetClient' = widgetClient /\ snap' = snap
    BY <2>1
  <2>7. Current'
    BY <1>1, <2>5, <2>6, Zenon DEF Current
  <2> QED
    BY <2>2, <2>3, <2>7 DEF ShownInv
<1>4. ASSUME NEW f \in Friends, Shown!FriendComes(f) \/ Shown!FriendGoes(f)
      PROVE  ShownInv'
  <2>1. UNCHANGED <<snap, watch, expired, stamp, widgetClient, missed, overrun>>
    BY <1>4 DEF Shown!FriendComes, Shown!FriendGoes, Shown!historyVars
  <2>2. /\ online' \subseteq Friends /\ steady' \subseteq online' /\ greeted' \subseteq steady'
        /\ steady' \subseteq steady /\ greeted' \subseteq greeted
    BY <1>1, <1>4 DEF Shown!FriendComes, Shown!FriendGoes, Shown!historyVars, SnapshotTypes
  <2>3. SnapshotTypes' /\ OneChannel(snap)'
    BY <1>1, <2>1, <2>2 DEF SnapshotTypes, Bounded, OneChannel
  <2>4. Current'
    BY <1>1, <2>1, Zenon DEF Current
  <2>5. watch' = watch /\ missed' = missed /\ overrun' = overrun
    BY <2>1
  <2>6. ASSUME watch.toast \cap steady = {} PROVE watch'.toast \cap steady' = {}
    BY <2>2, <2>5, <2>6
  <2>7. ASSUME NEW X, steady \subseteq X PROVE steady' \subseteq X
    BY <2>2, <2>7
  <2>8. Remembered'
    BY <1>1, <2>5, <2>6, <2>7, Zenon DEF Remembered
  <2>9. greeted = {} => greeted' = {}
    BY <2>2
  <2>10. Shown!NothingOverrun' /\ Shown!Baseline'
    BY <1>1, <2>5, <2>9, Zenon DEF Shown!NothingOverrun, Shown!Baseline
  <2> QED
    BY <2>3, <2>4, <2>8, <2>10 DEF ShownInv
<1> QED
  BY <1>2, <1>3, <1>4

\* The collected part is typed, and no list is taken for read that was not.
LEMMA CollectStep ==
    ASSUME ShownInv,
           \/ \E known \in BOOLEAN : Shown!CollectNoClient(known) \/ Shown!CollectClient(known)
           \/ Shown!CollectUnusable
    PROVE  ShownInv'
PROOF
<1> USE PushesAreCounted
<1>1. SnapshotTypes /\ Current /\ OneChannel(snap) /\ Remembered /\ Shown!NothingOverrun /\ Shown!Baseline
  BY DEF ShownInv
<1>2. snap \in Snaps /\ watch \in Watches
  BY <1>1 DEF SnapshotTypes
<1>3. ASSUME NEW base \in FriendLists, NEW seen \in BOOLEAN, Shown!Collected(base, seen),
             snap' \in Snaps, Bounded(snap'), OneChannel(snap)', Current',
             seen /\ base.connected /\ Shown!Refresh => base.friends = online
      PROVE  ShownInv'
  <2> DEFINE refresh == Shown!Refresh
             made == refresh /\ ~ seen /\ (~ watch.inited \/ base.friends # watch.cached)
  <2>1. /\ watch' = [watch EXCEPT !.pc = "set", !.got = base, !.fresh = refresh]
        /\ UNCHANGED <<online, expired, stamp, widgetClient, steady, greeted, overrun>>
    BY <1>3 DEF Shown!Collected
  <2>2. missed' = (missed \/ made)
    BY <1>3, Zenon DEF Shown!Collected
  <2>3. refresh \in BOOLEAN /\ missed' \in BOOLEAN
    BY <2>2, Zenon DEF Shown!Refresh
  <2>4. made <=> refresh /\ ~ seen /\ (~ watch.inited \/ base.friends # watch.cached)
    BY Zenon
  <2>10. refresh => Shown!Refresh
    BY Zenon
  <2> HIDE DEF refresh, made
  <2>5. /\ watch' \in Watches /\ watch'.pc = "set" /\ watch'.got = base /\ watch'.fresh = refresh
        /\ watch'.inited = watch.inited /\ watch'.cached = watch.cached
    <3> DEFINE q == [watch EXCEPT !.pc = "set"]
               r == [q EXCEPT !.got = base]
    <3>1. q \in Watches /\ q.pc = "set" /\ q.inited = watch.inited /\ q.cached = watch.cached
      BY <1>2 DEF Watches
    <3>2. watch' = [[q EXCEPT !.got = base] EXCEPT !.fresh = refresh]
      BY <2>1
    <3> HIDE DEF q
    <3>3. r \in Watches /\ r.pc = "set" /\ r.inited = watch.inited /\ r.cached = watch.cached /\ r.got = base
      BY <3>1 DEF Watches
    <3>4. watch' = [r EXCEPT !.fresh = refresh]
      BY <3>2
    <3> HIDE DEF r
    <3> QED
      BY <2>3, <3>3, <3>4 DEF Watches
  <2>6. SnapshotTypes'
    BY <1>1, <1>3, <2>1, <2>5 DEF SnapshotTypes
  <2>7. steady \subseteq online
    BY <1>1 DEF SnapshotTypes
  <2>8. Remembered'
    <3>1. ~ missed' => ~ missed /\ ~ made
      BY <2>2, Zenon
    <3>2. watch'.pc # "toasts" /\ steady' = steady
      BY <2>1, <2>5
    <3>3. ~ missed' /\ watch'.inited => steady' \subseteq watch'.cached
      BY <1>1, <2>5, <3>1, <3>2, Zenon DEF Remembered
    <3>4. ASSUME ~ missed', watch'.fresh, watch'.got.connected
          PROVE  steady' \subseteq watch'.got.friends
      <4>1. refresh /\ base.connected
        BY <2>5, <3>4, Zenon
      <4>2. CASE seen
        BY <1>3, <2>5, <2>7, <2>10, <3>2, <4>1, <4>2
      <4>3. CASE ~ seen
        <5>1. watch.inited /\ base.friends = watch.cached
          BY <2>4, <3>1, <3>4, <4>1, <4>3, Zenon
        <5>2. steady \subseteq watch.cached
          BY <1>1, <3>1, <3>4, <5>1, Zenon DEF Remembered
        <5> QED
          BY <2>5, <3>2, <5>1, <5>2, Zenon
      <4> QED
        BY <4>2, <4>3
    <3> QED
      BY <2>3, <3>2, <3>3, <3>4, Zenon DEF Remembered
  <2>9. Shown!NothingOverrun' /\ Shown!Baseline'
    <3>1. overrun' = overrun /\ greeted' = greeted
      BY <2>1
    <3> QED
      BY <1>1, <2>2, <3>1, Zenon DEF Shown!NothingOverrun, Shown!Baseline
  <2> QED
    BY <1>3, <2>6, <2>8, <2>9 DEF ShownInv
<1>4. ASSUME snap' = snap, UNCHANGED <<expired, widgetClient>>
      PROVE  snap' \in Snaps /\ Bounded(snap') /\ OneChannel(snap)' /\ Current'
  <2>1. snap' \in Snaps /\ Bounded(snap') /\ OneChannel(snap)'
    BY <1>1, <1>4 DEF SnapshotTypes, OneChannel
  <2>2. Current'
    BY <1>1, <1>4, Zenon DEF Current
  <2> QED
    BY <2>1, <2>2
<1>5. ASSUME NEW base, NEW seen, Shown!Collected(base, seen)
      PROVE  UNCHANGED <<expired, widgetClient>>
  BY <1>5 DEF Shown!Collected
<1>6. ASSUME NEW known \in BOOLEAN, Shown!CollectNoClient(known)
      PROVE  ShownInv'
  <2> DEFINE base == IF known /\ snap.base.connected THEN snap.base ELSE Shown!Base(known, {})
  <2>1. snap' = Shown!Pruned(snap) /\ Shown!Collected(base, FALSE)
    BY <1>6 DEF Shown!CollectNoClient
  <2>2. base \in FriendLists
    <3>1. snap.base \in FriendLists /\ Shown!Base(known, {}) \in FriendLists
      BY <1>2 DEF Snaps, FriendLists, Shown!Base
    <3> QED
      BY <3>1, Zenon
  <2> HIDE DEF base
  <2>3. UNCHANGED <<expired, widgetClient>>
    BY <1>5, <2>1
  <2>4. snap' \in Snaps /\ Bounded(snap') /\ OneChannel(snap)' /\ Current'
    BY <1>1, <2>1, <2>3, PrunedShowsTheSame
  <2> DEFINE seen == FALSE
  <2>5. seen \in BOOLEAN /\ ~ seen /\ Shown!Collected(base, seen)
    BY <2>1
  <2> HIDE DEF seen
  <2> QED
    BY <1>3, <2>2, <2>4, <2>5
<1>7. CASE Shown!CollectUnusable
  <2> DEFINE base == [connected |-> FALSE, friends |-> {}]
             seen == TRUE
  <2>1. snap' = snap /\ Shown!Collected(base, seen)
    BY <1>7 DEF Shown!CollectUnusable, Shown!Nothing, Shown!Base
  <2>2. base \in FriendLists /\ seen \in BOOLEAN
    BY DEF FriendLists
  <2>3. ~ base.connected
    BY Zenon
  <2> HIDE DEF base, seen
  <2>4. snap' \in Snaps /\ Bounded(snap') /\ OneChannel(snap)' /\ Current'
    BY <1>4, <1>5, <2>1
  <2> QED
    BY <1>3, <2>1, <2>2, <2>3, <2>4
<1>8. ASSUME NEW known \in BOOLEAN, Shown!CollectClient(known)
      PROVE  ShownInv'
  <2> DEFINE base == [connected |-> TRUE, friends |-> IF Shown!Refresh /\ known THEN online ELSE watch.cached]
  <2>1. snap' = snap /\ Shown!Collected(base, known)
    BY <1>8 DEF Shown!CollectClient, Shown!Base
  <2>2. base \in FriendLists
    <3>1. online \subseteq Friends /\ watch.cached \subseteq Friends
      BY <1>1, <1>2 DEF SnapshotTypes, Watches
    <3> QED
      BY <3>1 DEF FriendLists
  <2>3. known => (Shown!Refresh => base.friends = online)
    BY Zenon
  <2> HIDE DEF base
  <2>4. snap' \in Snaps /\ Bounded(snap') /\ OneChannel(snap)' /\ Current'
    BY <1>4, <1>5, <2>1
  <2> QED
    BY <1>3, <2>1, <2>2, <2>3, <2>4
<1> QED
  BY <1>6, <1>7, <1>8

\* What is collected is set over what was pushed.
LEMMA SetStep == ASSUME ShownInv, Shown!SetSnapshot PROVE ShownInv'
PROOF
<1> USE PushesAreCounted
<1>1. SnapshotTypes /\ Current /\ OneChannel(snap) /\ Remembered /\ Shown!NothingOverrun /\ Shown!Baseline
  BY DEF ShownInv
<1>2. /\ snap \in Snaps /\ Bounded(snap) /\ watch \in Watches
      /\ online \subseteq Friends /\ steady \subseteq online /\ greeted \subseteq steady
  BY <1>1 DEF SnapshotTypes
<1> DEFINE got == watch.got
           kept == ~ watch.fresh \/ got.connected
           coming == IF Shown!Announces THEN got.friends \ watch.cached ELSE {}
           s == Without(snap, expired)
           pc == IF coming = {} THEN "idle" ELSE "toasts"
           tick == (watch.tick + 1) % RefreshEvery
           inited == IF watch.fresh THEN got.connected ELSE watch.inited
           cached == IF watch.fresh THEN IF got.connected THEN got.friends ELSE {} ELSE watch.cached
           none == [connected |-> FALSE, friends |-> {}]
           w == [pc |-> pc, tick |-> tick, cached |-> cached, inited |-> inited, got |-> none,
                 fresh |-> FALSE, toast |-> coming]
<1>3. /\ watch.pc = "set" /\ snap' = Shown!Merged(got) /\ Shown!Notify(snap, snap')
      /\ steady' = (IF kept THEN steady ELSE online) /\ greeted' = (IF kept THEN greeted ELSE {})
      /\ UNCHANGED <<online, expired, stamp>>
  BY DEF Shown!SetSnapshot
<1>4. missed' = (kept /\ missed)
  BY Zenon DEF Shown!SetSnapshot
<1>5. watch' = [watch EXCEPT
               !.pc = pc, !.toast = coming, !.got = none, !.fresh = FALSE, !.tick = tick,
               !.inited = inited, !.cached = cached]
  BY DEF Shown!SetSnapshot, Shown!Nothing, Shown!Base
<1>6. overrun' = overrun \cup ((Shown!Stamps(snap.toasts) \cup Shown!Stamps(snap.voice))
                               \ (Shown!Stamps(snap'.toasts) \cup Shown!Stamps(snap'.voice) \cup expired))
  BY DEF Shown!SetSnapshot
<1>7. got \in FriendLists /\ watch.cached \subseteq Friends /\ watch.tick \in Nat
  BY <1>2 DEF Watches
<1>8. s \in Snaps /\ Bounded(s) /\ OneChannel(s)
  BY <1>1, <1>2, WithoutIsTyped
<1>9. snap' = [s EXCEPT !.base = got]
  BY <1>2, <1>3, PrunedIs DEF Shown!Merged
<1> HIDE DEF s
<1>10. /\ snap' \in Snaps /\ snap'.toasts = s.toasts /\ snap'.voice = s.voice /\ snap'.channel = s.channel
       /\ snap' = [base |-> got, toasts |-> s.toasts, channel |-> s.channel, voice |-> s.voice, reset |-> s.reset]
  BY <1>7, <1>8, <1>9 DEF Snaps
<1>11. Bounded(snap') /\ OneChannel(snap)'
  BY <1>8, <1>10 DEF Bounded, OneChannel
<1>12. widgetClient' \in Widgets /\ Current'
  BY <1>1, <1>2, <1>3, <1>10, NotifyCurrent
<1>13. watch' = w
  <2> HIDE DEF pc, tick, inited, cached, coming, none, got
  <2>1. watch = [pc |-> watch.pc, tick |-> watch.tick, cached |-> watch.cached, inited |-> watch.inited,
                 got |-> watch.got, fresh |-> watch.fresh, toast |-> watch.toast]
    BY <1>2 DEF Watches
  <2> DEFINE off == FALSE
             w1 == [watch EXCEPT !.pc = pc]
             w2 == [w1 EXCEPT !.toast = coming]
             w3 == [w2 EXCEPT !.got = none]
             w4 == [w3 EXCEPT !.fresh = off]
             w5 == [w4 EXCEPT !.tick = tick]
             w6 == [w5 EXCEPT !.inited = inited]
             w7 == [w6 EXCEPT !.cached = cached]
  <2>2. watch' = w7
    BY <1>5, Zenon
  <2> HIDE DEF off
  <2>3. w1 = [pc |-> pc, tick |-> watch.tick, cached |-> watch.cached, inited |-> watch.inited,
              got |-> watch.got, fresh |-> watch.fresh, toast |-> watch.toast]
    BY <2>1
  <2> HIDE DEF w1
  <2>4. w2 = [pc |-> pc, tick |-> watch.tick, cached |-> watch.cached, inited |-> watch.inited,
              got |-> watch.got, fresh |-> watch.fresh, toast |-> coming]
    BY <2>3
  <2> HIDE DEF w2
  <2>5. w3 = [pc |-> pc, tick |-> watch.tick, cached |-> watch.cached, inited |-> watch.inited,
              got |-> none, fresh |-> watch.fresh, toast |-> coming]
    BY <2>4
  <2> HIDE DEF w3
  <2>6. w4 = [pc |-> pc, tick |-> watch.tick, cached |-> watch.cached, inited |-> watch.inited,
              got |-> none, fresh |-> off, toast |-> coming]
    BY <2>5
  <2> HIDE DEF w4
  <2>7. w5 = [pc |-> pc, tick |-> tick, cached |-> watch.cached, inited |-> watch.inited,
              got |-> none, fresh |-> off, toast |-> coming]
    BY <2>6
  <2> HIDE DEF w5
  <2>8. w6 = [pc |-> pc, tick |-> tick, cached |-> watch.cached, inited |-> inited,
              got |-> none, fresh |-> off, toast |-> coming]
    BY <2>7
  <2> HIDE DEF w6
  <2>9. w7 = [pc |-> pc, tick |-> tick, cached |-> cached, inited |-> inited,
              got |-> none, fresh |-> off, toast |-> coming]
    BY <2>8
  <2> HIDE DEF w7
  <2> QED
    BY <2>2, <2>9, Zenon DEF off
<1>14. /\ pc \in {"idle", "toasts"} /\ (pc = "toasts" => coming # {})
       /\ coming \subseteq Friends /\ cached \subseteq Friends /\ tick \in 0..(RefreshEvery - 1)
       /\ none \in FriendLists
  BY <1>7 DEF FriendLists
<1>15. inited \in BOOLEAN
  <2>1. got.connected \in BOOLEAN /\ watch.inited \in BOOLEAN
    BY <1>2, <1>7 DEF FriendLists, Watches
  <2> QED
    BY <2>1, Zenon
<1>16. coming # {} => watch.fresh /\ got.connected /\ watch.inited /\ coming = got.friends \ watch.cached
  BY Zenon DEF Shown!Announces
<1>17. \/ kept /\ steady' = steady /\ greeted' = greeted /\ missed' = missed
       \/ ~ kept /\ steady' = online /\ greeted' = {} /\ ~ missed'
  <2>1. missed \in BOOLEAN
    BY <1>1, Zenon DEF Remembered
  <2> QED
    BY <1>3, <1>4, <2>1, Zenon
<1>18. ~ kept => ~ inited /\ coming = {}
  BY <1>16, Zenon
<1>19. ~ missed /\ inited /\ kept => steady \subseteq cached
  BY <1>1, <1>3, Zenon DEF Remembered
<1>20. ~ missed /\ coming # {} => coming \cap steady = {}
  <2>1. SUFFICES ASSUME ~ missed, coming # {} PROVE coming \cap steady = {}
    OBVIOUS
  <2>2. steady \subseteq watch.cached /\ coming = got.friends \ watch.cached
    BY <1>1, <1>16, <2>1, Zenon DEF Remembered
  <2> QED
    BY <2>2
<1> HIDE DEF pc, tick, inited, cached, coming, none, kept
<1>21. /\ watch' \in Watches /\ watch'.pc = pc /\ watch'.inited = inited /\ watch'.cached = cached /\ watch'.toast = coming
  BY <1>13, <1>14, <1>15 DEF Watches
<1>22. steady' \subseteq online' /\ greeted' \subseteq steady'
  BY <1>2, <1>3
<1>23. SnapshotTypes'
  BY <1>1, <1>3, <1>10, <1>11, <1>12, <1>21, <1>22 DEF SnapshotTypes
<1>24. Remembered'
  <2>1. missed' \in BOOLEAN
    BY <1>4, Zenon
  <2>2. watch'.pc # "set"
    BY <1>14, <1>21
  <2>3. ASSUME ~ missed', watch'.inited PROVE steady' \subseteq watch'.cached
    <3>1. inited
      BY <1>21, <2>3, Zenon
    <3>2. kept
      BY <1>18, <3>1, Zenon
    <3>3. steady' = steady
      BY <1>17, <3>2, Zenon
    <3>4. ~ missed
      <4>1. CASE missed
        <5>1. missed'
          BY <1>4, <3>2, <4>1, Zenon
        <5> QED
          BY <2>3, <5>1, Zenon
      <4> QED
        BY <4>1, Zenon
    <3> QED
      BY <1>19, <1>21, <3>1, <3>2, <3>3, <3>4, Zenon
  <2>4. watch'.pc = "toasts" => coming # {}
    BY <1>14, <1>21, Zenon
  <2>5. ASSUME ~ missed', watch'.pc = "toasts" PROVE watch'.toast \cap steady' = {}
    <3>1. coming # {}
      BY <2>4, <2>5, Zenon
    <3>2. kept
      BY <1>18, <3>1, Zenon
    <3>3. steady' = steady
      BY <1>17, <3>2, Zenon
    <3>4. ~ missed
      <4>1. CASE missed
        <5>1. missed'
          BY <1>4, <3>2, <4>1, Zenon
        <5> QED
          BY <2>5, <5>1, Zenon
      <4> QED
        BY <4>1, Zenon
    <3>5. coming \cap steady = {}
      BY <1>20, <3>1, <3>4, Zenon
    <3> QED
      BY <1>21, <3>3, <3>5
  <2> QED
    BY <2>1, <2>2, <2>3, <2>5, Zenon DEF Remembered
<1>25. Shown!Baseline'
  BY <1>1, <1>17, Zenon DEF Shown!Baseline
<1>26. Shown!NothingOverrun'
  <2> DEFINE T == {t \in Toasts : t.stamp \notin expired}
             M == {t \in Messages : t.stamp \notin expired}
  <2>1. snap.toasts \in Seq(Toasts) /\ snap.voice \in Seq(Messages)
    BY <1>2 DEF Snaps
  <2>2. s.toasts = Shown!Kept(snap.toasts, T) /\ s.voice = Shown!Kept(snap.voice, M)
    BY DEF s, Without
  <2>3. Shown!Elements(snap.toasts) \subseteq Toasts /\ Shown!Elements(snap.voice) \subseteq Messages
    BY <2>1 DEF Shown!Elements
  <2>4. /\ Shown!Elements(s.toasts) = Shown!Elements(snap.toasts) \cap T
        /\ Shown!Elements(s.voice) = Shown!Elements(snap.voice) \cap M
    <3> HIDE DEF T, M
    <3> QED
      BY <2>1, <2>2, KeptElements
  <2>5. Shown!Stamps(snap.toasts) \subseteq Shown!Stamps(s.toasts) \cup expired
    BY <2>3, <2>4 DEF Shown!Stamps
  <2>6. Shown!Stamps(snap.voice) \subseteq Shown!Stamps(s.voice) \cup expired
    BY <2>3, <2>4 DEF Shown!Stamps
  <2>7. overrun = {}
    BY <1>1 DEF Shown!NothingOverrun
  <2> HIDE DEF T, M
  <2>8. overrun' = {}
    BY <1>6, <1>10, <2>5, <2>6, <2>7
  <2> QED
    BY <2>8 DEF Shown!NothingOverrun
<1> QED
  BY <1>11, <1>12, <1>23, <1>24, <1>25, <1>26 DEF ShownInv

LEMMA GreetStep == ASSUME ShownInv, NEW f \in Friends, Shown!FriendToast(f) PROVE ShownInv'
PROOF
<1> USE PushesAreCounted
<1>1. SnapshotTypes /\ Current /\ OneChannel(snap) /\ Remembered /\ Shown!NothingOverrun /\ Shown!Baseline
  BY DEF ShownInv
<1>2. snap \in Snaps /\ Bounded(snap) /\ watch \in Watches /\ stamp \in 0..MaxPushes
  BY <1>1 DEF SnapshotTypes
<1> DEFINE s == Without(snap, expired)
           q == Shown!LastOf(Append(s.toasts, [id |-> f, stamp |-> stamp + 1]), MaxToasts)
           toast == watch.toast \ {f}
           pc == IF watch.toast = {f} THEN "idle" ELSE "toasts"
<1>3. /\ watch.pc = "toasts" /\ f \in watch.toast /\ stamp < MaxPushes /\ stamp' = stamp + 1
      /\ snap' = [Shown!Pruned(snap) EXCEPT !.toasts = q] /\ Shown!Notify(snap, snap')
      /\ watch' = [watch EXCEPT !.toast = toast, !.pc = pc]
      /\ greeted' = greeted \cup ({f} \cap steady)
      /\ UNCHANGED <<online, expired, steady, missed, overrun>>
  <2>1. Shown!Pruned(snap) = s
    BY <1>2, PrunedIs
  <2> HIDE DEF s
  <2> QED
    BY <2>1 DEF Shown!FriendToast
<1>4. s \in Snaps /\ Bounded(s) /\ OneChannel(s) /\ Shown!Pruned(snap) = s
  BY <1>1, <1>2, WithoutIsTyped, PrunedIs
<1> HIDE DEF s
<1>5. q \in Seq(Toasts) /\ Len(q) <= MaxToasts
  <2> DEFINE l == Append(s.toasts, [id |-> f, stamp |-> stamp + 1])
  <2>1. [id |-> f, stamp |-> stamp + 1] \in Toasts /\ s.toasts \in Seq(Toasts)
    BY <1>2, <1>3, <1>4 DEF Toasts, Snaps
  <2>2. l \in Seq(Toasts)
    BY <2>1
  <2> HIDE DEF l
  <2>3. Shown!LastOf(l, MaxToasts) \in Seq(Toasts) /\ Len(Shown!LastOf(l, MaxToasts)) <= MaxToasts
    BY <2>2, LastOfIs
  <2> QED
    BY <2>3 DEF l
<1> HIDE DEF q
<1>6. snap' \in Snaps /\ snap'.toasts = q /\ snap'.voice = s.voice /\ snap'.channel = s.channel
  BY <1>3, <1>4, <1>5 DEF Snaps
<1>7. Bounded(snap') /\ OneChannel(snap)'
  BY <1>4, <1>5, <1>6 DEF Bounded, OneChannel
<1>8. widgetClient' \in Widgets /\ Current'
  BY <1>1, <1>3, <1>6, NotifyCurrent
<1>9. /\ watch' \in Watches /\ watch'.toast = toast /\ watch'.pc = pc
      /\ watch'.inited = watch.inited /\ watch'.cached = watch.cached
  <2> DEFINE r == [watch EXCEPT !.toast = toast]
  <2>1. toast \in SUBSET Friends /\ pc \in {"idle", "set", "toasts"}
    BY <1>2 DEF Watches
  <2> HIDE DEF toast, pc
  <2>2. r \in Watches /\ r.toast = toast /\ r.inited = watch.inited /\ r.cached = watch.cached
    BY <1>2, <2>1 DEF Watches
  <2>3. watch' = [r EXCEPT !.pc = pc]
    BY <1>3
  <2> HIDE DEF r
  <2> QED
    BY <2>1, <2>2, <2>3 DEF Watches
<1>10. greeted' \subseteq steady'
  BY <1>1, <1>3 DEF SnapshotTypes
<1>11. SnapshotTypes'
  <2>1. stamp' \in 0..MaxPushes /\ 1..stamp \subseteq 1..stamp'
    BY <1>2, <1>3
  <2> QED
    BY <1>1, <1>3, <1>6, <1>7, <1>8, <1>9, <1>10, <2>1 DEF SnapshotTypes
<1>12. ~ missed => watch.toast \cap steady = {}
  BY <1>1, <1>3, Zenon DEF Remembered
<1>13. missed' = missed /\ steady' = steady /\ watch'.pc # "set"
  BY <1>3, <1>9
<1>14. watch.toast \cap steady = {} => watch'.toast \cap steady = {}
  BY <1>9
<1>15. Remembered'
  BY <1>1, <1>9, <1>12, <1>13, <1>14, Zenon DEF Remembered
<1>16. greeted = {} /\ watch.toast \cap steady = {} => greeted' = {}
  BY <1>3
<1>17. overrun' = {}
  BY <1>1, <1>3 DEF Shown!NothingOverrun
<1>18. Shown!NothingOverrun'
  BY <1>17 DEF Shown!NothingOverrun
<1>19. missed \/ greeted = {}
  BY <1>1, Zenon DEF Shown!Baseline
<1>20. missed' \/ greeted' = {}
  BY <1>12, <1>13, <1>16, <1>19, Zenon
<1>21. Shown!Baseline'
  BY <1>20, Zenon DEF Shown!Baseline
<1> QED
  BY <1>7, <1>8, <1>11, <1>15, <1>18, <1>21 DEF ShownInv

\* The connection of the widget.
LEMMA WidgetStep ==
    ASSUME ShownInv, Shown!Connect \/ Shown!Notified \/ Shown!Send \/ Shown!Sent \/ Shown!Disconnect
    PROVE  ShownInv'
PROOF
<1>1. SnapshotTypes /\ Current /\ OneChannel(snap) /\ Remembered /\ Shown!NothingOverrun /\ Shown!Baseline
  BY DEF ShownInv
<1>2. snap \in Snaps /\ widgetClient \in Widgets
  BY <1>1 DEF SnapshotTypes
<1>3. UNCHANGED <<online, watch, expired, stamp, steady, greeted, missed, overrun>>
  BY DEF Shown!Connect, Shown!Notified, Shown!Send, Shown!Sent, Shown!Disconnect, Shown!clientOnly, Shown!historyVars
<1>4. Remembered' /\ Shown!NothingOverrun' /\ Shown!Baseline'
  BY <1>1, <1>3, Zenon DEF Remembered, Shown!NothingOverrun, Shown!Baseline
<1>5. ASSUME snap' \in Snaps, Bounded(snap'), OneChannel(snap)', widgetClient' \in Widgets, Current'
      PROVE  ShownInv'
  <2>1. SnapshotTypes'
    BY <1>1, <1>3, <1>5 DEF SnapshotTypes
  <2> QED
    BY <1>4, <1>5, <2>1 DEF ShownInv
<1>6. snap' = snap => snap' \in Snaps /\ Bounded(snap') /\ OneChannel(snap)'
  BY <1>1 DEF SnapshotTypes, OneChannel
<1>7. CASE Shown!Connect \/ Shown!Notified \/ Shown!Disconnect
  <2> DEFINE none == [connected |-> FALSE, friends |-> {}]
             blank == [base |-> none, toasts |-> <<>>, channel |-> "none", voice |-> <<>>, reset |-> 0]
             pc == IF Shown!Disconnect THEN "off" ELSE "send"
  <2>1. snap' = snap
    BY <1>7 DEF Shown!Connect, Shown!Notified, Shown!Disconnect
  <2>2. \E p \in {"off", "send"} : widgetClient' = [pc |-> p, notified |-> FALSE, seen |-> blank]
    BY <1>7 DEF Shown!Connect, Shown!Notified, Shown!Disconnect, Shown!Sending, Shown!Blank, Shown!Nothing, Shown!Base
  <2>3. blank \in Snaps
    BY PushesAreCounted DEF Snaps, FriendLists
  <2> HIDE DEF blank
  <2>4. widgetClient' \in Widgets /\ widgetClient'.pc \in {"off", "send"}
    BY <2>2, <2>3 DEF Widgets
  <2>5. Current'
    BY <2>4 DEF Current
  <2> QED
    BY <1>5, <1>6, <2>1, <2>4, <2>5
<1>8. CASE Shown!Sent
  <2>1. snap' = snap /\ widgetClient.pc = "sending" /\ widgetClient' = [widgetClient EXCEPT !.pc = "wait"]
    BY <1>8 DEF Shown!Sent, Shown!Shown
  <2>2. /\ widgetClient' \in Widgets /\ widgetClient'.seen = widgetClient.seen
        /\ widgetClient'.notified = widgetClient.notified
    BY <1>2, <2>1 DEF Widgets
  <2>3. Current'
    BY <1>1, <1>3, <2>1, <2>2, Zenon DEF Current
  <2> QED
    BY <1>5, <1>6, <2>1, <2>2, <2>3
<1>9. CASE Shown!Send
  <2> DEFINE s == Without(snap, expired)
             q == [widgetClient EXCEPT !.pc = "sending"]
  <2>1. snap' = Shown!Pruned(snap) /\ widgetClient' = [widgetClient EXCEPT !.pc = "sending", !.seen = Shown!Pruned(snap)]
    BY <1>9 DEF Shown!Send
  <2>2. Shown!Pruned(snap) = s /\ s \in Snaps /\ Bounded(s) /\ OneChannel(s)
    BY <1>1, <1>2, PrunedIs, WithoutIsTyped DEF SnapshotTypes
  <2> HIDE DEF s
  <2>3. q \in Widgets
    BY <1>2 DEF Widgets
  <2>4. widgetClient' = [q EXCEPT !.seen = s]
    BY <2>1, <2>2
  <2> HIDE DEF q
  <2>5. widgetClient' \in Widgets /\ widgetClient'.seen = s
    BY <2>2, <2>3, <2>4 DEF Widgets
  <2>6. snap' = s
    BY <2>1, <2>2
  <2>7. OneChannel(snap)'
    BY <2>2, <2>6 DEF OneChannel
  <2>8. Current'
    BY <2>5, <2>6, Zenon DEF Current
  <2> QED
    BY <1>5, <2>2, <2>5, <2>6, <2>7, <2>8
<1> QED
  BY <1>7, <1>8, <1>9

LEMMA ShownNextStep == ASSUME ShownInv, Shown!Next PROVE ShownInv'
PROOF
BY ToastStep, VoiceStep, ClearStep, TimeStep, CollectStep, SetStep, GreetStep, WidgetStep DEF Shown!Next

LEMMA ShownSafety ==
    ASSUME ShownInv
    PROVE  /\ Shown!TypeOK /\ Shown!ClientCurrent /\ Shown!NothingOverrun
           /\ Shown!VoiceOfChannel /\ Shown!Baseline
PROOF
<1>1. SnapshotTypes /\ Current /\ OneChannel(snap) /\ Shown!NothingOverrun /\ Shown!Baseline
  BY DEF ShownInv
<1>2. snap \in Snaps /\ widgetClient \in Widgets /\ watch \in Watches /\ widgetClient.seen \in Snaps
  BY <1>1 DEF SnapshotTypes, Widgets
<1>3. Shown!TypeOK
  <2>1. snap.base \in FriendLists /\ snap.channel \in Channels \cup {"none"} /\ snap.reset \in 0..MaxResets
    BY <1>2 DEF Snaps
  <2>2. watch.pc \in {"idle", "set", "toasts"} /\ watch.tick \in 0..RefreshEvery - 1
    BY <1>2 DEF Watches
  <2>3. widgetClient.pc \in {"off", "send", "sending", "wait"}
    BY <1>2 DEF Widgets
  <2>4. /\ online \subseteq Friends /\ steady \subseteq Friends /\ greeted \subseteq steady
        /\ Len(snap.toasts) <= MaxToasts /\ Len(snap.voice) <= MaxVoice
        /\ expired \subseteq 1..stamp /\ stamp \in 0..MaxPushes
    BY <1>1 DEF SnapshotTypes, Bounded
  <2> QED
    BY <2>1, <2>2, <2>3, <2>4, Zenon DEF Shown!TypeOK, FriendLists
<1>4. Shown!Pruned(widgetClient.seen) = Without(widgetClient.seen, expired) /\ Shown!Pruned(snap) = Without(snap, expired)
  BY <1>2, PrunedIs
<1>5. widgetClient.pc = "wait" => widgetClient.pc \in {"sending", "wait"}
  OBVIOUS
<1>6. Shown!ClientCurrent
  BY <1>1, <1>4, <1>5, Zenon DEF Current, Shown!ClientCurrent
<1>7. Shown!VoiceOfChannel
  BY <1>1 DEF OneChannel, Shown!VoiceOfChannel
<1> QED
  BY <1>1, <1>3, <1>6, <1>7

-------------------------------------------------------------------------------
(* The theorems                                                               *)

\* A step of another part leaves a part's variables alone.
LEMMA ActivityStays == ASSUME ActivityInv, UNCHANGED activityVars PROVE ActivityInv'
PROOF
<1>1. ActivityTypes' /\ Published'
  BY DEF activityVars, ActivityInv, ActivityTypes, Published, Aim
<1>2. ActivityFlags'
  BY Zenon DEF activityVars, ActivityInv, ActivityFlags
<1> QED
  BY <1>1, <1>2 DEF ActivityInv

LEMMA JoinsStay == ASSUME JoinsInv, UNCHANGED joinVars PROVE JoinsInv'
PROOF
<1>1. JoinTypes' /\ Spared' /\ Collected'
  BY DEF joinVars, JoinsInv, JoinTypes, Spared, Collected
<1>2. (lobby \in BOOLEAN)'
  BY Zenon DEF joinVars, JoinsInv
<1> QED
  BY <1>1, <1>2 DEF JoinsInv

LEMMA ControlsStay == ASSUME ControlsInv, UNCHANGED controlVars PROVE ControlsInv'
PROOF
<1>1. ControlTypes' /\ Turns'
  BY DEF controlVars, ControlsInv, ControlTypes, Turns
<1>2. (preference \in BOOLEAN)' /\ Carried' /\ Controls!LastSettingWins'
  BY Zenon DEF controlVars, ControlsInv, Carried, Controls!LastSettingWins
<1> QED
  BY <1>1, <1>2, Zenon DEF ControlsInv

LEMMA OverlayStays == ASSUME OverlayInv, UNCHANGED overlayVars PROVE OverlayInv'
PROOF
<1>1. Attended' = Attended /\ Upward' = Upward
  BY Zenon DEF overlayVars, Attended, Upward
<1>3. OverlayTypes' /\ Asked' /\ Alone' /\ Latest' /\ Ahead' /\ Registered' /\ Truthful'
  BY <1>1 DEF overlayVars, OverlayInv, OverlayTypes, Asked, Alone, Latest, Ahead, Registered, Truthful, Told
<1>2. OverlayFlags' /\ Overlay!OnlyAsked' /\ Overlay!NeverDown'
  BY Zenon DEF overlayVars, OverlayInv, OverlayFlags, Overlay!OnlyAsked, Overlay!NeverDown
<1> QED
  BY <1>2, <1>3 DEF OverlayInv

LEMMA InputStays == ASSUME InputInv, UNCHANGED inputVars PROVE InputInv'
PROOF BY Zenon DEF inputVars, InputInv, InputTypes, Held, Seen, Input!GameReleased, Input!ShieldMatches,
                   Input!ClickOwned

LEMMA ShownStays == ASSUME ShownInv, UNCHANGED snapshotVars PROVE ShownInv'
PROOF
<1>1. SnapshotTypes' /\ Current' /\ OneChannel(snap)' /\ Shown!NothingOverrun'
  BY DEF snapshotVars, ShownInv, SnapshotTypes, Current, OneChannel, Bounded, Shown!NothingOverrun
<1>2. Remembered' /\ Shown!Baseline'
  BY Zenon DEF snapshotVars, ShownInv, Remembered, Shown!Baseline
<1> QED
  BY <1>1, <1>2 DEF ShownInv

(* Whatever Discord, its client and the game do between the steps of the      *)
(* task, and although the client takes any answer for that of the request it  *)
(* waits for, Discord shows what the agent published last or nothing, by a    *)
(* client that is connected and subscribed; after this client has given up a  *)
(* request, as soon as the activities under way have come, unless Discord     *)
(* refused one.  However requests to join, look-ups and answers overlap, each *)
(* gets at most one invitation, and the task invites only for requests that   *)
(* wait with their Riot ID (discord_presence.rs, client.rs, manager.rs).      *)
THEOREM PresenceIsTrue == Spec => []PresenceSafe
PROOF
<1> DEFINE Inv == (part = "activity" => ActivityInv) /\ (part = "joins" => JoinsInv)
<1>1. Init => Inv
  BY ActivityInit, JoinsInit DEF Init
<1>2. Inv /\ [Next]_vars => Inv'
  <2> SUFFICES ASSUME Inv, [Next]_vars
               PROVE  Inv'
    OBVIOUS
  <2>1. CASE ActivityNext
    BY <2>1, ActivityNextStep DEF ActivityNext
  <2>2. CASE JoinsNext
    BY <2>2, JoinsNextStep DEF JoinsNext
  <2>3. CASE InputNext \/ ShownNext \/ OverlayNext \/ ControlsNext
    BY <2>3 DEF InputNext, ShownNext, OverlayNext, ControlsNext
  <2>4. CASE UNCHANGED vars
    <3>1. part' = part /\ UNCHANGED activityVars /\ UNCHANGED joinVars
      BY <2>4 DEF vars
    <3> QED
      BY <3>1, ActivityStays, JoinsStay
  <2> QED
    BY <2>1, <2>2, <2>3, <2>4 DEF Next
<1>3. Inv => PresenceSafe
  BY ActivitySafety, JoinsSafety DEF PresenceSafe
<1> QED
  BY <1>1, <1>2, <1>3, PTL DEF Spec, vars

(* However updates of the overlay, the scripts they start, their failures,   *)
(* resets and exits of the agent interleave, only releases that were asked    *)
(* for are installed; unless an agent has left a script behind, state.json    *)
(* does not call installed what is not, and no older release replaces a newer *)
(* one, before and after a restart, as long as state.json tells of the newer  *)
(* one when the agent exits and the button does not take an older answer for  *)
(* the latest; however the jobs, the enforcement and the widget's probe share *)
(* the toolbar, the last setting of the toggles wins (gamebar_bridge.rs,      *)
(* Update-YummiGameBar.ps1 and commands/overlay.rs).                          *)
THEOREM OverlayObeys == Spec => []OverlaySafe
PROOF
<1> DEFINE Inv == (part = "overlay" => OverlayInv) /\ (part = "controls" => ControlsInv)
<1>1. Init => Inv
  BY OverlayInit, ControlsInit DEF Init
<1>2. Inv /\ [Next]_vars => Inv'
  <2> SUFFICES ASSUME Inv, [Next]_vars
               PROVE  Inv'
    OBVIOUS
  <2>1. CASE OverlayNext
    BY <2>1, OverlayNextStep DEF OverlayNext
  <2>2. CASE ControlsNext
    BY <2>2, ControlsNextStep DEF ControlsNext
  <2>3. CASE InputNext \/ ShownNext \/ ActivityNext \/ JoinsNext
    BY <2>3 DEF InputNext, ShownNext, ActivityNext, JoinsNext
  <2>4. CASE UNCHANGED vars
    <3>1. part' = part /\ UNCHANGED overlayVars /\ UNCHANGED controlVars
      BY <2>4 DEF vars
    <3> QED
      BY <3>1, OverlayStays, ControlsStay
  <2> QED
    BY <2>1, <2>2, <2>3, <2>4 DEF Next
<1>3. Inv => OverlaySafe
  BY OverlaySafety, ControlsSafety DEF OverlaySafe
<1> QED
  BY <1>1, <1>2, <1>3, PTL DEF Spec, vars

(* However the hook, the polling thread and the shield's timer overlap, the   *)
(* application behind the overlay gets the release of every press it got, and *)
(* the shield is shown exactly as long as a press is held; however pushes,    *)
(* expiries and the collection of the friends interleave, a widget that waits *)
(* shows what there is to show, nothing pushed is lost by a set, the messages *)
(* are of the voice channel, and friends who were online all along are not    *)
(* announced, unless a list was made up (gamebar_bridge.rs and state.rs).     *)
THEOREM GameBarShowsTheTruth == Spec => []GameBarSafe
PROOF
<1> DEFINE Inv == (part = "input" => InputInv) /\ (part = "snapshots" => ShownInv)
<1>1. Init => Inv
  BY InputInit, ShownInit DEF Init
<1>2. Inv /\ [Next]_vars => Inv'
  <2> SUFFICES ASSUME Inv, [Next]_vars
               PROVE  Inv'
    OBVIOUS
  <2>1. CASE InputNext
    BY <2>1, InputNextStep DEF InputNext
  <2>2. CASE ShownNext
    BY <2>2, ShownNextStep DEF ShownNext
  <2>3. CASE OverlayNext \/ ControlsNext \/ ActivityNext \/ JoinsNext
    BY <2>3 DEF OverlayNext, ControlsNext, ActivityNext, JoinsNext
  <2>4. CASE UNCHANGED vars
    <3>1. part' = part /\ UNCHANGED inputVars /\ UNCHANGED snapshotVars
      BY <2>4 DEF vars
    <3> QED
      BY <3>1, InputStays, ShownStays
  <2> QED
    BY <2>1, <2>2, <2>3, <2>4 DEF Next
<1>3. Inv => GameBarSafe
  BY InputSafety, ShownSafety DEF GameBarSafe
<1> QED
  BY <1>1, <1>2, <1>3, PTL DEF Spec, vars
===============================================================================
