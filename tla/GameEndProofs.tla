----------------------------- MODULE GameEndProofs -----------------------------
(***************************************************************************)
(* Proofs about GameEnd. A poll is a composition of operators on the        *)
(* poller; Known says of a poller, together with the events it has sent or   *)
(* is about to send, what every one of these operators keeps. The remaining  *)
(* parts of the inductive invariant are about the worker between the two     *)
(* halves of a poll, the tasks and the files.                                *)
(***************************************************************************)
EXTENDS GameEnd, TLAPS

USE BoundsAreNats, NeededAreGames, BatchCapIsPositive

\* A file that is there is not one of the player's own.
NotPlayers(g) == OnDisk(g) => disk[g].by # "user"

\* The replay a poller has asked the Relay about and knows nothing of yet.
Asking(p) ==
    /\ p.hint # 0 /\ p.requested = p.hint
    /\ p.authorized # p.hint /\ p.sent # p.hint

AskedFor(g, E) ==
    \/ \E e \in E : e.kind = "candidate" /\ e.game = g
    \/ \E t \in preflights : t.game = g

Reported(g, E) == \E e \in outbox \cup E : e.kind = "result" /\ e.game = g

\* What holds of a poller whose events so far are E.
Known(p, E) ==
    /\ p \in Pollers
    /\ p.authorized \in Needed \cup {0}
    /\ p.owned \in {0, p.hint} /\ p.fileReady \in {0, p.hint}
    /\ p.owned # 0 /\ p.fileReady # p.hint => NotPlayers(p.owned)
    /\ p.eogSent => Reported(p.expected, E)
    /\ Asking(p) => AskedFor(p.hint, E)

\* The file is still the version that was handed over.
Same(x) == OnDisk(x.file) /\ disk[x.file].version = x.version

\* A version that may be deleted is not one of the player's own.
Spared(x) ==
    /\ x.version <= writes
    /\ x.delete /\ x.file = x.game /\ Same(x) => disk[x.file].by # "user"

\* What holds of events.
Sound(E) == E \subseteq Events /\ \A e \in E : e.kind = "ready" => Spared(e)

-------------------------------------------------------------------------------
(* The operators of a poll.                                                  *)

LEMMA NoGame == 0 \in GameIds
BY DEF GameIds

LEMMA FreshType == Fresh \in Pollers
BY DEF Pollers, Fresh, GameIds

LEMMA ObserveKnown ==
  ASSUME client \in 1..(MaxFaults + 1), NEW p, NEW E, Known(p, E)
  PROVE  Known(Observe(p), E)
<1>1. CASE p.ident = client
  BY <1>1 DEF Observe
<1>2. CASE p.ident # client
  <2> DEFINE q == [Fresh EXCEPT !.ident = client]
  <2>0. client \in 0..(MaxFaults + 1)
    OBVIOUS
  <2>1. q \in Pollers
    BY <2>0, FreshType DEF Pollers
  <2>2. /\ q.authorized = 0 /\ q.owned = 0 /\ q.fileReady = 0 /\ ~q.eogSent /\ q.hint = 0
    BY DEF Fresh
  <2>3. Observe(p) = q
    BY <1>2 DEF Observe
  <2> HIDE DEF q
  <2> QED
    BY <2>1, <2>2, <2>3 DEF Known, Asking
<1> QED
  BY <1>1, <1>2

LEMMA EnterPhaseKnown ==
  ASSUME phase \in Phases, NEW p, NEW E, Known(p, E)
  PROVE  Known(EnterPhase(p), E)
<1> DEFINE f == [Fresh EXCEPT !.ident = p.ident]
           q == IF phase = "InProgress" /\ p.seen # "InProgress" THEN f ELSE p
           r == [q EXCEPT !.seen = phase, !.recovering = @ \/ phase = "EndOfGame"]
<1>1. Known(f, E)
  <2>1. f \in Pollers
    BY FreshType DEF Pollers, Known
  <2>2. /\ f.authorized = 0 /\ f.owned = 0 /\ f.fileReady = 0 /\ ~f.eogSent /\ f.hint = 0
    BY DEF Fresh
  <2> HIDE DEF f
  <2> QED
    BY <2>1, <2>2 DEF Known, Asking
<1>2. Known(q, E)
  BY <1>1
<1> HIDE DEF q
<1>3. q \in Pollers
  BY <1>2 DEF Known
<1>4. r \in Pollers
  BY <1>3 DEF Pollers
<1>5. /\ r.authorized = q.authorized /\ r.owned = q.owned /\ r.fileReady = q.fileReady
      /\ r.eogSent = q.eogSent /\ r.expected = q.expected /\ r.hint = q.hint
      /\ r.requested = q.requested /\ r.sent = q.sent
  BY <1>3 DEF Pollers
<1>6. EnterPhase(p) = r
  BY DEF EnterPhase, q
<1> HIDE DEF r
<1> QED
  BY <1>2, <1>4, <1>5, <1>6 DEF Known, Asking

LEMMA EndRecoveryKnown ==
  ASSUME NEW p, NEW E, NEW old \in BOOLEAN, Known(p, E)
  PROVE  Known(EndRecovery(p, old), E)
<1> DEFINE q == [p EXCEPT !.recovering = FALSE, !.expected = 0]
<1>1. CASE ~p.eogSent
  <2>1. q \in Pollers
    BY NoGame DEF Known, Pollers
  <2>2. /\ q.authorized = p.authorized /\ q.owned = p.owned /\ q.fileReady = p.fileReady
        /\ ~q.eogSent /\ q.hint = p.hint
        /\ q.requested = p.requested /\ q.sent = p.sent
    BY <1>1 DEF Known, Pollers
  <2> HIDE DEF q
  <2>3. Known(q, E)
    BY <2>1, <2>2 DEF Known, Asking
  <2> QED
    BY <2>3 DEF EndRecovery, q
<1>2. CASE p.eogSent
  BY <1>2 DEF EndRecovery
<1> QED
  BY <1>1, <1>2

LEMMA GiveUpKnown ==
  ASSUME NEW p, NEW E, Known(p, E)
  PROVE  Known(GiveUp(p), E) /\ GiveUp(p).hint = 0 /\ GiveUp(p).authorized = 0
<1> DEFINE q == GiveUp(p)
<1>1. q \in Pollers
  BY NoGame DEF Known, Pollers, GiveUp
<1>2. /\ q.authorized = 0 /\ q.owned = 0 /\ q.fileReady = 0
      /\ q.eogSent = p.eogSent /\ q.expected = p.expected /\ q.hint = 0
  BY DEF Known, Pollers, GiveUp
<1> HIDE DEF q
<1>3. Known(q, E)
  BY <1>1, <1>2 DEF Known, Asking
<1> QED
  BY <1>2, <1>3 DEF q

LEMMA ExpireKnown ==
  ASSUME NEW p, NEW E, NEW old \in BOOLEAN, Known(p, E)
  PROVE  Known(Expire(p, old), E)
BY GiveUpKnown DEF Expire

\* More events change nothing of what is known.
LEMMA KnownOfMore ==
  ASSUME NEW p, NEW E, NEW F, E \subseteq F, Known(p, E)
  PROVE  Known(p, F)
BY DEF Known, Reported, AskedFor

LEMMA SoundOfBoth ==
  ASSUME NEW E, NEW F, Sound(E), Sound(F)
  PROVE  Sound(E \cup F)
BY DEF Sound

\* A file that is there has a version.
FilesAreOld == \A g \in Games : OnDisk(g) => disk[g].version <= writes

LEMMA OnDiskType ==
  ASSUME TypeOK, NEW g \in Games, OnDisk(g)
  PROVE  disk[g] \in FileStates
BY DEF TypeOK, OnDisk

\* Handing over a file: what is said of deleting it is right.
LEMMA ReadySound ==
  ASSUME TypeOK, FilesAreOld, NEW p, NEW E, Known(p, E), p.hint # 0, p.fileReady # p.hint,
         NEW f \in Games, OnDisk(f)
  PROVE  Sound({[kind |-> "ready", game |-> p.hint, file |-> f, version |-> disk[f].version,
                 delete |-> p.owned = p.hint]})
<1> DEFINE e == [kind |-> "ready", game |-> p.hint, file |-> f, version |-> disk[f].version,
                 delete |-> p.owned = p.hint]
<1>1. p.hint \in Games
  BY DEF Known, Pollers, GameIds, Games
<1>2. disk[f].version \in Versions
  BY OnDiskType DEF FileStates
<1>3. e \in Events
  <2>1. (p.owned = p.hint) \in BOOLEAN
    OBVIOUS
  <2> QED
    BY <1>1, <1>2, <2>1 DEF Events
<1>4. Spared(e)
  BY DEF Spared, Same, FilesAreOld, Known, NotPlayers
<1> QED
  BY <1>3, <1>4 DEF Sound

LEMMA CollectSteps ==
  ASSUME TypeOK, FilesAreOld, NEW p, NEW E, Known(p, E), p.hint # 0, NEW o \in Collect(p)
  PROVE  Known(o[1], E \cup o[2]) /\ Sound(o[2])
<1> DEFINE found == {f \in Matching(p) : disk[f].complete}
           ready(f) == [kind |-> "ready", game |-> p.hint, file |-> f,
                        version |-> disk[f].version, delete |-> p.owned = p.hint]
<1>1. p.hint \in Games
  BY DEF Known, Pollers, GameIds, Games
<1>2. \A f \in found : f \in Games /\ OnDisk(f)
  BY <1>1 DEF Matching
<1>3. CASE o = <<p, {}>>
  BY <1>3 DEF Sound
<1>4. CASE p.fileReady # p.hint /\ o # <<p, {}>>
  <2>1. PICK f \in found : o = <<[p EXCEPT !.fileReady = p.hint], {ready(f)}>>
    BY <1>4 DEF Collect
  <2> DEFINE q == [p EXCEPT !.fileReady = p.hint]
  <2>2. Sound({ready(f)})
    BY <1>2, <1>4, ReadySound
  <2>3. q \in Pollers
    BY DEF Known, Pollers
  <2>4. /\ q.authorized = p.authorized /\ q.owned = p.owned /\ q.fileReady = p.hint
        /\ q.eogSent = p.eogSent /\ q.expected = p.expected /\ q.hint = p.hint
        /\ q.requested = p.requested /\ q.sent = p.sent
    BY DEF Known, Pollers
  <2> HIDE DEF q
  <2>5. Known(q, E)
    BY <2>3, <2>4 DEF Known, Asking
  <2> QED
    BY <2>1, <2>2, <2>5, KnownOfMore DEF q
<1>5. CASE p.fileReady = p.hint /\ o # <<p, {}>>
  <2> DEFINE q == [p EXCEPT !.sent = p.hint]
  <2>1. o = <<q, {}>>
    BY <1>5 DEF Collect
  <2>2. q \in Pollers
    BY DEF Known, Pollers
  <2>3. /\ q.authorized = p.authorized /\ q.owned = p.owned /\ q.fileReady = p.fileReady
        /\ q.eogSent = p.eogSent /\ q.expected = p.expected /\ q.hint = p.hint
        /\ q.sent = p.hint
    BY DEF Known, Pollers
  <2> HIDE DEF q
  <2>4. Known(q, E)
    BY <2>2, <2>3 DEF Known, Asking
  <2> QED
    BY <2>1, <2>4 DEF Sound
<1> QED
  BY <1>3, <1>4, <1>5

\* What the replay stage of a poll does; when it is about to ask for a download, it
\* was told that the replay is wanted.
LEMMA StageSteps ==
  ASSUME TypeOK, FilesAreOld, NEW p, NEW E, Known(p, E), NEW o \in ReplayStage(p)
  PROVE  /\ Known(o[1], E \cup o[2]) /\ Sound(o[2])
         /\ o[3] \in {"no", "clear", "unsure"}
         /\ o[3] # "no" => /\ o[2] = {} /\ o[1].hint # 0 /\ o[1].authorized = o[1].hint
                           /\ o[3] = "clear" => ~OnDisk(o[1].hint)
<1>1. p.hint \in GameIds
  BY DEF Known, Pollers
<1>2. CASE o = <<p, {}, "no">>
  BY <1>2 DEF Sound
<1>3. CASE p.hint # 0 /\ p.authorized # p.hint /\ o # <<p, {}, "no">>
  <2> DEFINE q == [p EXCEPT !.requested = p.hint]
             e == [kind |-> "candidate", game |-> p.hint]
  <2>1. o = <<q, {e}, "no">>
    BY <1>3 DEF ReplayStage
  <2>2. q \in Pollers
    BY <1>1 DEF Known, Pollers
  <2>3. /\ q.authorized = p.authorized /\ q.owned = p.owned /\ q.fileReady = p.fileReady
        /\ q.eogSent = p.eogSent /\ q.expected = p.expected /\ q.hint = p.hint
    BY DEF Known, Pollers
  <2>4. e \in Events /\ e.kind = "candidate" /\ e.game = p.hint
    BY <1>1, <1>3 DEF Events, GameIds, Games
  <2> HIDE DEF q, e
  <2>5. AskedFor(q.hint, E \cup {e})
    BY <2>3, <2>4 DEF AskedFor
  <2>6. q.eogSent => Reported(q.expected, E \cup {e})
    BY <2>3 DEF Known, Reported
  <2>7. Known(q, E \cup {e})
    BY <2>2, <2>3, <2>5, <2>6 DEF Known
  <2>8. Sound({e})
    BY <2>4 DEF Sound
  <2> QED
    BY <2>1, <2>7, <2>8
<1>4. CASE p.hint # 0 /\ p.authorized = p.hint /\ o[3] = "no" /\ o # <<p, {}, "no">>
  <2> DEFINE q == [p EXCEPT !.downloaded = p.hint, !.owned = 0]
  <2>1. Known(q, E) /\ q.hint = p.hint
    <3>1. q \in Pollers
      BY <1>1, NoGame DEF Known, Pollers
    <3>2. /\ q.authorized = p.authorized /\ q.owned = 0 /\ q.fileReady = p.fileReady
          /\ q.eogSent = p.eogSent /\ q.expected = p.expected /\ q.hint = p.hint
          /\ q.requested = p.requested /\ q.sent = p.sent
      BY DEF Known, Pollers
    <3> HIDE DEF q
    <3> QED
      BY <3>1, <3>2 DEF Known, Asking
  <2>2. PICK c \in Collect(p) \cup Collect(q) : o = <<c[1], c[2], "no">>
    BY <1>4 DEF ReplayStage, Precheck
  <2> HIDE DEF q
  <2>3. Known(c[1], E \cup c[2]) /\ Sound(c[2])
    BY <1>4, <2>1, CollectSteps
  <2> QED
    BY <2>2, <2>3
<1>5. CASE o[3] # "no"
  <2>1. PICK c \in Precheck(p.hint) : c # "existing" /\ o = <<p, {}, c>>
    BY <1>5 DEF ReplayStage
  <2>2. p.hint # 0 /\ p.authorized = p.hint
    BY <1>5 DEF ReplayStage
  <2>3. c \in {"clear", "unsure"} /\ (c = "clear" => ~OnDisk(p.hint))
    BY <2>1 DEF Precheck
  <2>4. Sound({})
    BY DEF Sound
  <2> QED
    BY <2>1, <2>2, <2>3, <2>4
<1>6. p.hint = 0 => o = <<p, {}, "no">>
  BY DEF ReplayStage
<1> QED
  BY <1>2, <1>3, <1>4, <1>5, <1>6

LEMMA AnswerTypes ==
  ASSUME TypeOK, NEW a \in Answers
  PROVE  a.block \in GameIds /\ a.session \in GameIds /\ a.recent \in GameIds /\ a.full \in BOOLEAN
BY DEF Answers, TypeOK, Games, GameIds

\* What an attempt takes for a result is a result of the awaited game, which is the
\* one the poller will expect.
LEMMA EvidenceIsAwaited ==
  ASSUME TypeOK, NEW p \in Pollers, NEW a \in Answers, Evidence(p, a) # 0
  PROVE  /\ Evidence(p, a) \in Games
         /\ Evidence(p, a) = IF p.expected = 0 THEN PayloadGame(p, a) ELSE p.expected
<1>1. Evidence(p, a) = Awaited(p, a)
  BY DEF Evidence
<1>2. Evidence(p, a) \in GameIds
  BY AnswerTypes, NoGame DEF Evidence
<1> QED
  BY <1>1, <1>2 DEF Awaited, GameIds, Games

LEMMA AttemptKnown ==
  ASSUME TypeOK, NEW p, NEW E, Known(p, E), ~p.eogSent, NEW a \in Answers
  PROVE  Known(EogAttempt(p, a), E \cup ResultEvents(p, a)) /\ Sound(ResultEvents(p, a))
<1> DEFINE id == PayloadGame(p, a)
           R == ResultEvents(p, a)
           q == [p EXCEPT !.expected = IF @ = 0 THEN id ELSE @, !.eogSent = Evidence(p, a) # 0]
           n == [q EXCEPT !.hint = id, !.roster = a.block # 0 /\ a.full, !.requested = 0,
                          !.resolved = 0, !.authorized = 0, !.downloaded = 0, !.owned = 0,
                          !.fileReady = 0]
<1>1. p \in Pollers /\ id \in GameIds
  BY AnswerTypes DEF Known, PayloadGame, Pollers
<1>2. Sound(R) /\ (Evidence(p, a) # 0 => R = {[kind |-> "result", game |-> Evidence(p, a)]})
  BY <1>1, EvidenceIsAwaited DEF ResultEvents, Sound, Events, Results
<1>3. q \in Pollers
  <2>1. (Evidence(p, a) # 0) \in BOOLEAN /\ (IF p.expected = 0 THEN id ELSE p.expected) \in GameIds
    BY <1>1 DEF Pollers
  <2> HIDE DEF id
  <2> QED
    BY <1>1, <2>1 DEF Pollers
<1>4. /\ q.authorized = p.authorized /\ q.owned = p.owned /\ q.fileReady = p.fileReady
      /\ q.eogSent <=> Evidence(p, a) # 0
      /\ q.expected = IF p.expected = 0 THEN id ELSE p.expected
      /\ q.hint = p.hint /\ q.requested = p.requested /\ q.sent = p.sent
  BY <1>1 DEF Pollers
<1>5. q.eogSent => Reported(q.expected, E \cup R)
  <2> HIDE DEF q
  <2> SUFFICES ASSUME q.eogSent PROVE Reported(q.expected, E \cup R)
    OBVIOUS
  <2> DEFINE e == [kind |-> "result", game |-> Evidence(p, a)]
  <2>1. Evidence(p, a) # 0
    BY <1>4
  <2>2. Evidence(p, a) = q.expected
    BY <1>1, <1>4, <2>1, EvidenceIsAwaited
  <2>3. e \in R /\ e.kind = "result" /\ e.game = q.expected
    BY <1>2, <2>1, <2>2
  <2> HIDE DEF e, R
  <2> QED
    BY <2>3 DEF Reported
<1> HIDE DEF q
<1>6. Known(q, E \cup R)
  <2>1. Asking(q) => AskedFor(q.hint, E \cup R)
    BY <1>4 DEF Known, Asking, AskedFor
  <2> QED
    BY <1>3, <1>4, <1>5, <2>1 DEF Known
<1>7. id # 0 => Known(n, E \cup R)
  <2>1. n \in Pollers
    <3>1. (a.block # 0 /\ a.full) \in BOOLEAN
      OBVIOUS
    <3> HIDE DEF id
    <3> QED
      BY <1>1, <1>3, <3>1, NoGame DEF Pollers
  <2>2. /\ n.authorized = 0 /\ n.owned = 0 /\ n.fileReady = 0 /\ n.requested = 0
        /\ n.eogSent = q.eogSent /\ n.expected = q.expected /\ n.hint = id
    BY <1>3 DEF Pollers
  <2> HIDE DEF n, id, R
  <2> QED
    BY <1>5, <2>1, <2>2 DEF Known, Asking
<1>8. EogAttempt(p, a) = q \/ (id # 0 /\ EogAttempt(p, a) = n)
  BY DEF EogAttempt, q
<1> QED
  BY <1>2, <1>6, <1>7, <1>8

LEMMA RecoverySteps ==
  ASSUME TypeOK, NEW p, NEW E, Known(p, E), NEW r \in Recoveries(p)
  PROVE  Known(r[1], E \cup r[2]) /\ Sound(r[2])
<1>1. CASE r = <<p, {}>>
  BY <1>1 DEF Sound
<1>2. CASE r # <<p, {}>>
  <2>1. ShouldAttempt(p) /\ \E a \in Answers : r = <<EogAttempt(p, a), ResultEvents(p, a)>>
    BY <1>2 DEF Recoveries
  <2>2. PICK a \in Answers : r = <<EogAttempt(p, a), ResultEvents(p, a)>>
    BY <2>1
  <2>3. ~p.eogSent
    BY <2>1 DEF ShouldAttempt
  <2> QED
    BY <2>2, <2>3, AttemptKnown
<1> QED
  BY <1>1, <1>2

LEMMA DecidedKnown ==
  ASSUME NEW p, NEW E, Known(p, E), NEW t \in preflights, t.game \in Games,
         NEW Q, preflights \subseteq Q \cup {t},
         t.answer = "yes" => t.game \in Needed, t.answer # "asking",
         NEW q, q = Decided(p, t.game, t.answer)
  PROVE  /\ q \in Pollers
         /\ q.authorized \in Needed \cup {0}
         /\ q.owned \in {0, q.hint} /\ q.fileReady \in {0, q.hint}
         /\ q.owned # 0 /\ q.fileReady # q.hint => NotPlayers(q.owned)
         /\ q.eogSent => Reported(q.expected, E)
         /\ Asking(q) =>
            \/ \E e \in E : e.kind = "candidate" /\ e.game = q.hint
            \/ \E s \in Q : s.game = q.hint
<1> DEFINE g == t.game
<1>0. p \in Pollers /\ g \in GameIds
  BY DEF Known, Games, GameIds
<1>1. CASE p.hint # g
  <2>1. q = p
    BY <1>1 DEF Decided
  <2>2. \A s \in preflights : s.game = p.hint => s \in Q
    BY <1>1
  <2>3. Asking(q) =>
            \/ \E e \in E : e.kind = "candidate" /\ e.game = q.hint
            \/ \E s \in Q : s.game = q.hint
    BY <2>1, <2>2 DEF Known, AskedFor
  <2>4. Known(q, E)
    BY <2>1
  <2> QED
    BY <2>3, <2>4 DEF Known
<1>2. CASE p.hint = g /\ t.answer = "yes"
  <2>1. q = [p EXCEPT !.resolved = g, !.authorized = g]
    BY <1>2 DEF Decided
  <2>2. q \in Pollers
    BY <1>0, <2>1 DEF Pollers
  <2>3. /\ q.authorized = g /\ q.owned = p.owned /\ q.fileReady = p.fileReady
        /\ q.eogSent = p.eogSent /\ q.expected = p.expected /\ q.hint = p.hint
    BY <1>0, <2>1 DEF Pollers
  <2> QED
    BY <1>2, <2>2, <2>3 DEF Known, Asking
<1>3. CASE p.hint = g /\ t.answer = "no"
  <2>1. q = [GiveUp(p) EXCEPT !.resolved = g]
    BY <1>3 DEF Decided
  <2>2. Known(GiveUp(p), E) /\ GiveUp(p).hint = 0
    BY GiveUpKnown
  <2> DEFINE k == GiveUp(p)
  <2>3. k \in Pollers
    BY <2>2 DEF Known
  <2> HIDE DEF k
  <2>4. q \in Pollers
    BY <1>0, <2>1, <2>3 DEF Pollers, k
  <2>5. /\ q.authorized = k.authorized /\ q.owned = k.owned /\ q.fileReady = k.fileReady
        /\ q.eogSent = k.eogSent /\ q.expected = k.expected /\ q.hint = k.hint
    BY <2>1, <2>3 DEF Pollers, k
  <2> QED
    BY <2>2, <2>4, <2>5 DEF Known, Asking, k
<1>4. CASE p.hint = g /\ t.answer \notin {"yes", "no"}
  <2> DEFINE k == [p EXCEPT !.requested = 0]
  <2>1. q = IF p.authorized = g THEN p ELSE k
    BY <1>4 DEF Decided
  <2>2. k \in Pollers
    BY <1>0, NoGame DEF Pollers
  <2>3. /\ k.authorized = p.authorized /\ k.owned = p.owned /\ k.fileReady = p.fileReady
        /\ k.eogSent = p.eogSent /\ k.expected = p.expected /\ k.hint = p.hint
        /\ k.requested = 0
    BY <1>0 DEF Pollers
  <2> HIDE DEF k
  <2> QED
    BY <1>4, <2>1, <2>2, <2>3 DEF Known, Asking
<1> QED
  BY <1>1, <1>2, <1>3, <1>4

-------------------------------------------------------------------------------
(* The inductive invariant.                                                  *)

Stored(t) == [game |-> t.game, file |-> t.file, version |-> t.version] \in stored

\* The worker between the two halves of a poll, and without a connection.
Worker ==
    /\ checked = "no" => held = {}
    /\ checked # "no" => up /\ Room /\ poller.hint # 0 /\ poller.authorized = poller.hint
    /\ checked = "clear" /\ poller.fileReady # poller.hint => NotPlayers(poller.hint)
    /\ ~up => poller = Fresh /\ batches = <<>>

\* An upload that waits to delete its file has stored this version, or the file has
\* another one, and versions do not come back; once it has checked the file, what is
\* there is that version or was written since.
Checked(t) ==
    t.state = "deleting" =>
      t.delete /\ Stored(t) /\ (OnDisk(t.file) /\ disk[t.file].version <= t.asOf => Same(t))

Tasks ==
    /\ \A t \in preflights : t.answer = "yes" => t.game \in Needed
    /\ \A t \in uploads :
         /\ Spared(t)
         /\ t.delete => t.file = t.game
         /\ t.state = "watching" => t.delete /\ (Same(t) => Stored(t))
         /\ t.asOf <= writes /\ Checked(t)

IndInv ==
    /\ TypeOK /\ FilesAreOld /\ Worker /\ Tasks /\ DownloadsAreWanted
    /\ Known(poller, Pending) /\ Sound(Pending)
    /\ client <= faults + 1

LEMMA InitInd == Init => IndInv
<1> SUFFICES ASSUME Init PROVE IndInv
  OBVIOUS
<1>1. TypeOK
  <2>1. phase \in Phases /\ game \in GameIds /\ client \in 1..(MaxFaults + 1) /\ up \in BOOLEAN
    BY DEF Init, Phases, GameIds
  <2>2. poller \in Pollers /\ checked \in {"no", "clear", "unsure"} /\ held \subseteq Events
    BY FreshType DEF Init
  <2>3. batches \in Seq(SUBSET Events) /\ Len(batches) <= BatchCap
    BY DEF Init
  <2>4. preflights \subseteq PreflightTasks /\ uploads \subseteq UploadTasks /\ outbox \subseteq Results
    BY DEF Init
  <2>5. disk \in [Games -> FileStates \cup {None}] /\ writes \in 0..MaxWrites
    BY DEF Init
  <2>6. /\ downloading \subseteq Games /\ faults \in 0..MaxFaults
        /\ stored \subseteq [game : Games, file : Games, version : Versions]
    BY DEF Init
  <2> QED
    BY <2>1, <2>2, <2>3, <2>4, <2>5, <2>6 DEF TypeOK
<1>2. FilesAreOld /\ Tasks /\ DownloadsAreWanted /\ Worker
  BY DEF Init, FilesAreOld, Tasks, DownloadsAreWanted, Worker, OnDisk, Fresh
<1>3. Pending = {}
  BY DEF Init, Pending
<1>4. Known(poller, Pending)
  BY <1>1 DEF TypeOK, Init, Known, Asking, Fresh
<1>5. Sound(Pending)
  BY <1>3 DEF Sound
<1>6. client <= faults + 1
  BY DEF Init
<1> QED
  BY <1>1, <1>2, <1>4, <1>5, <1>6 DEF IndInv

-------------------------------------------------------------------------------
(* The channel.                                                              *)

Sent == UNION {batches[i] : i \in DOMAIN batches}

LEMMA SendPending ==
  ASSUME batches \in Seq(SUBSET Events), NEW E \in SUBSET Events, Send(E)
  PROVE  /\ batches' \in Seq(SUBSET Events) /\ Len(batches') <= Len(batches) + 1
         /\ Sent' = Sent \cup E
<1>1. CASE E = {}
  BY <1>1 DEF Send, Sent
<1>2. CASE E # {}
  <2>1. batches' = Append(batches, E)
    BY <1>2 DEF Send
  <2>2. batches' \in Seq(SUBSET Events) /\ Len(batches') = Len(batches) + 1
    BY <2>1
  <2>3. \A i \in DOMAIN batches' : batches'[i] = IF i \in DOMAIN batches THEN batches[i] ELSE E
    BY <2>1
  <2>4. DOMAIN batches' = DOMAIN batches \cup {Len(batches) + 1}
    BY <2>1
  <2>5. Len(batches) + 1 \notin DOMAIN batches
    OBVIOUS
  <2>6. Sent' = Sent \cup E
    BY <2>3, <2>4, <2>5 DEF Sent
  <2> QED
    BY <2>2, <2>6
<1> QED
  BY <1>1, <1>2

LEMMA TakePending ==
  ASSUME batches \in Seq(SUBSET Events), batches # <<>>, batches' = Tail(batches)
  PROVE  /\ batches' \in Seq(SUBSET Events) /\ Len(batches') = Len(batches) - 1
         /\ Head(batches) \subseteq Sent
         /\ Sent' \subseteq Sent /\ Sent \subseteq Sent' \cup Head(batches)
<1>1. /\ batches' \in Seq(SUBSET Events) /\ Len(batches') = Len(batches) - 1
      /\ Head(batches) = batches[1] /\ Len(batches) \in Nat \ {0}
  OBVIOUS
<1>2. \A i \in DOMAIN batches' : i + 1 \in DOMAIN batches /\ batches'[i] = batches[i + 1]
  BY <1>1
<1>3. \A i \in DOMAIN batches : i # 1 => i - 1 \in DOMAIN batches' /\ batches[i] = batches'[i - 1]
  BY <1>1
<1>4. 1 \in DOMAIN batches
  BY <1>1
<1>5. Sent' \subseteq Sent
  BY <1>2 DEF Sent
<1>6. Sent \subseteq Sent' \cup Head(batches)
  <2> SUFFICES ASSUME NEW i \in DOMAIN batches, NEW e \in batches[i], i # 1
               PROVE  e \in Sent'
    BY <1>1 DEF Sent
  <2>1. i - 1 \in DOMAIN batches' /\ e \in batches'[i - 1]
    BY <1>3
  <2> QED
    BY <2>1 DEF Sent
<1>7. Head(batches) \subseteq Sent
  BY <1>1, <1>4 DEF Sent
<1> QED
  BY <1>1, <1>5, <1>6, <1>7

-------------------------------------------------------------------------------
(* What a step carries over to the next state.                               *)

LEMMA KnownFrame ==
  ASSUME NEW F, Known(poller', F),
         \A e \in F \cup outbox : e.kind = "result" => e \in outbox' \cup Pending',
         \A e \in F : e.kind = "candidate" =>
            e \in Pending' \/ \E s \in preflights' : s.game = e.game,
         \A t \in preflights : \E s \in preflights' : s.game = t.game,
         poller'.owned # 0 /\ poller'.fileReady # poller'.hint /\ NotPlayers(poller'.owned)
           => NotPlayers(poller.owned)'
  PROVE  Known(poller, Pending)'
<1>1. Reported(poller'.expected, F) => Reported(poller.expected, Pending)'
  BY DEF Reported
<1>2. AskedFor(poller'.hint, F) => AskedFor(poller.hint, Pending)'
  BY DEF AskedFor
<1> QED
  BY <1>1, <1>2 DEF Known, Asking

\* Versions do not come back: a file that has an old version now had it before.
VersionsKept ==
    /\ writes <= writes'
    /\ \A g \in Games : OnDisk(g)' /\ disk'[g].version <= writes =>
         OnDisk(g) /\ disk'[g].version = disk[g].version /\ disk'[g].by = disk[g].by

LEMMA FilesUntouched ==
  ASSUME TypeOK, UNCHANGED fileVars
  PROVE  VersionsKept
<1>1. writes \in Nat
  BY DEF TypeOK
<1> QED
  BY <1>1 DEF VersionsKept, fileVars, OnDisk

LEMMA SparedFrame ==
  ASSUME TypeOK, TypeOK', VersionsKept, NEW x, x.file \in Games, x.version \in Versions, Spared(x)
  PROVE  Spared(x)' /\ (Same(x)' => Same(x))
<1>1. writes \in Nat /\ writes' \in Nat /\ x.version \in Nat
  BY DEF TypeOK, Versions
<1> QED
  BY <1>1 DEF VersionsKept, Spared, Same

LEMMA SoundFrame ==
  ASSUME TypeOK, TypeOK', VersionsKept, NEW F, Sound(F), Pending' \subseteq F
  PROVE  Sound(Pending)'
<1>1. ASSUME NEW e \in F, e.kind = "ready" PROVE Spared(e)'
  <2>1. e.file \in Games /\ e.version \in Versions
    BY <1>1 DEF Sound, Events, Results
  <2> QED
    BY <1>1, <2>1, SparedFrame DEF Sound
<1> QED
  BY <1>1 DEF Sound

LEMMA CheckedFrame ==
  ASSUME TypeOK, TypeOK', VersionsKept, NEW t \in UploadTasks, t.asOf <= writes, Checked(t),
         Stored(t) => Stored(t)'
  PROVE  (t.asOf <= writes)' /\ Checked(t)'
<1>1. writes \in Nat /\ writes' \in Nat /\ t.asOf \in Nat /\ writes <= writes' /\ t.file \in Games
  BY DEF TypeOK, VersionsKept, UploadTasks
<1>2. t.asOf <= writes'
  BY <1>1
<1>3. ASSUME OnDisk(t.file)', disk'[t.file].version <= t.asOf
      PROVE  OnDisk(t.file) /\ disk[t.file].version = disk'[t.file].version
  <2>1. disk'[t.file] \in FileStates
    BY <1>1, <1>3 DEF TypeOK, OnDisk
  <2>2. disk'[t.file].version \in Nat
    BY <2>1 DEF FileStates, Versions
  <2>3. disk'[t.file].version <= writes
    BY <1>1, <1>3, <2>2
  <2> QED
    BY <1>1, <1>3, <2>3 DEF VersionsKept
<1>4. Checked(t)'
  BY <1>3 DEF Checked, Same
<1> QED
  BY <1>2, <1>4

LEMMA TasksFrame ==
  ASSUME TypeOK, TypeOK', VersionsKept, Tasks, uploads' \subseteq uploads, stored \subseteq stored',
         \A t \in preflights' : t.answer = "yes" => t.game \in Needed
  PROVE  Tasks'
<1>1. ASSUME NEW t \in uploads
      PROVE  /\ Spared(t)' /\ (t.state = "watching" => (Same(t)' => Stored(t)'))
             /\ (t.asOf <= writes)' /\ Checked(t)'
  <2>1. t.file \in Games /\ t.version \in Versions
    BY DEF TypeOK, UploadTasks
  <2>2. Spared(t)' /\ (Same(t)' => Same(t))
    BY <2>1, SparedFrame DEF Tasks
  <2>3. Stored(t) => Stored(t)'
    BY DEF Stored
  <2>4. Checked(t) /\ t.asOf <= writes
    BY DEF Tasks
  <2>5. (t.asOf <= writes)' /\ Checked(t)'
    BY <2>1, <2>3, <2>4, CheckedFrame DEF TypeOK, UploadTasks
  <2>6. t.state = "watching" => (Same(t) => Stored(t))
    BY DEF Tasks
  <2> QED
    BY <2>2, <2>3, <2>5, <2>6
<1> QED
  BY <1>1 DEF Tasks

-------------------------------------------------------------------------------
(* The steps of the worker.                                                  *)

LEMMA PendingIsSent == Pending = held \cup Sent
BY DEF Pending, Sent

LEMMA PollStep == IndInv /\ Poll => IndInv'
<1> SUFFICES ASSUME IndInv, Poll PROVE IndInv'
  OBVIOUS
<1> USE DEF IndInv
<1> DEFINE first == EnterPhase(Observe(poller))
<1>1. PICK r \in Recoveries(first), eogOld, replayOld \in BOOLEAN :
      \E o \in ReplayStage(EndRecovery(r[1], eogOld)) :
         /\ checked' = o[3]
         /\ IF o[3] = "no"
            THEN /\ poller' = Expire(o[1], replayOld)
                 /\ Send(r[2] \cup o[2])
                 /\ held' = {}
            ELSE /\ poller' = o[1]
                 /\ held' = r[2]
                 /\ UNCHANGED batches
  BY DEF Poll
<1>2. PICK o \in ReplayStage(EndRecovery(r[1], eogOld)) :
         /\ checked' = o[3]
         /\ IF o[3] = "no"
            THEN /\ poller' = Expire(o[1], replayOld)
                 /\ Send(r[2] \cup o[2])
                 /\ held' = {}
            ELSE /\ poller' = o[1]
                 /\ held' = r[2]
                 /\ UNCHANGED batches
  BY <1>1
<1>3. /\ up /\ checked = "no" /\ Room
      /\ UNCHANGED <<worldVars, up, taskVars, fileVars, downloading, stored, faults>>
  BY DEF Poll
<1> DEFINE R == r[2]
           O == o[2]
           F == (Pending \cup R) \cup O
<1>4. Known(first, Pending)
  <2>1. Known(Observe(poller), Pending)
    BY ObserveKnown DEF TypeOK
  <2> QED
    BY <2>1, EnterPhaseKnown DEF TypeOK
<1>5. Known(r[1], Pending \cup R) /\ Sound(R)
  BY <1>4, RecoverySteps
<1>6. Known(EndRecovery(r[1], eogOld), Pending \cup R)
  BY <1>5, EndRecoveryKnown
<1>7. /\ Known(o[1], F) /\ Sound(O)
      /\ o[3] \in {"no", "clear", "unsure"}
      /\ o[3] # "no" => /\ O = {} /\ o[1].hint # 0 /\ o[1].authorized = o[1].hint
                        /\ o[3] = "clear" => ~OnDisk(o[1].hint)
  BY <1>6, StageSteps
<1>8. Sound(F)
  BY <1>5, <1>7, SoundOfBoth
<1>9. Pending = Sent
  BY <1>3, PendingIsSent DEF Worker
<1>10. /\ Known(poller', F) /\ Pending' = F
       /\ batches' \in Seq(SUBSET Events) /\ Len(batches') <= BatchCap
       /\ held' \subseteq Events
  <2>1. CASE o[3] = "no"
    <3>1. Known(poller', F)
      BY <1>2, <1>7, <2>1, ExpireKnown
    <3>2. R \cup O \in SUBSET Events
      BY <1>5, <1>7 DEF Sound
    <3>3. Send(R \cup O) /\ held' = {}
      BY <1>2, <2>1
    <3>4. /\ batches' \in Seq(SUBSET Events) /\ Len(batches') <= Len(batches) + 1
          /\ Sent' = Sent \cup (R \cup O)
      BY <3>2, <3>3, SendPending DEF TypeOK
    <3>5. Len(batches') <= BatchCap
      BY <1>3, <3>4 DEF Room, TypeOK
    <3>6. Pending' = held' \cup Sent'
      BY DEF Pending, Sent
    <3> QED
      BY <1>9, <3>1, <3>3, <3>4, <3>5, <3>6
  <2>2. CASE o[3] # "no"
    <3>1. poller' = o[1] /\ held' = R /\ batches' = batches
      BY <1>2, <2>2
    <3>2. Pending' = held' \cup Sent
      BY <3>1 DEF Pending, Sent
    <3> QED
      BY <1>5, <1>7, <1>9, <2>2, <3>1, <3>2 DEF TypeOK, Sound
  <2> QED
    BY <2>1, <2>2
<1>11. TypeOK'
  <2>1. poller' \in Pollers /\ checked' \in {"no", "clear", "unsure"}
    BY <1>2, <1>7, <1>10 DEF Known
  <2> QED
    BY <1>3, <1>10, <2>1 DEF TypeOK, worldVars, taskVars, fileVars
<1>12. VersionsKept
  BY <1>3, FilesUntouched
<1>13. Worker'
  <2>1. CASE o[3] = "no"
    BY <1>2, <1>3, <2>1 DEF Worker
  <2>2. CASE o[3] # "no"
    <3>1. checked' = o[3] /\ poller' = o[1] /\ batches' = batches
      BY <1>2, <2>2
    <3>2. checked' = "clear" => NotPlayers(poller.hint)'
      BY <1>3, <1>7, <2>2, <3>1 DEF NotPlayers, OnDisk, fileVars
    <3> QED
      BY <1>3, <1>7, <2>2, <3>1, <3>2 DEF Worker, Room
  <2> QED
    BY <2>1, <2>2
<1>14. Known(poller, Pending)'
  <2>1. NotPlayers(poller'.owned) => NotPlayers(poller.owned)'
    BY <1>3 DEF NotPlayers, OnDisk, fileVars
  <2> QED
    BY <1>3, <1>10, <2>1, KnownFrame DEF taskVars
<1>15. Sound(Pending)'
  BY <1>8, <1>10, <1>11, <1>12, SoundFrame
<1>16. Tasks'
  BY <1>3, <1>11, <1>12, TasksFrame DEF taskVars, Tasks
<1>17. FilesAreOld' /\ DownloadsAreWanted' /\ (client <= faults + 1)'
  BY <1>3 DEF FilesAreOld, DownloadsAreWanted, OnDisk, fileVars, worldVars
<1> QED
  BY <1>11, <1>13, <1>14, <1>15, <1>16, <1>17

LEMMA RequestStep == IndInv /\ RequestDownload => IndInv'
<1> SUFFICES ASSUME IndInv, RequestDownload PROVE IndInv'
  OBVIOUS
<1> USE DEF IndInv
<1> DEFINE g == poller.hint
           P(accepted) == IF accepted
                  THEN [poller EXCEPT !.downloaded = g, !.owned = Owned(checked, g)] ELSE poller
<1>1. /\ checked # "no" /\ checked' = "no" /\ held' = {}
      /\ UNCHANGED <<worldVars, up, taskVars, fileVars, stored, faults>>
  BY DEF RequestDownload
<1>2. PICK accepted, replayOld \in BOOLEAN :
         /\ downloading' = IF accepted THEN downloading \cup {g} ELSE downloading
         /\ \E o \in Collect(P(accepted)) :
              /\ poller' = Expire(o[1], replayOld)
              /\ Send(held \cup o[2])
  BY DEF RequestDownload
<1>3. PICK o \in Collect(P(accepted)) :
              /\ poller' = Expire(o[1], replayOld)
              /\ Send(held \cup o[2])
  BY <1>2
<1>4. up /\ Room /\ g # 0 /\ poller.authorized = g
  BY <1>1 DEF Worker
<1>5. g \in Games /\ g \in Needed
  BY <1>4 DEF Known, Pollers, GameIds, Games
<1> DEFINE p == P(accepted)
           O == o[2]
           F == Pending \cup O
<1>6. Known(p, Pending) /\ p.hint = g
  <2> DEFINE q == [poller EXCEPT !.downloaded = g, !.owned = Owned(checked, g)]
  <2>1. q \in Pollers
    BY <1>5, NoGame DEF Known, Pollers, Owned, GameIds, Games
  <2>2. /\ q.authorized = poller.authorized /\ q.owned = Owned(checked, g)
        /\ q.fileReady = poller.fileReady /\ q.eogSent = poller.eogSent
        /\ q.expected = poller.expected /\ q.hint = poller.hint
        /\ q.requested = poller.requested /\ q.sent = poller.sent
    BY DEF Known, Pollers
  <2> HIDE DEF q
  <2>3. q.owned # 0 /\ q.fileReady # q.hint => NotPlayers(q.owned)
    BY <2>2 DEF Worker, Owned
  <2>4. Known(q, Pending)
    BY <2>1, <2>2, <2>3 DEF Known, Asking, Owned
  <2> QED
    BY <2>2, <2>4 DEF q
<1> HIDE DEF P
<1>7. Known(o[1], F) /\ Sound(O)
  BY <1>4, <1>6, CollectSteps
<1>8. Known(poller', F)
  BY <1>3, <1>7, ExpireKnown
<1>9. Sound(F)
  BY <1>7, SoundOfBoth
<1>10. /\ batches' \in Seq(SUBSET Events) /\ Len(batches') <= BatchCap /\ Pending' = F
  <2>1. held \cup O \in SUBSET Events
    BY <1>7 DEF Sound, TypeOK
  <2>2. /\ batches' \in Seq(SUBSET Events) /\ Len(batches') <= Len(batches) + 1
        /\ Sent' = Sent \cup (held \cup O)
    BY <1>3, <2>1, SendPending DEF TypeOK
  <2>3. Len(batches') <= BatchCap
    BY <1>4, <2>2 DEF Room, TypeOK
  <2>4. Pending' = held' \cup Sent'
    BY DEF Pending, Sent
  <2> QED
    BY <1>1, <2>2, <2>3, <2>4, PendingIsSent
<1>11. TypeOK'
  <2>1. poller' \in Pollers /\ downloading' \subseteq Games
    BY <1>2, <1>5, <1>8 DEF Known, TypeOK
  <2> QED
    BY <1>1, <1>10, <2>1 DEF TypeOK, worldVars, taskVars, fileVars
<1>12. VersionsKept
  BY <1>1, FilesUntouched
<1>13. Worker'
  BY <1>1, <1>4 DEF Worker
<1>14. Known(poller, Pending)'
  <2>1. NotPlayers(poller'.owned) => NotPlayers(poller.owned)'
    BY <1>1 DEF NotPlayers, OnDisk, fileVars
  <2> QED
    BY <1>1, <1>8, <1>10, <2>1, KnownFrame DEF taskVars
<1>15. Sound(Pending)'
  BY <1>9, <1>10, <1>11, <1>12, SoundFrame
<1>16. Tasks'
  BY <1>1, <1>11, <1>12, TasksFrame DEF taskVars, Tasks
<1>17. FilesAreOld' /\ (client <= faults + 1)'
  BY <1>1 DEF FilesAreOld, OnDisk, fileVars, worldVars
<1>18. DownloadsAreWanted'
  BY <1>1, <1>2, <1>5 DEF DownloadsAreWanted, OnDisk, fileVars
<1> QED
  BY <1>11, <1>13, <1>14, <1>15, <1>16, <1>17, <1>18

LEMMA TakeDecisionStep ==
  ASSUME IndInv, NEW t \in preflights, TakeDecision(t)
  PROVE  IndInv'
<1> USE DEF IndInv
<1>1. /\ up /\ checked = "no" /\ t.answer # "asking"
      /\ preflights' = preflights \ {t}
      /\ poller' = Decided(poller, t.game, t.answer)
      /\ UNCHANGED <<worldVars, up, checked, held, batches, uploads, outbox, fileVars,
                     downloading, stored, faults>>
  BY DEF TakeDecision
<1>2. t.game \in Games
  BY DEF TypeOK, PreflightTasks
<1>3. preflights \subseteq preflights' \cup {t} /\ (t.answer = "yes" => t.game \in Needed)
  BY <1>1 DEF Tasks
<1>4. /\ poller' \in Pollers
      /\ poller'.authorized \in Needed \cup {0}
      /\ poller'.owned \in {0, poller'.hint} /\ poller'.fileReady \in {0, poller'.hint}
      /\ poller'.owned # 0 /\ poller'.fileReady # poller'.hint => NotPlayers(poller'.owned)
      /\ poller'.eogSent => Reported(poller'.expected, Pending)
      /\ Asking(poller') =>
            \/ \E e \in Pending : e.kind = "candidate" /\ e.game = poller'.hint
            \/ \E s \in preflights' : s.game = poller'.hint
  BY <1>1, <1>2, <1>3, DecidedKnown
<1>5. Pending' = Pending
  BY <1>1 DEF Pending
<1>6. TypeOK'
  BY <1>1, <1>4 DEF TypeOK, worldVars, fileVars
<1>7. VersionsKept
  BY <1>1, FilesUntouched
<1>8. Worker'
  BY <1>1 DEF Worker
<1>9. Known(poller, Pending)'
  <2>1. NotPlayers(poller'.owned) => NotPlayers(poller.owned)'
    BY <1>1 DEF NotPlayers, OnDisk, fileVars
  <2>2. Reported(poller'.expected, Pending) => Reported(poller.expected, Pending)'
    BY <1>1, <1>5 DEF Reported
  <2>3. Asking(poller') => AskedFor(poller.hint, Pending)'
    BY <1>4, <1>5 DEF AskedFor
  <2> QED
    BY <1>4, <2>1, <2>2, <2>3 DEF Known, Asking
<1>10. Sound(Pending)'
  BY <1>5, <1>6, <1>7, SoundFrame
<1>11. Tasks'
  BY <1>1, <1>6, <1>7, TasksFrame DEF Tasks
<1>12. FilesAreOld' /\ DownloadsAreWanted' /\ (client <= faults + 1)'
  BY <1>1 DEF FilesAreOld, DownloadsAreWanted, OnDisk, fileVars, worldVars
<1> QED
  BY <1>6, <1>8, <1>9, <1>10, <1>11, <1>12

-------------------------------------------------------------------------------
(* The steps of the supervisor and its tasks.                                *)

LEMMA NewIdType ==
  ASSUME NEW tasks, FreeIds(tasks) # {}
  PROVE  NewId(tasks) \in 1..MaxTasks
<1>1. NewId(tasks) \in FreeIds(tasks)
  BY DEF NewId
<1> QED
  BY <1>1 DEF FreeIds

LEMMA NoWrite == 0 \in 0..MaxWrites
OBVIOUS

\* An upload is as sound as the event that asked for it.
LEMMA UploadTaskSound ==
  ASSUME FreeIds(uploads) # {}, NEW e \in Events, e.kind = "ready", Spared(e)
  PROVE  LET t == UploadTask(e)
         IN  /\ t \in UploadTasks /\ Spared(t) /\ (t.delete => t.file = t.game)
             /\ t.state = "sending" /\ t.asOf = 0
<1> DEFINE t == UploadTask(e)
<1>1. /\ e.game \in Games /\ e.file \in Games /\ e.version \in Versions
      /\ e.delete \in BOOLEAN
  BY DEF Events, Results
<1>2. NewId(uploads) \in 1..MaxTasks
  BY NewIdType
<1>3. /\ t.game = e.game /\ t.file = e.file /\ t.version = e.version
      /\ t.delete = (e.delete /\ e.file = e.game) /\ t.state = "sending" /\ t.asOf = 0
  BY DEF UploadTask
<1>4. t \in UploadTasks
  <2>1. (e.delete /\ e.file = e.game) \in BOOLEAN
    OBVIOUS
  <2> QED
    BY <1>1, <1>2, <2>1, NoWrite DEF UploadTask, UploadTasks
<1>5. Spared(t)
  <2> HIDE DEF t
  <2> QED
    BY <1>3 DEF Spared, Same
<1> HIDE DEF t
<1> QED
  BY <1>3, <1>4, <1>5 DEF t

LEMMA DeliverStep == IndInv /\ Deliver => IndInv'
<1> SUFFICES ASSUME IndInv, Deliver PROVE IndInv'
  OBVIOUS
<1> USE DEF IndInv
<1> DEFINE B == Head(batches)
           of(kind) == {e \in B : e.kind = kind}
           asked == {[id |-> NewId(preflights), game |-> e.game, answer |-> "asking"] :
                       e \in of("candidate")}
           given == {UploadTask(e) : e \in of("ready")}
<1>1. /\ up /\ batches # <<>> /\ batches' = Tail(batches)
      /\ of("candidate") # {} => FreeIds(preflights) # {}
      /\ of("ready") # {} => FreeIds(uploads) # {}
      /\ outbox' = outbox \cup of("result")
      /\ preflights' = preflights \cup asked
      /\ uploads' = uploads \cup given
      /\ UNCHANGED <<worldVars, up, poller, checked, held, fileVars, downloading, stored, faults>>
  BY DEF Deliver
<1>2. /\ batches' \in Seq(SUBSET Events) /\ Len(batches') = Len(batches) - 1
      /\ B \subseteq Sent /\ Sent' \subseteq Sent /\ Sent \subseteq Sent' \cup B
  BY <1>1, TakePending DEF TypeOK
<1>3. Pending' = held \cup Sent' /\ Pending = held \cup Sent
  BY <1>1 DEF Pending, Sent
<1>4. \A e \in B : e \in Events /\ (e.kind = "ready" => Spared(e))
  BY <1>2, <1>3 DEF Sound
<1>5. \A s \in asked : s \in PreflightTasks /\ s.answer = "asking"
  <2>1. ASSUME NEW e \in of("candidate")
        PROVE  [id |-> NewId(preflights), game |-> e.game, answer |-> "asking"] \in PreflightTasks
    <3>1. e.game \in Games
      BY <1>4 DEF Events, Results
    <3>2. NewId(preflights) \in 1..MaxTasks
      BY <1>1, NewIdType
    <3> QED
      BY <3>1, <3>2 DEF PreflightTasks
  <2> QED
    BY <2>1
<1>6. \A s \in given : /\ s \in UploadTasks /\ Spared(s) /\ (s.delete => s.file = s.game)
                       /\ s.state = "sending" /\ s.asOf = 0
  <2>1. ASSUME NEW e \in of("ready")
        PROVE  LET s == UploadTask(e)
               IN  /\ s \in UploadTasks /\ Spared(s) /\ (s.delete => s.file = s.game)
                   /\ s.state = "sending" /\ s.asOf = 0
    BY <1>1, <1>4, UploadTaskSound
  <2> QED
    BY <2>1
<1>7. of("result") \subseteq Results
  BY <1>4 DEF Events, Results
<1>8. TypeOK'
  <2>1. Len(batches') <= BatchCap
    BY <1>2 DEF TypeOK
  <2>2. preflights' \subseteq PreflightTasks /\ uploads' \subseteq UploadTasks /\ outbox' \subseteq Results
    BY <1>1, <1>5, <1>6, <1>7 DEF TypeOK
  <2> QED
    BY <1>1, <1>2, <2>1, <2>2 DEF TypeOK, worldVars, fileVars
<1>9. VersionsKept
  BY <1>1, FilesUntouched
<1>10. Worker'
  <2>1. checked # "no" => Room'
    BY <1>2 DEF Worker, Room, TypeOK
  <2> QED
    BY <1>1, <2>1 DEF Worker, NotPlayers, OnDisk, fileVars
<1>11. Known(poller, Pending)'
  <2>1. \A e \in Pending \cup outbox : e.kind = "result" => e \in outbox' \cup Pending'
    BY <1>1, <1>2, <1>3
  <2>2. \A e \in Pending : e.kind = "candidate" =>
          e \in Pending' \/ \E s \in preflights' : s.game = e.game
    <3>1. ASSUME NEW e \in of("candidate") PROVE \E s \in preflights' : s.game = e.game
      <4>1. [id |-> NewId(preflights), game |-> e.game, answer |-> "asking"] \in preflights'
        BY <1>1
      <4> QED
        BY <4>1
    <3> QED
      BY <1>2, <1>3, <3>1
  <2>3. \A s \in preflights : \E z \in preflights' : z.game = s.game
    BY <1>1
  <2>4. NotPlayers(poller'.owned) => NotPlayers(poller.owned)'
    BY <1>1 DEF NotPlayers, OnDisk, fileVars
  <2>5. Known(poller', Pending)
    BY <1>1
  <2> QED
    BY <2>1, <2>2, <2>3, <2>4, <2>5, KnownFrame
<1>12. Sound(Pending)'
  <2>1. Pending' \subseteq Pending
    BY <1>2, <1>3
  <2> QED
    BY <1>8, <1>9, <2>1, SoundFrame
<1>13. Tasks'
  <2>1. UNCHANGED <<fileVars, stored>>
    BY <1>1
  <2>2. \A s : /\ (Spared(s)' <=> Spared(s)) /\ (Same(s)' <=> Same(s))
               /\ (Stored(s)' <=> Stored(s)) /\ (Checked(s)' <=> Checked(s))
    BY <2>1 DEF Spared, Same, Stored, OnDisk, Checked, fileVars
  <2>3. writes' = writes /\ 0 <= writes
    BY <1>1 DEF fileVars, TypeOK
  <2>4. \A s : s.state = "sending" => Checked(s)
    BY DEF Checked
  <2> HIDE DEF asked, given
  <2> QED
    BY <1>1, <1>5, <1>6, <2>2, <2>3, <2>4 DEF Tasks
<1>14. FilesAreOld' /\ DownloadsAreWanted' /\ (client <= faults + 1)'
  BY <1>1 DEF FilesAreOld, DownloadsAreWanted, OnDisk, fileVars, worldVars
<1> QED
  BY <1>8, <1>10, <1>11, <1>12, <1>13, <1>14

LEMMA LessAgain ==
  ASSUME NEW a \in Nat, NEW b \in Nat, NEW c \in Nat, c <= a + 1, a <= b
  PROVE  c <= b + 1
OBVIOUS

LEMMA CountFrame ==
  ASSUME TypeOK, TypeOK', client <= faults + 1, UNCHANGED client, faults <= faults'
  PROVE  (client <= faults + 1)'
<1>1. client \in Nat /\ faults \in Nat /\ faults' \in Nat
  BY DEF TypeOK
<1>2. client <= faults' + 1
  BY <1>1, LessAgain
<1> QED
  BY <1>2

\* What a step that leaves poller, channel and files alone keeps.
LEMMA Elsewhere ==
  ASSUME IndInv, TypeOK', UNCHANGED <<up, pollerVars, outbox, fileVars>>,
         \A t \in preflights : \E s \in preflights' : s.game = t.game
  PROVE  Worker' /\ Known(poller, Pending)' /\ Sound(Pending)' /\ VersionsKept /\ FilesAreOld'
<1> USE DEF IndInv
<1>1. Pending' = Pending
  BY DEF Pending, pollerVars
<1>2. VersionsKept
  BY FilesUntouched
<1>3. Worker'
  BY DEF Worker, pollerVars, fileVars, Room, NotPlayers, OnDisk
<1>4. Known(poller, Pending)'
  <2>1. NotPlayers(poller'.owned) => NotPlayers(poller.owned)'
    BY DEF NotPlayers, OnDisk, fileVars, pollerVars
  <2>2. Known(poller', Pending)
    BY DEF pollerVars
  <2> QED
    BY <1>1, <2>1, <2>2, KnownFrame
<1>5. Sound(Pending)'
  BY <1>1, <1>2, SoundFrame
<1>6. FilesAreOld'
  BY DEF FilesAreOld, OnDisk, fileVars
<1> QED
  BY <1>2, <1>3, <1>4, <1>5, <1>6

LEMMA PreflightStep ==
  ASSUME IndInv, NEW t \in preflights, Preflight(t)
  PROVE  IndInv'
<1> USE DEF IndInv
<1>1. PICK answer \in {"yes", "no", "retry"} :
         /\ answer = "yes" => t.game \in Needed
         /\ UNCHANGED faults \/ Fault
         /\ preflights' = (preflights \ {t}) \cup {[t EXCEPT !.answer = answer]}
  BY DEF Preflight
<1>2. UNCHANGED <<worldVars, up, pollerVars, uploads, outbox, fileVars, downloading, stored>>
  BY DEF Preflight
<1> DEFINE a == [t EXCEPT !.answer = answer]
<1>3. a \in PreflightTasks /\ a.game = t.game /\ a.answer = answer
  BY DEF TypeOK, PreflightTasks
<1>4. faults' \in 0..MaxFaults /\ faults <= faults'
  BY <1>1 DEF Fault, TypeOK
<1>5. TypeOK'
  BY <1>1, <1>2, <1>3, <1>4 DEF TypeOK, worldVars, pollerVars, fileVars
<1>6. \A z \in preflights : \E s \in preflights' : s.game = z.game
  <2> HIDE DEF a
  <2> QED
    BY <1>1, <1>3 DEF a
<1>7. Worker' /\ Known(poller, Pending)' /\ Sound(Pending)' /\ VersionsKept /\ FilesAreOld'
  BY <1>2, <1>5, <1>6, Elsewhere
<1>8. Tasks'
  <2>1. \A s \in preflights' : s.answer = "yes" => s.game \in Needed
    BY <1>1, <1>3 DEF Tasks
  <2> QED
    BY <1>2, <1>5, <1>7, <2>1, TasksFrame
<1>9. DownloadsAreWanted' /\ (client <= faults + 1)'
  BY <1>2, <1>4, <1>5, CountFrame DEF DownloadsAreWanted, OnDisk, fileVars, worldVars
<1> QED
  BY <1>5, <1>7, <1>8, <1>9

LEMMA UploadStep ==
  ASSUME IndInv, NEW t \in uploads, Upload(t)
  PROVE  IndInv'
<1> USE DEF IndInv
<1> DEFINE w == [t EXCEPT !.state = "watching"]
           new == [game |-> t.game, file |-> t.file, version |-> disk[t.file].version]
<1>1. /\ OnDisk(t.file)
      /\ stored' = stored \cup {new}
      /\ uploads' = (uploads \ {t}) \cup (IF t.delete THEN {w} ELSE {})
      /\ UNCHANGED <<worldVars, up, pollerVars, preflights, outbox, fileVars, downloading, faults>>
  BY DEF Upload
<1>2. /\ t.file \in Games /\ t.game \in Games /\ t.version \in Versions
      /\ w \in UploadTasks /\ w.game = t.game /\ w.file = t.file /\ w.version = t.version
      /\ w.delete = t.delete /\ w.state = "watching" /\ w.asOf = t.asOf
  BY DEF TypeOK, UploadTasks
<1>3. new \in [game : Games, file : Games, version : Versions]
  BY <1>1, <1>2, OnDiskType DEF FileStates
<1>4. TypeOK'
  BY <1>1, <1>2, <1>3 DEF TypeOK, worldVars, pollerVars, fileVars
<1>5. Worker' /\ Known(poller, Pending)' /\ Sound(Pending)' /\ VersionsKept /\ FilesAreOld'
  BY <1>1, <1>4, Elsewhere
<1>6. Tasks'
  <2>1. UNCHANGED fileVars
    BY <1>1
  <2>2. \A s : /\ (Spared(s)' <=> Spared(s)) /\ (Same(s)' <=> Same(s))
               /\ (Stored(s) => Stored(s)') /\ (Checked(s) => Checked(s)')
    BY <1>1, <2>1 DEF Spared, Same, Stored, OnDisk, Checked, fileVars
  <2>3. Spared(w) /\ (w.delete => w.file = w.game) /\ w.asOf <= writes /\ Checked(w)
    <3> HIDE DEF w
    <3> QED
      BY <1>2 DEF Tasks, Spared, Same, Checked
  <2>4. Same(w) => Stored(w)'
    <3> HIDE DEF w
    <3> QED
      BY <1>1, <1>2 DEF Same, Stored
  <2> HIDE DEF w
  <2>5. ASSUME NEW s \in uploads'
        PROVE  /\ Spared(s)'
               /\ s.delete => s.file = s.game
               /\ s.state = "watching" => s.delete /\ (Same(s)' => Stored(s)')
               /\ s.asOf <= writes' /\ Checked(s)'
    <3>0. writes' = writes
      BY <2>1 DEF fileVars
    <3>1. CASE s \in uploads
      BY <2>2, <3>0, <3>1 DEF Tasks
    <3>2. CASE s = w /\ t.delete
      BY <1>2, <2>2, <2>3, <2>4, <3>0, <3>2
    <3> QED
      BY <1>1, <3>1, <3>2
  <2> QED
    BY <1>1, <2>5 DEF Tasks
<1>7. DownloadsAreWanted' /\ (client <= faults + 1)'
  BY <1>1 DEF DownloadsAreWanted, OnDisk, fileVars, worldVars
<1> QED
  BY <1>4, <1>5, <1>6, <1>7

\* An upload that fails, and one that leaves its file alone.
LEMMA UploadOverStep ==
  ASSUME IndInv, NEW t \in uploads, UploadEnds(t) \/ KeepUploaded(t)
  PROVE  IndInv'
<1> USE DEF IndInv
<1>1. /\ uploads' \subseteq uploads
      /\ UNCHANGED faults \/ Fault
      /\ UNCHANGED <<worldVars, up, pollerVars, preflights, outbox, fileVars, downloading, stored>>
  BY DEF UploadEnds, KeepUploaded
<1>2. faults' \in 0..MaxFaults /\ faults <= faults'
  BY <1>1 DEF Fault, TypeOK
<1>3. TypeOK'
  BY <1>1, <1>2 DEF TypeOK, worldVars, pollerVars, fileVars
<1>4. Worker' /\ Known(poller, Pending)' /\ Sound(Pending)' /\ VersionsKept /\ FilesAreOld'
  BY <1>1, <1>3, Elsewhere
<1>5. Tasks'
  BY <1>1, <1>3, <1>4, TasksFrame DEF Tasks
<1>6. DownloadsAreWanted' /\ (client <= faults + 1)'
  BY <1>1, <1>2, <1>3, CountFrame DEF DownloadsAreWanted, OnDisk, fileVars, worldVars
<1> QED
  BY <1>3, <1>4, <1>5, <1>6

\* The poller is gone.
LEMMA LostStep == IndInv /\ (Disconnect \/ Crash) => IndInv'
<1> SUFFICES ASSUME IndInv, Disconnect \/ Crash PROVE IndInv'
  OBVIOUS
<1> USE DEF IndInv
<1>1. /\ Fault /\ up' = FALSE
      /\ poller' = Fresh /\ checked' = "no" /\ held' = {} /\ batches' = <<>>
      /\ preflights' = {} /\ uploads' \subseteq uploads
      /\ UNCHANGED <<worldVars, outbox, fileVars, downloading, stored>>
  BY DEF Disconnect, Crash
<1>2. faults' \in 0..MaxFaults /\ faults <= faults'
  BY <1>1 DEF Fault, TypeOK
<1>3. TypeOK'
  <2>1. poller' \in Pollers
    BY <1>1, FreshType
  <2>2. batches' \in Seq(SUBSET Events) /\ Len(batches') <= BatchCap
    BY <1>1
  <2>3. checked' \in {"no", "clear", "unsure"} /\ held' \subseteq Events /\ preflights' \subseteq PreflightTasks
        /\ up' \in BOOLEAN
    BY <1>1
  <2> QED
    BY <1>1, <1>2, <2>1, <2>2, <2>3 DEF TypeOK, worldVars, fileVars
<1>4. Pending' = {}
  BY <1>1 DEF Pending
<1>5. VersionsKept
  BY <1>1, FilesUntouched
<1>6. Worker'
  BY <1>1 DEF Worker
<1>7. Known(poller, Pending)'
  BY <1>1, <1>3 DEF TypeOK, Known, Asking, Fresh
<1>8. Sound(Pending)'
  BY <1>4 DEF Sound
<1>9. Tasks'
  BY <1>1, <1>3, <1>5, TasksFrame DEF Tasks
<1>10. FilesAreOld' /\ DownloadsAreWanted' /\ (client <= faults + 1)'
  BY <1>1, <1>2, <1>3, CountFrame DEF FilesAreOld, DownloadsAreWanted, OnDisk, fileVars, worldVars
<1> QED
  BY <1>3, <1>6, <1>7, <1>8, <1>9, <1>10

LEMMA ConnectStep == IndInv /\ Connect => IndInv'
<1> SUFFICES ASSUME IndInv, Connect PROVE IndInv'
  OBVIOUS
<1> USE DEF IndInv
<1>1. /\ up' = TRUE
      /\ UNCHANGED <<worldVars, pollerVars, taskVars, fileVars, downloading, stored, faults>>
  BY DEF Connect
<1>2. TypeOK'
  BY <1>1 DEF TypeOK, worldVars, pollerVars, taskVars, fileVars
<1>3. Pending' = Pending /\ VersionsKept
  BY <1>1, FilesUntouched DEF Pending, pollerVars
<1>4. Worker'
  BY <1>1 DEF Worker, pollerVars, fileVars, Room, NotPlayers, OnDisk
<1>5. Known(poller, Pending)'
  <2>1. NotPlayers(poller'.owned) => NotPlayers(poller.owned)'
    BY <1>1 DEF NotPlayers, OnDisk, fileVars, pollerVars
  <2>2. Known(poller', Pending)
    BY <1>1 DEF pollerVars
  <2> QED
    BY <1>1, <1>3, <2>1, <2>2, KnownFrame DEF taskVars
<1>6. Sound(Pending)'
  BY <1>2, <1>3, SoundFrame
<1>7. Tasks'
  BY <1>1, <1>2, <1>3, TasksFrame DEF Tasks, taskVars
<1>8. FilesAreOld' /\ DownloadsAreWanted' /\ (client <= faults + 1)'
  BY <1>1 DEF FilesAreOld, DownloadsAreWanted, OnDisk, fileVars, worldVars
<1> QED
  BY <1>2, <1>4, <1>5, <1>6, <1>7, <1>8

-------------------------------------------------------------------------------
(* The steps of the League client and the player, and those that change files. *)

LEMMA PhaseStep ==
  ASSUME IndInv, NEW next \in Phases, ChangePhase(next)
  PROVE  IndInv'
<1> USE DEF IndInv
<1>1. /\ phase' \in Phases /\ game' \in GameIds
      /\ UNCHANGED <<client, up, pollerVars, taskVars, fileVars, downloading, stored, faults>>
  BY DEF ChangePhase
<1>2. TypeOK'
  BY <1>1 DEF TypeOK, pollerVars, taskVars, fileVars
<1>3. Worker' /\ Known(poller, Pending)' /\ Sound(Pending)' /\ VersionsKept /\ FilesAreOld'
  BY <1>1, <1>2, Elsewhere DEF taskVars
<1>4. Tasks'
  BY <1>1, <1>2, <1>3, TasksFrame DEF Tasks, taskVars
<1>5. DownloadsAreWanted' /\ (client <= faults + 1)'
  BY <1>1 DEF DownloadsAreWanted, OnDisk, fileVars
<1> QED
  BY <1>2, <1>3, <1>4, <1>5

LEMMA RestartStep == IndInv /\ RestartClient => IndInv'
<1> SUFFICES ASSUME IndInv, RestartClient PROVE IndInv'
  OBVIOUS
<1> USE DEF IndInv
<1>1. /\ Fault /\ client' = client + 1 /\ downloading' = {}
      /\ UNCHANGED <<phase, game, up, pollerVars, taskVars, fileVars, stored>>
  BY DEF RestartClient
<1>2. /\ faults' \in 0..MaxFaults /\ client' \in 1..(MaxFaults + 1)
      /\ client' <= faults' + 1
  BY <1>1 DEF Fault, TypeOK
<1>3. TypeOK'
  BY <1>1, <1>2 DEF TypeOK, pollerVars, taskVars, fileVars
<1>4. Worker' /\ Known(poller, Pending)' /\ Sound(Pending)' /\ VersionsKept /\ FilesAreOld'
  BY <1>1, <1>3, Elsewhere DEF taskVars
<1>5. Tasks'
  BY <1>1, <1>3, <1>4, TasksFrame DEF Tasks, taskVars
<1>6. DownloadsAreWanted'
  BY <1>1 DEF DownloadsAreWanted, OnDisk, fileVars
<1> QED
  BY <1>2, <1>3, <1>4, <1>5, <1>6

\* What a change of files keeps that brings back no version and takes nothing from
\* the poller that it may rely on.
LEMMA FilesChange ==
  ASSUME IndInv, TypeOK', VersionsKept, UNCHANGED <<worldVars, up, pollerVars, preflights, outbox>>,
         UNCHANGED <<stored, faults>>, uploads' \subseteq uploads,
         poller.owned # 0 /\ poller.fileReady # poller.hint /\ NotPlayers(poller.owned)
           => NotPlayers(poller.owned)',
         checked = "clear" /\ poller.fileReady # poller.hint /\ NotPlayers(poller.hint)
           => NotPlayers(poller.hint)'
  PROVE  /\ Worker' /\ Known(poller, Pending)' /\ Sound(Pending)' /\ Tasks'
         /\ (client <= faults + 1)'
<1> USE DEF IndInv
<1>1. Pending' = Pending
  BY DEF Pending, pollerVars
<1>2. Worker'
  BY DEF Worker, pollerVars, Room
<1>3. Known(poller, Pending)'
  <2>1. Known(poller', Pending)
    BY DEF pollerVars
  <2> QED
    BY <1>1, <2>1, KnownFrame DEF pollerVars
<1>4. Sound(Pending)'
  BY <1>1, SoundFrame
<1>5. Tasks'
  BY TasksFrame DEF Tasks
<1> QED
  BY <1>2, <1>3, <1>4, <1>5 DEF worldVars

\* A deletion that has checked its file: this is the version that was stored.
LEMMA CheckStep ==
  ASSUME IndInv, NEW t \in uploads, CheckUploaded(t)
  PROVE  IndInv'
<1> USE DEF IndInv
<1> DEFINE w == [t EXCEPT !.state = "deleting", !.asOf = writes]
<1>1. /\ uploads' = (uploads \ {t}) \cup {w}
      /\ UNCHANGED <<worldVars, up, pollerVars, preflights, outbox, fileVars, downloading, stored,
                     faults>>
  BY DEF CheckUploaded
<1>2. t.state = "watching" /\ Same(t) /\ t.delete /\ Stored(t)
  BY DEF CheckUploaded, Deletable, Same, Tasks
<1>3. /\ t.file \in Games /\ t.game \in Games /\ t.version \in Versions
      /\ w \in UploadTasks /\ w.game = t.game /\ w.file = t.file /\ w.version = t.version
      /\ w.delete = t.delete /\ w.state = "deleting" /\ w.asOf = writes
  BY DEF TypeOK, UploadTasks
<1>4. TypeOK'
  BY <1>1, <1>3 DEF TypeOK, worldVars, pollerVars, fileVars
<1>5. Worker' /\ Known(poller, Pending)' /\ Sound(Pending)' /\ VersionsKept /\ FilesAreOld'
  BY <1>1, <1>4, Elsewhere
<1>6. Tasks'
  <2>1. writes' = writes /\ writes \in Nat
    BY <1>1 DEF fileVars, TypeOK
  <2>2. \A s : (Spared(s)' <=> Spared(s)) /\ (Same(s)' <=> Same(s)) /\ (Stored(s)' <=> Stored(s))
               /\ (Checked(s)' <=> Checked(s))
    BY <1>1 DEF Spared, Same, Stored, OnDisk, Checked, fileVars
  <2> HIDE DEF w
  <2>3. Spared(w) /\ (w.delete => w.file = w.game) /\ Checked(w)
    BY <1>2, <1>3 DEF Tasks, Spared, Same, Checked, Stored
  <2>4. ASSUME NEW s \in uploads'
        PROVE  /\ Spared(s)'
               /\ s.delete => s.file = s.game
               /\ s.state = "watching" => s.delete /\ (Same(s)' => Stored(s)')
               /\ s.asOf <= writes' /\ Checked(s)'
    <3>1. CASE s \in uploads
      BY <2>1, <2>2, <3>1 DEF Tasks
    <3>2. CASE s = w
      BY <1>3, <2>1, <2>2, <2>3, <3>2
    <3> QED
      BY <1>1, <3>1, <3>2
  <2> QED
    BY <1>1, <2>4 DEF Tasks
<1>7. DownloadsAreWanted' /\ (client <= faults + 1)'
  BY <1>1 DEF DownloadsAreWanted, OnDisk, fileVars, worldVars
<1> QED
  BY <1>4, <1>5, <1>6, <1>7

LEMMA DeleteStep ==
  ASSUME IndInv, NEW t \in uploads, DeleteUploaded(t)
  PROVE  IndInv'
<1> USE DEF IndInv
<1>1. /\ disk' = [disk EXCEPT ![t.file] = None] /\ uploads' = uploads \ {t}
      /\ UNCHANGED <<worldVars, up, pollerVars, preflights, outbox, writes, downloading, stored,
                     faults>>
  BY DEF DeleteUploaded
<1>2. t.file \in Games
  BY DEF TypeOK, UploadTasks
<1>3. TypeOK'
  <2>1. disk' \in [Games -> FileStates \cup {None}]
    BY <1>1, <1>2 DEF TypeOK
  <2> QED
    BY <1>1, <2>1 DEF TypeOK, worldVars, pollerVars
<1>4. \A g \in Games : OnDisk(g)' => OnDisk(g) /\ disk'[g] = disk[g]
  BY <1>1, <1>2 DEF TypeOK, OnDisk
<1>5. VersionsKept
  BY <1>1, <1>4 DEF VersionsKept, TypeOK
<1>6. \A g \in Games : NotPlayers(g) => NotPlayers(g)'
  BY <1>4 DEF NotPlayers
<1>0. poller' = poller
  BY <1>1 DEF pollerVars
<1>7. poller.hint \in GameIds /\ poller.owned \in GameIds
  BY DEF Known, Pollers
<1>8. /\ poller.owned # 0 => poller.owned \in Games
      /\ checked = "clear" => poller.hint \in Games
  BY <1>7 DEF GameIds, Games, Worker
<1>9. /\ Worker' /\ Known(poller, Pending)' /\ Sound(Pending)' /\ Tasks'
      /\ (client <= faults + 1)'
  <2>1. uploads' \subseteq uploads /\ UNCHANGED <<worldVars, up, pollerVars, preflights, outbox>>
        /\ UNCHANGED <<stored, faults>>
    BY <1>1
  <2>2. poller.owned # 0 /\ NotPlayers(poller.owned) => NotPlayers(poller.owned)'
    BY <1>0, <1>6, <1>8 DEF NotPlayers, OnDisk
  <2>3. checked = "clear" /\ NotPlayers(poller.hint) => NotPlayers(poller.hint)'
    BY <1>0, <1>6, <1>8 DEF NotPlayers, OnDisk
  <2> QED
    BY <1>3, <1>5, <2>1, <2>2, <2>3, FilesChange
<1>10. FilesAreOld' /\ DownloadsAreWanted'
  BY <1>1, <1>4 DEF FilesAreOld, DownloadsAreWanted
<1> QED
  BY <1>3, <1>9, <1>10

\* Writing a file makes a version that nobody has seen.
LEMMA WriteStep ==
  ASSUME IndInv, NEW g \in Games, NEW by \in {"agent", "user", "shared"}, NEW whole \in BOOLEAN,
         Write(g, by, whole), UNCHANGED downloading,
         by = "agent" => g \in Needed,
         by = "user" => /\ ~(poller.owned = g /\ poller.fileReady # poller.hint)
                       /\ ~(checked = "clear" /\ poller.hint = g /\ poller.fileReady # poller.hint)
  PROVE  IndInv'
<1> USE DEF IndInv
<1> DEFINE new == [by |-> by, version |-> writes', complete |-> whole]
<1>1. /\ writes < MaxWrites /\ writes' = writes + 1
      /\ disk' = [disk EXCEPT ![g] = new]
      /\ UNCHANGED <<worldVars, up, pollerVars, taskVars, stored, faults>>
  BY DEF Write
<1>2. writes \in Nat /\ writes' \in 0..MaxWrites /\ writes' \in Versions /\ writes < writes'
  BY <1>1 DEF TypeOK, Versions
<1>3. new \in FileStates /\ new.by = by /\ new.version = writes'
  BY <1>2 DEF FileStates
<1> HIDE DEF new
<1>4. TypeOK'
  <2>1. disk' \in [Games -> FileStates \cup {None}]
    BY <1>1, <1>3 DEF TypeOK
  <2> QED
    BY <1>1, <1>2, <2>1 DEF TypeOK, worldVars, pollerVars, taskVars
<1>5. \A f \in Games : disk'[f] = IF f = g THEN new ELSE disk[f]
  BY <1>1 DEF TypeOK
<1>6. VersionsKept
  <2>1. ASSUME NEW f \in Games, OnDisk(f)', disk'[f].version <= writes
        PROVE  OnDisk(f) /\ disk'[f].version = disk[f].version /\ disk'[f].by = disk[f].by
    <3>1. f # g
      BY <1>2, <1>3, <1>5, <2>1
    <3> QED
      BY <1>5, <2>1, <3>1 DEF OnDisk
  <2> QED
    BY <1>2, <2>1 DEF VersionsKept
<1>7. \A f \in Games : NotPlayers(f) /\ (f = g => by # "user") => NotPlayers(f)'
  BY <1>3, <1>5 DEF NotPlayers, OnDisk
<1>8. poller.hint \in GameIds /\ poller.owned \in GameIds
  BY DEF Known, Pollers
<1>9. /\ poller.owned # 0 => poller.owned \in Games
      /\ checked = "clear" => poller.hint \in Games
  BY <1>8 DEF GameIds, Games, Worker
<1>0. poller' = poller
  BY <1>1 DEF pollerVars
<1>10. /\ Worker' /\ Known(poller, Pending)' /\ Sound(Pending)' /\ Tasks'
       /\ (client <= faults + 1)'
  <2>1. poller.owned # 0 /\ poller.fileReady # poller.hint /\ NotPlayers(poller.owned)
           => NotPlayers(poller.owned)'
    BY <1>0, <1>7, <1>9 DEF NotPlayers, OnDisk
  <2>2. checked = "clear" /\ poller.fileReady # poller.hint /\ NotPlayers(poller.hint)
           => NotPlayers(poller.hint)'
    BY <1>0, <1>7, <1>9 DEF NotPlayers, OnDisk
  <2>3. uploads' \subseteq uploads /\ UNCHANGED <<worldVars, up, pollerVars, preflights, outbox>>
        /\ UNCHANGED <<stored, faults>>
    BY <1>1 DEF taskVars
  <2> QED
    BY <1>4, <1>6, <2>1, <2>2, <2>3, FilesChange
<1>11. FilesAreOld'
  BY <1>2, <1>3, <1>4, <1>5 DEF FilesAreOld, OnDisk, TypeOK, FileStates, Versions
<1>12. DownloadsAreWanted'
  BY <1>3, <1>5 DEF DownloadsAreWanted, OnDisk
<1> QED
  BY <1>4, <1>10, <1>11, <1>12

LEMMA StartDownloadStep ==
  ASSUME IndInv, NEW g \in Games, StartDownload(g)
  PROVE  IndInv'
<1>1. Write(g, "agent", FALSE) /\ UNCHANGED downloading
  BY DEF StartDownload
<1>2. g \in Needed
  BY DEF StartDownload, IndInv, DownloadsAreWanted
<1> QED
  BY <1>1, <1>2, WriteStep

LEMMA UserDownloadStep ==
  ASSUME IndInv, NEW g \in Games, UserDownload(g)
  PROVE  IndInv'
<1>1. Write(g, By(g), TRUE) /\ UNCHANGED downloading
  BY DEF UserDownload
<1>2. By(g) \in {"user", "shared"}
  BY DEF By
<1>3. ASSUME By(g) = "user"
      PROVE  /\ ~(poller.owned = g /\ poller.fileReady # poller.hint)
             /\ ~(checked = "clear" /\ poller.hint = g /\ poller.fileReady # poller.hint)
  <2>1. ~up \/ poller.fileReady = g \/ (poller.owned # g /\ ~(checked = "clear" /\ poller.hint = g))
    BY <1>3 DEF By
  <2>2. ~up => poller.owned = 0 /\ checked = "no"
    BY DEF IndInv, Worker, Fresh
  <2>3. poller.owned = g => poller.hint = g
    BY DEF IndInv, Known, Games
  <2> QED
    BY <2>1, <2>2, <2>3 DEF Games
<1> QED
  BY <1>1, <1>2, <1>3, WriteStep

LEMMA FinishDownloadStep ==
  ASSUME IndInv, NEW g \in Games, FinishDownload(g)
  PROVE  IndInv'
<1> USE DEF IndInv
<1>1. /\ OnDisk(g)
      /\ disk' = [disk EXCEPT ![g].complete = TRUE]
      /\ downloading' = downloading \ {g}
      /\ UNCHANGED <<worldVars, up, pollerVars, taskVars, writes, stored, faults>>
  BY DEF FinishDownload
<1> DEFINE new == [disk[g] EXCEPT !.complete = TRUE]
<1>2. new \in FileStates /\ new.by = disk[g].by /\ new.version = disk[g].version
  BY <1>1, OnDiskType DEF FileStates
<1>3. \A f \in Games : disk'[f] = IF f = g THEN new ELSE disk[f]
  BY <1>1 DEF TypeOK
<1> HIDE DEF new
<1>4. TypeOK'
  <2>1. disk' \in [Games -> FileStates \cup {None}]
    BY <1>1, <1>2, <1>3 DEF TypeOK
  <2> QED
    BY <1>1, <2>1 DEF TypeOK, worldVars, pollerVars, taskVars
<1>5. \A f \in Games : OnDisk(f)' =>
         OnDisk(f) /\ disk'[f].version = disk[f].version /\ disk'[f].by = disk[f].by
  BY <1>1, <1>2, <1>3 DEF OnDisk
<1>6. VersionsKept
  BY <1>1, <1>5 DEF VersionsKept, TypeOK
<1>7. poller' = poller /\ poller.hint \in GameIds /\ poller.owned \in GameIds
  BY <1>1 DEF Known, Pollers, pollerVars
<1>8. /\ poller.owned # 0 => poller.owned \in Games
      /\ checked = "clear" => poller.hint \in Games
  BY <1>7 DEF GameIds, Games, Worker
<1>9. /\ Worker' /\ Known(poller, Pending)' /\ Sound(Pending)' /\ Tasks'
      /\ (client <= faults + 1)'
  <2>1. uploads' \subseteq uploads /\ UNCHANGED <<worldVars, up, pollerVars, preflights, outbox>>
        /\ UNCHANGED <<stored, faults>>
    BY <1>1 DEF taskVars
  <2>2. poller.owned # 0 /\ NotPlayers(poller.owned) => NotPlayers(poller.owned)'
    BY <1>5, <1>7, <1>8 DEF NotPlayers, OnDisk
  <2>3. checked = "clear" /\ NotPlayers(poller.hint) => NotPlayers(poller.hint)'
    BY <1>5, <1>7, <1>8 DEF NotPlayers, OnDisk
  <2> QED
    BY <1>4, <1>6, <2>1, <2>2, <2>3, FilesChange
<1>10. FilesAreOld' /\ DownloadsAreWanted'
  BY <1>1, <1>5 DEF FilesAreOld, DownloadsAreWanted
<1> QED
  BY <1>4, <1>9, <1>10

LEMMA StutterStep == IndInv /\ UNCHANGED vars => IndInv'
<1> SUFFICES ASSUME IndInv, UNCHANGED vars PROVE IndInv'
  OBVIOUS
<1> USE DEF IndInv
<1>1. UNCHANGED <<worldVars, up, pollerVars, taskVars, fileVars, downloading, stored, faults>>
  BY DEF vars
<1>2. TypeOK'
  BY <1>1 DEF TypeOK, worldVars, pollerVars, taskVars, fileVars
<1>3. Worker' /\ Known(poller, Pending)' /\ Sound(Pending)' /\ VersionsKept /\ FilesAreOld'
  BY <1>1, <1>2, Elsewhere DEF taskVars
<1>4. Tasks'
  BY <1>1, <1>2, <1>3, TasksFrame DEF Tasks, taskVars
<1>5. DownloadsAreWanted' /\ (client <= faults + 1)'
  BY <1>1 DEF DownloadsAreWanted, OnDisk, fileVars, worldVars
<1> QED
  BY <1>2, <1>3, <1>4, <1>5

-------------------------------------------------------------------------------

\* IndInv is inductive.
LEMMA NextInd == IndInv /\ [Next]_vars => IndInv'
<1> SUFFICES ASSUME IndInv, [Next]_vars PROVE IndInv'
  OBVIOUS
<1>1. CASE Agent
  <2>1. CASE Poll \/ RequestDownload \/ Deliver \/ Disconnect \/ Crash \/ Connect
    BY <2>1, PollStep, RequestStep, DeliverStep, LostStep, ConnectStep
  <2>2. CASE \E t \in preflights : TakeDecision(t) \/ Preflight(t)
    BY <2>2, TakeDecisionStep, PreflightStep
  <2>3. CASE \E t \in uploads : Upload(t) \/ UploadEnds(t)
    BY <2>3, UploadStep, UploadOverStep
  <2>4. CASE \E t \in uploads : CheckUploaded(t) \/ DeleteUploaded(t) \/ KeepUploaded(t)
    BY <2>4, CheckStep, UploadOverStep, DeleteStep
  <2> QED
    BY <1>1, <2>1, <2>2, <2>3, <2>4 DEF Agent
<1>2. CASE World
  <2>1. CASE \E next \in Phases : ChangePhase(next)
    BY <2>1, PhaseStep
  <2>2. CASE RestartClient
    BY <2>2, RestartStep
  <2>3. CASE \E g \in Games : StartDownload(g) \/ FinishDownload(g) \/ UserDownload(g)
    BY <2>3, StartDownloadStep, FinishDownloadStep, UserDownloadStep
  <2> QED
    BY <1>2, <2>1, <2>2, <2>3 DEF World
<1>3. CASE UNCHANGED vars
  BY <1>3, StutterStep
<1> QED
  BY <1>1, <1>2, <1>3 DEF Next

LEMMA Inductive == Spec => []IndInv
BY InitInd, NextInd, PTL DEF Spec

\* The poller, its channel, the tasks and the files keep their types, and the channel
\* never holds more batches than it has room for, for any number of games, files and
\* faults.
THEOREM TypeCorrect == Spec => []TypeOK
<1>1. IndInv => TypeOK
  BY DEF IndInv
<1> QED
  BY Inductive, <1>1, PTL

\* A recovery that counts as done has reported a result of its own game.
THEOREM RecoveriesReport == Spec => []DoneMeansReported
<1>1. IndInv => DoneMeansReported
  BY DEF IndInv, Known, Reported, DoneMeansReported
<1> QED
  BY Inductive, <1>1, PTL

\* The client is asked only for replays that the API wants.
THEOREM DownloadsWanted == Spec => []DownloadsAreWanted
<1>1. IndInv => DownloadsAreWanted
  BY DEF IndInv
<1> QED
  BY Inductive, <1>1, PTL

\* A poller that waits for an answer of the Relay has a question under way.
THEOREM NoQuestionLost == Spec => []QuestionsAreAnswered
<1>1. IndInv => QuestionsAreAnswered
  BY DEF IndInv, Known, Asking, AskedFor, QuestionsAreAnswered
<1> QED
  BY Inductive, <1>1, PTL

\* Only the last step of an upload deletes a file, its own.
LEMMA WhatDeletes ==
  ASSUME IndInv, [Next]_vars, NEW g \in Games, Deletes(g)
  PROVE  \E t \in uploads \ uploads' : DeleteUploaded(t) /\ t.file = g
<1> USE DEF IndInv
<1>1. disk'[g] # disk[g] /\ disk'[g] = None
  BY DEF Deletes
<1>2. ASSUME NEW f, NEW by \in {"agent", "user", "shared"}, NEW whole \in BOOLEAN, Write(f, by, whole)
      PROVE  FALSE
  <2> DEFINE new == [by |-> by, version |-> writes', complete |-> whole]
  <2>1. writes' \in Versions
    BY <1>2 DEF Write, TypeOK, Versions
  <2>2. new \in FileStates
    BY <2>1 DEF FileStates
  <2>3. disk' = [disk EXCEPT ![f] = new]
    BY <1>2 DEF Write
  <2> HIDE DEF new
  <2>4. disk'[g] \in {new, disk[g]}
    BY <2>3 DEF TypeOK
  <2> QED
    BY <1>1, <2>2, <2>4, NoneIsNew
<1>3. ASSUME NEW f \in Games, FinishDownload(f) PROVE FALSE
  <2> DEFINE new == [disk[f] EXCEPT !.complete = TRUE]
  <2>1. OnDisk(f) /\ disk' = [disk EXCEPT ![f].complete = TRUE]
    BY <1>3 DEF FinishDownload
  <2>2. new \in FileStates
    BY <2>1, OnDiskType DEF FileStates
  <2>3. disk'[g] \in {new, disk[g]}
    BY <2>1 DEF TypeOK
  <2> HIDE DEF new
  <2> QED
    BY <1>1, <2>2, <2>3, NoneIsNew
<1>4. ~\E f \in Games : StartDownload(f) \/ FinishDownload(f) \/ UserDownload(f)
  BY <1>2, <1>3 DEF StartDownload, UserDownload, By
<1>5. disk' # disk
  BY <1>1
<1>6. PICK t \in uploads : DeleteUploaded(t)
  <2>1. ~(Poll \/ RequestDownload \/ Deliver \/ Disconnect \/ Crash \/ Connect)
    BY <1>5 DEF Poll, RequestDownload, Deliver, Disconnect, Crash, Connect, fileVars
  <2>2. \A s \in preflights : ~TakeDecision(s) /\ ~Preflight(s)
    BY <1>5 DEF TakeDecision, Preflight, fileVars
  <2>3. \A s \in uploads : ~Upload(s) /\ ~UploadEnds(s) /\ ~CheckUploaded(s) /\ ~KeepUploaded(s)
    BY <1>5 DEF Upload, UploadEnds, CheckUploaded, KeepUploaded, fileVars
  <2>4. ~(\E next \in Phases : ChangePhase(next)) /\ ~RestartClient /\ ~UNCHANGED vars
    BY <1>5 DEF ChangePhase, RestartClient, fileVars, vars
  <2> QED
    BY <1>4, <2>1, <2>2, <2>3, <2>4 DEF Next, Agent, World
<1>7. t.file = g
  BY <1>1, <1>6 DEF DeleteUploaded, TypeOK
<1>8. t \notin uploads'
  BY <1>6 DEF DeleteUploaded
<1> QED
  BY <1>6, <1>7, <1>8

\* What a deletion removes is the version it has checked, unless it was written since.
LEMMA RemovesWhatItChecked ==
  ASSUME IndInv, [Next]_vars, NEW g \in Games, Deletes(g), ~WrittenSinceTheCheck(g)
  PROVE  \E t \in uploads :
            t.delete /\ t.file = g /\ t.file = t.game /\ Spared(t) /\ Same(t) /\ Stored(t)
<1>1. PICK t \in uploads \ uploads' : DeleteUploaded(t) /\ t.file = g
  BY WhatDeletes
<1>2. t.state = "deleting" /\ OnDisk(g)
  BY <1>1 DEF DeleteUploaded, Deletes, OnDisk
<1>3. disk[g].version \in Nat /\ t.asOf \in Nat
  <2>1. disk[g] \in FileStates
    BY <1>2, OnDiskType DEF IndInv
  <2> QED
    BY <2>1 DEF FileStates, Versions, IndInv, TypeOK, UploadTasks
<1>4. disk[g].version <= t.asOf
  BY <1>1, <1>2, <1>3 DEF WrittenSinceTheCheck
<1>5. Checked(t) /\ Spared(t) /\ (t.delete => t.file = t.game)
  BY DEF IndInv, Tasks
<1> QED
  BY <1>1, <1>2, <1>4, <1>5 DEF Checked

\* A replay that the player downloaded is not deleted, unless it was written between
\* the check of a deletion and its removal.
THEOREM PlayersFilesKept == Spec => PlayersFilesStay
<1>1. IndInv /\ [Next]_vars =>
        [\A g \in Games : Deletes(g) /\ disk[g].by = "user" => WrittenSinceTheCheck(g)]_vars
  <2> SUFFICES ASSUME IndInv, [Next]_vars, NEW g \in Games, Deletes(g), ~WrittenSinceTheCheck(g)
               PROVE  disk[g].by # "user"
    OBVIOUS
  <2>1. PICK t \in uploads : t.delete /\ t.file = g /\ t.file = t.game /\ Spared(t) /\ Same(t)
    BY RemovesWhatItChecked
  <2> QED
    BY <2>1 DEF Spared
<1> QED
  BY Inductive, <1>1, PTL DEF Spec, PlayersFilesStay

\* What is deleted is stored by the API, in this very version, as the replay of its
\* game, unless it was written between the check and the removal.
THEOREM NothingLost == Spec => DeletedIsStored
<1>1. IndInv /\ [Next]_vars =>
        [\A g \in Games : Deletes(g) =>
           \/ [game |-> g, file |-> g, version |-> disk[g].version] \in stored
           \/ WrittenSinceTheCheck(g)]_vars
  <2> SUFFICES ASSUME IndInv, [Next]_vars, NEW g \in Games, Deletes(g), ~WrittenSinceTheCheck(g)
               PROVE  [game |-> g, file |-> g, version |-> disk[g].version] \in stored
    OBVIOUS
  <2>1. PICK t \in uploads : t.file = g /\ t.file = t.game /\ Same(t) /\ Stored(t)
    BY RemovesWhatItChecked
  <2> QED
    BY <2>1 DEF Same, Stored
<1> QED
  BY Inductive, <1>1, PTL DEF Spec, DeletedIsStored
===============================================================================
