--------------------------- MODULE SourcesProofs ---------------------------
(***************************************************************************)
(* Proofs about Sources: what a listing contains, that no poll ingests an  *)
(* item twice, and that a poll that succeeds has ingested what it listed,  *)
(* for any sources, numbers and limits.                                    *)
(***************************************************************************)
EXTENDS Sources, FiniteSetTheorems, SequenceTheorems, TLAPS

-----------------------------------------------------------------------------
(* What a listing contains.                                                 *)

\* No two of a set, or of a sequence, are about one item.
Apart(S) == \A o, p \in S : o.number = p.number => o = p
Distinct(q) == \A j, k \in DOMAIN q : q[j].number = q[k].number => j = k

Rank(S, o) == Cardinality({p \in S : Newer(p, o)})

LEMMA NewerOrder == ASSUME NEW S \in SUBSET Observation, Apart(S)
    PROVE /\ \A o \in S : ~Newer(o, o)
          /\ \A o, p, q \in S : Newer(o, p) /\ Newer(p, q) => Newer(o, q)
          /\ \A o, p \in S : o = p \/ Newer(o, p) \/ Newer(p, o)
<1>0. Numbers \subseteq Int /\ 0..MaxChanges \subseteq Int
  BY SourcesAssumption
<1>1. \A o \in S : o.number \in Int /\ o.version \in Int
  BY <1>0 DEF Observation
<1> QED BY <1>1 DEF Newer, Apart

\* The places in the order are all taken, each once.
LEMMA RanksAreTaken ==
    ASSUME NEW S \in SUBSET Observation, IsFiniteSet(S), Apart(S)
    PROVE  /\ \A o \in S : Rank(S, o) \in Nat /\ Rank(S, o) + 1 \in 1..Cardinality(S)
           /\ \A k \in 1..Cardinality(S) : \E o \in S : Rank(S, o) = k - 1
           /\ \A o, p \in S : Rank(S, o) = Rank(S, p) => o = p
<1> DEFINE n == Cardinality(S)
           rank(o) == Rank(S, o)
           place == [o \in S |-> rank(o) + 1]
<1>1. n \in Nat
  BY FS_CardinalityType
<1>2. \A o \in S : rank(o) \in Nat /\ rank(o) < n
  <2> SUFFICES ASSUME NEW o \in S PROVE rank(o) \in Nat /\ rank(o) < n
    OBVIOUS
  <2> DEFINE B == {p \in S : Newer(p, o)}
  <2>1. B \in SUBSET S /\ o \notin B
    BY NewerOrder
  <2>2. rank(o) = Cardinality(B)
    BY DEF Rank
  <2> HIDE DEF B, rank
  <2>3. IsFiniteSet(B) /\ Cardinality(B) \in Nat
    BY <2>1, FS_Subset, FS_CardinalityType
  <2>4. Cardinality(B) <= n /\ Cardinality(B) # n
    BY <2>1, FS_Subset
  <2> QED BY <1>1, <2>2, <2>3, <2>4
<1>3. \A o, p \in S : Newer(o, p) => rank(o) < rank(p)
  <2> SUFFICES ASSUME NEW o \in S, NEW p \in S, Newer(o, p) PROVE rank(o) < rank(p)
    OBVIOUS
  <2> DEFINE B == {q \in S : Newer(q, o)}  C == {q \in S : Newer(q, p)}
  <2>1. B \in SUBSET C /\ C \in SUBSET S /\ o \in C /\ o \notin B
    BY NewerOrder
  <2>2. rank(o) = Cardinality(B) /\ rank(p) = Cardinality(C)
    BY DEF Rank
  <2> HIDE DEF B, C, rank
  <2>3. IsFiniteSet(C)
    BY <2>1, FS_Subset
  <2>4. Cardinality(B) <= Cardinality(C) /\ Cardinality(B) # Cardinality(C)
    BY <2>1, <2>3, FS_Subset
  <2> QED BY <1>2, <2>2, <2>4
<1>4. \A o, p \in S : rank(o) = rank(p) => o = p
  <2> HIDE DEF rank
  <2> SUFFICES ASSUME NEW o \in S, NEW p \in S, o # p PROVE rank(o) # rank(p)
    OBVIOUS
  <2>1. Newer(o, p) \/ Newer(p, o)
    BY NewerOrder
  <2> QED BY <1>2, <1>3, <2>1
<1>5. IsFiniteSet(1..n) /\ Cardinality(1..n) = n
  BY <1>1, FS_Interval
<1> HIDE DEF rank
<1>6. place \in [S -> 1..n] /\ \A o, p \in S : place[o] = place[p] => o = p
  BY <1>1, <1>2, <1>4
<1>7. \A k \in 1..n : \E o \in S : place[o] = k
  <2> HIDE DEF place
  <2>1. place \in Injection(S, 1..n)
    BY <1>6 DEF Injection, IsInjective
  <2>2. place \in Surjection(S, 1..n)
    BY <1>5, <2>1, FS_Injection
  <2> QED BY <2>2 DEF Surjection
<1>8. \A k \in 1..n : \E o \in S : rank(o) = k - 1
  <2> SUFFICES ASSUME NEW k \in 1..n PROVE \E o \in S : rank(o) = k - 1
    OBVIOUS
  <2>1. PICK o \in S : place[o] = k
    BY <1>7
  <2> QED BY <1>1, <1>2, <2>1
<1>9. \A o \in S : rank(o) \in Nat /\ rank(o) + 1 \in 1..n
  BY <1>1, <1>2
<1> QED BY <1>4, <1>8, <1>9 DEF rank

\* A listing has only what is there, each item once; without a limit, all of it.
LEMMA NewestList ==
    ASSUME NEW S \in SUBSET Observation, IsFiniteSet(S), Apart(S), NEW limit \in Nat
    PROVE  LET q == Newest(S, limit)
           IN  /\ q \in Seq(Observation) /\ Distinct(q)
               /\ \A k \in DOMAIN q : q[k] \in S
               /\ limit = 0 => \A o \in S : \E k \in DOMAIN q : q[k] = o
               /\ limit > 0 => Len(q) <= limit
<1> DEFINE n == Cardinality(S)
           m == IF limit \in 1..n THEN limit ELSE n
           q == Newest(S, limit)
<1>1. n \in Nat /\ m \in Nat /\ m <= n /\ (limit = 0 => m = n) /\ (limit > 0 => m <= limit)
  BY FS_CardinalityType
<1>2. q = [k \in 1..m |-> CHOOSE o \in S : Rank(S, o) = k - 1]
  BY DEF Newest, Rank
<1> HIDE DEF m, n, q
<1>3. ASSUME NEW k \in 1..m PROVE q[k] \in S /\ Rank(S, q[k]) = k - 1
  <2>1. k \in 1..n
    BY <1>1
  <2>2. \E o \in S : Rank(S, o) = k - 1
    BY <2>1, RanksAreTaken DEF n
  <2> QED BY <1>2, <2>2
<1>4. DOMAIN q = 1..m
  BY <1>2
<1>5. q \in [1..m -> Observation]
  BY <1>2, <1>3
<1>6. q \in Seq(Observation) /\ Len(q) = m
  BY <1>1, <1>5, LenProperties, IsASeq
<1>7. Distinct(q)
  <2> SUFFICES ASSUME NEW j \in 1..m, NEW k \in 1..m, q[j].number = q[k].number PROVE j = k
    BY <1>4 DEF Distinct
  <2>1. q[j] = q[k]
    BY <1>3 DEF Apart
  <2> QED BY <1>1, <1>3, <2>1
<1>8. ASSUME limit = 0, NEW o \in S PROVE \E k \in DOMAIN q : q[k] = o
  <2>1. Rank(S, o) + 1 \in 1..m
    BY <1>1, <1>8, RanksAreTaken DEF n
  <2> DEFINE k == Rank(S, o) + 1
  <2>2. k \in 1..m /\ Rank(S, o) = k - 1
    <3>1. Rank(S, o) \in Nat
      BY RanksAreTaken
    <3> QED BY <1>1, <2>1, <3>1
  <2>3. q[k] = o
    BY <1>3, <2>2, RanksAreTaken
  <2> QED BY <1>4, <2>2, <2>3
<1> QED BY <1>1, <1>3, <1>4, <1>6, <1>7, <1>8 DEF q

LEMMA ObservedSet ==
    ASSUME thread \in [Polled -> [Numbers -> Thread]], NEW s \in Polled, NEW N \in SUBSET Numbers
    PROVE  LET S == Observed(s, N)
           IN  /\ S \in SUBSET Observation /\ IsFiniteSet(S) /\ Apart(S)
               /\ \A o \in S : o.number \in N
               /\ \A n \in N : \E o \in S : o.number = n
<1> DEFINE S == Observed(s, N)  number == [o \in S |-> o.number]
<1>1. ASSUME NEW o \in S
      PROVE  /\ o \in Observation /\ o.number \in N
             /\ o = [number |-> o.number, version |-> thread[s][o.number].version,
                     open |-> ~Suppressed(thread[s][o.number])]
  <2> PICK n \in N : o = [number |-> n, version |-> thread[s][n].version, open |-> ~Suppressed(thread[s][n])]
    BY DEF Observed
  <2>1. thread[s][n] \in Thread
    OBVIOUS
  <2>2. thread[s][n].version \in 0..MaxChanges
    BY <2>1 DEF Thread
  <2> QED BY <2>2 DEF Observation
<1>2. ASSUME NEW n \in N PROVE \E o \in S : o.number = n
  <2> DEFINE o == [number |-> n, version |-> thread[s][n].version, open |-> ~Suppressed(thread[s][n])]
  <2>1. o \in S
    BY DEF Observed
  <2>2. o.number = n
    OBVIOUS
  <2> QED BY <2>1, <2>2
<1> HIDE DEF S
<1>3. Apart(S)
  BY <1>1 DEF Apart
<1>4. number \in Injection(S, N)
  BY <1>1, <1>3 DEF Injection, IsInjective, Apart
<1>5. IsFiniteSet(N)
  BY FS_Subset, SourcesAssumption
<1>6. IsFiniteSet(S)
  BY <1>4, <1>5, FS_Injection
<1>7. S \in SUBSET Observation
  BY <1>1
<1> QED BY <1>1, <1>2, <1>3, <1>6, <1>7 DEF S

\* A second listing that has nothing of the first.
LEMMA Together ==
    ASSUME NEW p \in Seq(Observation), NEW q \in Seq(Observation), Distinct(p), Distinct(q),
           \A j \in DOMAIN p, k \in DOMAIN q : p[j].number # q[k].number
    PROVE  /\ p \o q \in Seq(Observation) /\ Distinct(p \o q)
           /\ \A k \in DOMAIN (p \o q) : (\E j \in DOMAIN p : (p \o q)[k] = p[j]) \/ (\E j \in DOMAIN q : (p \o q)[k] = q[j])
           /\ \A j \in DOMAIN p : \E k \in DOMAIN (p \o q) : (p \o q)[k] = p[j]
           /\ \A j \in DOMAIN q : \E k \in DOMAIN (p \o q) : (p \o q)[k] = q[j]
<1> DEFINE r == p \o q
<1>1. /\ r \in Seq(Observation) /\ Len(r) = Len(p) + Len(q)
      /\ Len(p) \in Nat /\ Len(q) \in Nat /\ DOMAIN p = 1..Len(p) /\ DOMAIN q = 1..Len(q) /\ DOMAIN r = 1..Len(r)
  BY ConcatProperties, LenProperties
<1>2. \A k \in DOMAIN r : r[k] = IF k <= Len(p) THEN p[k] ELSE q[k - Len(p)]
  BY ConcatProperties, <1>1
<1> HIDE DEF r
<1>3. \A k \in DOMAIN r : k \in DOMAIN p \/ (k > Len(p) /\ k - Len(p) \in DOMAIN q)
  BY <1>1
<1>4. Distinct(r)
  <2> SUFFICES ASSUME NEW j \in DOMAIN r, NEW k \in DOMAIN r, r[j].number = r[k].number PROVE j = k
    BY DEF Distinct
  <2>1. CASE j \in DOMAIN p /\ k \in DOMAIN p
    BY <1>1, <1>2, <2>1 DEF Distinct
  <2>2. CASE j \in DOMAIN p /\ k > Len(p) /\ k - Len(p) \in DOMAIN q
    BY <1>1, <1>2, <2>2
  <2>3. CASE k \in DOMAIN p /\ j > Len(p) /\ j - Len(p) \in DOMAIN q
    BY <1>1, <1>2, <2>3
  <2>4. CASE j > Len(p) /\ j - Len(p) \in DOMAIN q /\ k > Len(p) /\ k - Len(p) \in DOMAIN q
    <3>1. q[j - Len(p)].number = q[k - Len(p)].number
      BY <1>1, <1>2, <2>4
    <3>2. j - Len(p) = k - Len(p)
      BY <2>4, <3>1 DEF Distinct
    <3> QED BY <1>1, <3>2
  <2> QED BY <1>3, <2>1, <2>2, <2>3, <2>4
<1>5. \A k \in DOMAIN r : (\E j \in DOMAIN p : r[k] = p[j]) \/ (\E j \in DOMAIN q : r[k] = q[j])
  BY <1>1, <1>2, <1>3
<1>6. \A j \in DOMAIN p : \E k \in DOMAIN r : r[k] = p[j]
  BY <1>1, <1>2
<1>7. ASSUME NEW j \in DOMAIN q PROVE \E k \in DOMAIN r : r[k] = q[j]
  <2>1. j + Len(p) \in DOMAIN r /\ (j + Len(p)) - Len(p) = j /\ j + Len(p) > Len(p)
    BY <1>1
  <2>2. r[j + Len(p)] = q[j]
    BY <1>1, <1>2, <2>1
  <2> QED BY <2>1, <2>2
<1> QED BY <1>1, <1>4, <1>5, <1>6, <1>7 DEF r

\* What Read makes of a batch: the version of each item in it.
LEMMA ReadVersions ==
    ASSUME NEW q \in Seq(Observation), Distinct(q)
    PROVE  /\ Read(q) \in [Numbers -> -1..MaxChanges]
           /\ \A k \in DOMAIN q : Read(q)[q[k].number] = q[k].version
           /\ \A n \in Numbers : (\A k \in DOMAIN q : q[k].number # n) => Read(q)[n] = -1
<1>1. \A k \in DOMAIN q : q[k].number \in Numbers /\ q[k].version \in 0..MaxChanges
  <2> SUFFICES ASSUME NEW k \in DOMAIN q PROVE q[k].number \in Numbers /\ q[k].version \in 0..MaxChanges
    OBVIOUS
  <2>1. q[k] \in Observation
    BY ElementOfSeq, LenProperties
  <2> QED BY <2>1 DEF Observation
<1> DEFINE here(n) == \E k \in DOMAIN q : q[k].number = n
           place(n) == CHOOSE k \in DOMAIN q : q[k].number = n
<1>2. \A n \in Numbers : here(n) => place(n) \in DOMAIN q /\ q[place(n)].number = n
  OBVIOUS
<1>3. \A k \in DOMAIN q : here(q[k].number) /\ place(q[k].number) = k
  BY <1>1, <1>2 DEF Distinct
<1>4. Read(q) = [n \in Numbers |-> IF here(n) THEN q[place(n)].version ELSE -1]
  BY DEF Read
<1> HIDE DEF here, place
<1>5. \A k \in DOMAIN q : Read(q)[q[k].number] = q[k].version
  BY <1>1, <1>3, <1>4
<1>6. MaxChanges \in Nat /\ (0..MaxChanges) \subseteq (-1..MaxChanges) /\ -1 \in -1..MaxChanges
  BY SourcesAssumption
<1>7. Read(q) \in [Numbers -> -1..MaxChanges]
  BY <1>1, <1>2, <1>4, <1>6
<1>8. \A n \in Numbers : (\A k \in DOMAIN q : q[k].number # n) => Read(q)[n] = -1
  BY <1>4 DEF here
<1> QED BY <1>5, <1>7, <1>8
-----------------------------------------------------------------------------
(* What a poll knows at each of its steps.                                  *)

PollRecord == [at: 1..Len(Order) + 1, pc: Pcs, active: SUBSET Numbers, batch: Seq(Observation)]

OfGitcrawl == {"activePulls", "activeIssues", "threads", "activeThreads"}
OfGitHub == {"pulls", "issues"}

\* The watcher is at the source whose step it is to take.
Turns == /\ ~At("asleep") => poll.at \in DOMAIN Order
         /\ poll.pc \in OfGitcrawl => Source = "gitcrawl"
         /\ poll.pc \in OfGitHub => Source = "github"

\* No item is in a batch twice: the pull requests come before the issues.
Batches == /\ Distinct(poll.batch)
           /\ At("issues") => \A k \in DOMAIN poll.batch : Kind[poll.batch[k].number] = "pr"

Unread(n) == \A k \in DOMAIN poll.batch : poll.batch[k].number # n

\* What is still to be ingested has the version it was listed with; of anything
\* else that was listed at least that version is stored.
Half == At("ingest") =>
    /\ \A k \in DOMAIN poll.batch : listed[poll.batch[k].number] = poll.batch[k].version
    /\ \A n \in Numbers : Unread(n) => listed[n] <= known[Source][n]

\* gitcrawl does not forget a thread that the queue has heard of.
Held(n) == thread["gitcrawl"][n].state # "absent"
Remembered == "gitcrawl" \in Polled =>
    /\ \A n \in Numbers : work[n] # "none" => Held(n)
    /\ ~At("asleep") /\ Source = "gitcrawl" =>
         /\ \A n \in poll.active : Held(n)
         /\ \A k \in DOMAIN poll.batch : Held(poll.batch[k].number)

PollInv == TypeOK /\ Turns /\ Batches /\ Half /\ Remembered /\ WorkIsReadBack

\* Where a source's poll starts, and what a step of it changes.
LEMMA TurnStart == ASSUME NEW k \in 1..Len(Order) + 1
    PROVE /\ Turn(k) \in PollRecord
          /\ Turn(k).at = k /\ Turn(k).active = {} /\ Turn(k).batch = <<>>
          /\ \/ Turn(k).pc = "asleep"
             \/ k \in DOMAIN Order /\ Order[k] = "gitcrawl" /\ Turn(k).pc = "activePulls"
             \/ k \in DOMAIN Order /\ Order[k] = "github" /\ Turn(k).pc = "pulls"
<1>1. <<>> \in Seq(Observation) /\ {} \in SUBSET Numbers
  BY EmptySeq
<1>2. {"asleep", "activePulls", "pulls"} \subseteq Pcs
  BY DEF Pcs
<1>3. k \in DOMAIN Order => Order[k] \in {"github", "gitcrawl"}
  BY SourcesAssumption, ElementOfSeq, LenProperties
<1>4. PICK pc \in {"asleep", "activePulls", "pulls"} :
         Turn(k) = [at |-> k, pc |-> pc, active |-> {}, batch |-> <<>>]
  BY DEF Turn, First
<1>5. Turn(k) \in PollRecord /\ Turn(k).at = k /\ Turn(k).active = {} /\ Turn(k).batch = <<>>
  BY <1>1, <1>2, <1>4 DEF PollRecord
<1>6. k \notin DOMAIN Order => Turn(k).pc = "asleep"
  BY DEF Turn
<1>7. k \in DOMAIN Order /\ Order[k] = "gitcrawl" => Turn(k).pc = "activePulls"
  BY DEF Turn, First
<1>8. k \in DOMAIN Order /\ Order[k] = "github" => Turn(k).pc = "pulls"
  BY DEF Turn, First
<1> QED BY <1>3, <1>5, <1>6, <1>7, <1>8

LEMMA StepTo == ASSUME poll \in PollRecord, NEW pc \in Pcs, NEW batch \in Seq(Observation), Step(pc, batch)
    PROVE /\ poll' \in PollRecord
          /\ poll'.at = poll.at /\ poll'.pc = pc /\ poll'.active = poll.active /\ poll'.batch = batch
BY DEF Step, PollRecord

LEMMA BatchNumbers == ASSUME TypeOK
    PROVE /\ poll \in PollRecord /\ poll.active \subseteq Numbers /\ poll.batch \in Seq(Observation)
          /\ \A k \in DOMAIN poll.batch : poll.batch[k].number \in Numbers
<1>1. poll \in PollRecord /\ poll.active \subseteq Numbers /\ poll.batch \in Seq(Observation)
  BY DEF TypeOK, PollRecord
<1>2. \A k \in DOMAIN poll.batch : poll.batch[k] \in Observation
  BY <1>1, ElementOfSeq, LenProperties
<1> QED BY <1>1, <1>2 DEF Observation

LEMMA SourceIsPolled == ASSUME poll.at \in DOMAIN Order PROVE Source \in Polled
BY DEF Source, Polled

\* The watcher turns to a source.
LEMMA TurnInv ==
    ASSUME PollInv, NEW k \in 1..Len(Order) + 1, poll' = Turn(k), UNCHANGED <<thread, changes, known, work>>,
           listed' \in [Numbers -> -1..MaxChanges]
    PROVE  PollInv'
<1> DEFINE next == Turn(k)
<1>1. /\ next \in PollRecord /\ next.at = k /\ next.active = {} /\ next.batch = <<>>
      /\ \/ next.pc = "asleep"
         \/ k \in DOMAIN Order /\ Order[k] = "gitcrawl" /\ next.pc = "activePulls"
         \/ k \in DOMAIN Order /\ Order[k] = "github" /\ next.pc = "pulls"
  BY TurnStart
<1>2. poll' = next
  OBVIOUS
<1> HIDE DEF next
<1>3. TypeOK'
  BY <1>1, <1>2 DEF PollInv, TypeOK, PollRecord
<1>4. DOMAIN poll'.batch = {}
  BY <1>1, <1>2
<1>5. Turns'
  BY <1>1, <1>2 DEF Turns, At, Source, OfGitcrawl, OfGitHub
<1>6. Batches' /\ Half' /\ WorkIsReadBack'
  BY <1>1, <1>2, <1>4 DEF Batches, Distinct, Half, WorkIsReadBack, At
<1>7. Remembered'
  BY <1>1, <1>2, <1>4 DEF PollInv, Remembered, Held
<1> QED BY <1>3, <1>5, <1>6, <1>7 DEF PollInv

LEMMA PollInit == Init => PollInv
<1> SUFFICES ASSUME Init PROVE PollInv
  OBVIOUS
<1>1. 1 \in 1..Len(Order) + 1 /\ MaxChanges \in Nat
  BY SourcesAssumption, LenProperties
<1> DEFINE next == Turn(1)
<1>2. /\ next \in PollRecord /\ next.active = {} /\ next.batch = <<>> /\ next.at = 1
      /\ \/ next.pc = "asleep"
         \/ 1 \in DOMAIN Order /\ Order[1] = "gitcrawl" /\ next.pc = "activePulls"
         \/ 1 \in DOMAIN Order /\ Order[1] = "github" /\ next.pc = "pulls"
  BY <1>1, TurnStart
<1>3. poll = next
  BY DEF Init
<1> HIDE DEF next
<1>4. listed \in [Numbers -> -1..MaxChanges]
  <2>1. <<>> \in Seq(Observation) /\ Distinct(<<>>)
    BY EmptySeq DEF Distinct
  <2> QED BY <2>1, ReadVersions DEF Init
<1>5. TypeOK
  <2>1. thread \in [Polled -> [Numbers -> Thread]]
    <3> DEFINE New == {[state |-> s, hidden |-> FALSE, version |-> 0] : s \in {"absent", "open"}}
    <3>1. \A t \in New : t \in Thread
      <4> TAKE t \in New
      <4>1. PICK s \in {"absent", "open"} : t = [state |-> s, hidden |-> FALSE, version |-> 0]
        OBVIOUS
      <4>2. 0 \in 0..MaxChanges /\ s \in {"absent", "open", "closed"} /\ FALSE \in BOOLEAN
        BY <1>1
      <4> QED BY <4>1, <4>2 DEF Thread
    <3>2. thread \in [Polled -> [Numbers -> New]]
      BY DEF Init
    <3> HIDE DEF New
    <3>3. \A s \in Polled : thread[s] \in [Numbers -> Thread]
      BY <3>1, <3>2
    <3> QED BY <3>2, <3>3
  <2>2. known \in [Polled -> [Numbers -> -1..MaxChanges]] /\ changes \in 0..MaxChanges
    BY <1>1 DEF Init
  <2>3. work \in [Numbers -> {"none", "job", "note", "done", "skipped"}]
    BY DEF Init
  <2> QED BY <1>2, <1>3, <1>4, <2>1, <2>2, <2>3 DEF TypeOK, PollRecord
<1>6. Turns
  BY <1>2, <1>3 DEF Turns, At, Source, OfGitcrawl, OfGitHub
<1>7. Batches /\ Half /\ WorkIsReadBack
  BY <1>2, <1>3 DEF Batches, Distinct, Half, WorkIsReadBack, At
<1>8. Remembered
  BY <1>2, <1>3 DEF Init, Remembered, Held
<1> QED BY <1>5, <1>6, <1>7, <1>8 DEF PollInv

\* A thread that changes stays a thread, and no thread is forgotten.
LEMMA ThreadStep ==
    ASSUME TypeOK, NEW s \in Polled, NEW n \in Numbers,
           \/ changes < MaxChanges /\ Change(s, n)
           \/ s = "gitcrawl" /\ Hide(n)
    PROVE  /\ thread' \in [Polled -> [Numbers -> Thread]] /\ changes' \in 0..MaxChanges
           /\ \A r \in Polled, m \in Numbers : thread[r][m].state # "absent" => thread'[r][m].state # "absent"
<1>1. /\ thread \in [Polled -> [Numbers -> Thread]] /\ changes \in Nat /\ MaxChanges \in Nat
      /\ thread[s][n] \in Thread /\ changes' = changes + 1 /\ changes < MaxChanges
  BY SourcesAssumption DEF TypeOK, Change, Hide
<1>2. PICK t \in Thread : thread' = [thread EXCEPT ![s] = [@ EXCEPT ![n] = t]] /\ t.state # "absent"
  <2>1. CASE Change(s, n)
    <3> PICK state \in {"open", "closed"} :
          thread' = [thread EXCEPT ![s][n].state = state, ![s][n].version = changes + 1]
      BY <2>1 DEF Change
    <3> DEFINE t == [[thread[s][n] EXCEPT !.state = state] EXCEPT !.version = changes + 1]
    <3>1. changes + 1 \in 0..MaxChanges
      BY <1>1
    <3>2. t \in Thread /\ t.state = state
      BY <1>1, <3>1 DEF Thread
    <3>3. thread' = [thread EXCEPT ![s] = [@ EXCEPT ![n] = t]]
      BY <1>1
    <3> HIDE DEF t
    <3> QED BY <3>2, <3>3
  <2>2. CASE s = "gitcrawl" /\ Hide(n)
    <3> DEFINE t == [thread[s][n] EXCEPT !.hidden = ~@]
    <3>1. t \in Thread /\ t.state = "open"
      BY <1>1, <2>2 DEF Thread, Hide
    <3>2. thread' = [thread EXCEPT ![s] = [@ EXCEPT ![n] = t]]
      BY <1>1, <2>2 DEF Hide
    <3> HIDE DEF t
    <3> QED BY <3>1, <3>2
  <2> QED BY <2>1, <2>2
<1>3. thread' \in [Polled -> [Numbers -> Thread]]
  BY <1>1, <1>2
<1>4. \A r \in Polled, m \in Numbers : thread'[r][m] = IF r = s /\ m = n THEN t ELSE thread[r][m]
  BY <1>1, <1>2
<1> QED BY <1>1, <1>2, <1>3, <1>4

\* The watcher stands still.
LEMMA Surroundings ==
    ASSUME PollInv, UNCHANGED <<known, poll, listed>>,
           \/ UNCHANGED <<thread, changes, work>>
           \/ \E s \in Polled, n \in Numbers : Change(s, n)
           \/ \E n \in Numbers : Hide(n) \/ WorkMoves(n)
    PROVE  PollInv'
<1>1. Turns' /\ Batches' /\ Half' /\ WorkIsReadBack'
  BY DEF PollInv, Turns, Batches, Half, WorkIsReadBack, At, Source, Unread
<1>2. CASE UNCHANGED <<thread, changes, work>>
  BY <1>1, <1>2 DEF PollInv, TypeOK, Remembered, At, Source, Held
<1>3. CASE \E s \in Polled, n \in Numbers : Change(s, n) \/ (s = "gitcrawl" /\ Hide(n))
  <2> PICK s \in Polled, n \in Numbers : Change(s, n) \/ (s = "gitcrawl" /\ Hide(n))
    BY <1>3
  <2>1. /\ thread' \in [Polled -> [Numbers -> Thread]] /\ changes' \in 0..MaxChanges
        /\ \A r \in Polled, m \in Numbers : thread[r][m].state # "absent" => thread'[r][m].state # "absent"
    BY ThreadStep DEF PollInv, Change
  <2>2. work' = work
    BY DEF Change, Hide
  <2>3. TypeOK'
    BY <2>1, <2>2 DEF PollInv, TypeOK
  <2>4. \A n_1 \in Numbers : "gitcrawl" \in Polled /\ Held(n_1) => Held(n_1)'
    BY <2>1 DEF Held
  <2>5. poll.active \subseteq Numbers /\ \A k \in DOMAIN poll.batch : poll.batch[k].number \in Numbers
    BY BatchNumbers DEF PollInv
  <2>6. Remembered'
    BY <2>2, <2>4, <2>5 DEF PollInv, Remembered, At, Source
  <2> QED BY <1>1, <2>3, <2>6 DEF PollInv
<1>4. CASE \E n \in Numbers : WorkMoves(n)
  <2> PICK n \in Numbers : WorkMoves(n)
    BY <1>4
  <2>1. /\ work' \in [Numbers -> {"none", "job", "note", "done", "skipped"}]
        /\ \A m \in Numbers : work'[m] # "none" => work[m] # "none"
    BY DEF WorkMoves, PollInv, TypeOK
  <2>2. UNCHANGED <<thread, changes>>
    BY DEF WorkMoves
  <2>3. TypeOK'
    BY <2>1, <2>2 DEF PollInv, TypeOK
  <2>4. Remembered'
    BY <2>1, <2>2 DEF PollInv, Remembered, At, Source, Held
  <2> QED BY <1>1, <2>3, <2>4 DEF PollInv
<1>5. \A n : Hide(n) => "gitcrawl" \in Polled
  BY DEF Hide
<1> QED BY <1>2, <1>3, <1>4, <1>5

\* A step of a poll that reads.
LEMMA Reading ==
    ASSUME PollInv, NEW pc \in Pcs \ {"asleep", "ingest"}, NEW active \in SUBSET Numbers,
           NEW batch \in Seq(Observation),
           ~At("asleep"),
           poll' = [poll EXCEPT !.pc = pc, !.active = active, !.batch = batch],
           UNCHANGED <<thread, changes, known, work, listed>>,
           pc \in OfGitcrawl => Source = "gitcrawl", pc \in OfGitHub => Source = "github",
           Distinct(batch),
           pc = "issues" => \A k \in DOMAIN batch : Kind[batch[k].number] = "pr",
           Source = "gitcrawl" => /\ \A n \in active : Held(n)
                                  /\ \A k \in DOMAIN batch : Held(batch[k].number)
    PROVE  PollInv'
<1>1. /\ poll' \in PollRecord /\ poll'.at = poll.at /\ poll'.pc = pc
      /\ poll'.active = active /\ poll'.batch = batch
  BY BatchNumbers DEF PollInv, PollRecord
<1>2. TypeOK'
  BY <1>1 DEF PollInv, TypeOK, PollRecord
<1>3. Turns' /\ Source' = Source
  BY <1>1 DEF PollInv, Turns, At, Source
<1>4. Batches' /\ Half' /\ WorkIsReadBack'
  BY <1>1 DEF Batches, Half, WorkIsReadBack, At
<1>5. Remembered'
  BY <1>1, <1>3 DEF PollInv, Remembered, At, Held
<1> QED BY <1>2, <1>3, <1>4, <1>5 DEF PollInv

\* The step after which a poll ingests.
LEMMA Listing ==
    ASSUME PollInv, NEW batch \in Seq(Observation), ~At("asleep"),
           Step("ingest", batch), listed' = Read(batch), UNCHANGED <<thread, changes, known, work>>,
           Distinct(batch),
           Source = "gitcrawl" => /\ \A k \in DOMAIN batch : Held(batch[k].number)
                                  /\ \A n \in poll.active : \E k \in DOMAIN batch : batch[k].number = n
    PROVE  PollInv'
<1>0. "ingest" \in Pcs
  BY DEF Pcs
<1>1. /\ poll' \in PollRecord /\ poll'.at = poll.at /\ poll'.pc = "ingest"
      /\ poll'.active = poll.active /\ poll'.batch = batch
  BY <1>0, StepTo, BatchNumbers DEF PollInv
<1>2. /\ listed' \in [Numbers -> -1..MaxChanges]
      /\ \A k \in DOMAIN batch : listed'[batch[k].number] = batch[k].version
      /\ \A n \in Numbers : (\A k \in DOMAIN batch : batch[k].number # n) => listed'[n] = -1
  BY ReadVersions
<1>3. TypeOK'
  BY <1>1, <1>2 DEF PollInv, TypeOK, PollRecord
<1>4. Turns' /\ Source' = Source /\ Source \in Polled
  BY <1>1, SourceIsPolled DEF PollInv, Turns, At, Source, OfGitcrawl, OfGitHub
<1>5. Batches'
  BY <1>1 DEF Batches, At
<1>6. Half'
  <2>1. \A n \in Numbers : known[Source][n] \in -1..MaxChanges
    BY <1>4 DEF PollInv, TypeOK
  <2>2. \A n \in Numbers : Unread(n)' => listed'[n] <= known'[Source][n]
    BY <1>1, <1>2, <2>1, SourcesAssumption DEF Unread
  <2> QED BY <1>1, <1>2, <1>4, <2>2 DEF Half
<1>7. WorkIsReadBack'
  <2>1. \A k \in DOMAIN batch : batch[k].version >= 0
    <3> SUFFICES ASSUME NEW k \in DOMAIN batch PROVE batch[k].version >= 0
      OBVIOUS
    <3>1. batch[k] \in Observation
      BY ElementOfSeq, LenProperties
    <3> QED BY <3>1, SourcesAssumption DEF Observation
  <2> QED BY <1>1, <1>2, <1>4, <2>1 DEF WorkIsReadBack
<1>8. Remembered'
  BY <1>1, <1>4 DEF PollInv, Remembered, At, Held
<1> QED BY <1>3, <1>4, <1>5, <1>6, <1>7, <1>8 DEF PollInv

\* One item of the batch is ingested.
LEMMA Ingesting == ASSUME PollInv, IngestNext PROVE PollInv'
<1> DEFINE o == Head(poll.batch)  n == o.number  rest == Tail(poll.batch)
<1>1. /\ At("ingest") /\ poll.batch # <<>> /\ Step("ingest", rest)
      /\ known' = [known EXCEPT ![Source][n] = o.version]
      /\ UNCHANGED <<thread, changes, listed>>
  BY DEF IngestNext
<1>2. /\ TypeOK /\ poll.batch \in Seq(Observation) /\ poll \in PollRecord /\ poll.active \subseteq Numbers
      /\ \A k \in DOMAIN poll.batch : poll.batch[k].number \in Numbers
  BY BatchNumbers DEF PollInv
<1>3. /\ rest \in Seq(Observation) /\ o \in Observation /\ o = poll.batch[1] /\ 1 \in DOMAIN poll.batch
      /\ \A k \in DOMAIN rest : k + 1 \in DOMAIN poll.batch /\ rest[k] = poll.batch[k + 1]
      /\ \A k \in DOMAIN poll.batch : k = 1 \/ (k - 1 \in DOMAIN rest /\ rest[k - 1] = poll.batch[k])
  <2>1. /\ rest \in Seq(Observation) /\ o = poll.batch[1] /\ Len(rest) = Len(poll.batch) - 1
        /\ \A k \in 1..Len(rest) : rest[k] = poll.batch[k + 1]
    BY <1>1, <1>2, HeadTailProperties
  <2>2. /\ DOMAIN rest = 1..Len(rest) /\ DOMAIN poll.batch = 1..Len(poll.batch)
        /\ Len(rest) \in Nat /\ Len(poll.batch) \in Nat /\ Len(poll.batch) > 0
    BY <1>1, <1>2, <2>1, LenProperties, EmptySeq
  <2>3. 1 \in DOMAIN poll.batch
    BY <2>2
  <2>4. o \in Observation
    BY <1>2, <2>1, <2>2, ElementOfSeq
  <2>5. \A k \in DOMAIN rest : k + 1 \in DOMAIN poll.batch /\ rest[k] = poll.batch[k + 1]
    BY <2>1, <2>2
  <2>6. \A k \in DOMAIN poll.batch : k = 1 \/ (k - 1 \in DOMAIN rest /\ rest[k - 1] = poll.batch[k])
    BY <2>1, <2>2
  <2> QED BY <2>1, <2>3, <2>4, <2>5, <2>6
<1>4. n \in Numbers /\ o.version \in 0..MaxChanges /\ DOMAIN rest \subseteq Int
  BY <1>3, LenProperties DEF Observation
<1> HIDE DEF o, n, rest
<1>5. "ingest" \in Pcs
  BY DEF Pcs
<1>6. /\ poll' \in PollRecord /\ poll'.at = poll.at /\ poll'.pc = "ingest"
      /\ poll'.active = poll.active /\ poll'.batch = rest
  BY <1>1, <1>2, <1>3, <1>5, StepTo
<1>7. Turns' /\ Source' = Source /\ Source \in Polled
  BY <1>1, <1>6, SourceIsPolled DEF PollInv, Turns, At, Source, OfGitcrawl, OfGitHub
<1>8. /\ known' \in [Polled -> [Numbers -> -1..MaxChanges]]
      /\ known'[Source][n] = o.version
      /\ \A m \in Numbers \ {n} : known'[Source][m] = known[Source][m]
  <2>1. known \in [Polled -> [Numbers -> -1..MaxChanges]] /\ MaxChanges \in Nat
    BY <1>2, SourcesAssumption DEF TypeOK
  <2>2. o.version \in -1..MaxChanges
    BY <1>4, <2>1
  <2> QED BY <1>1, <1>4, <1>7, <2>1, <2>2
<1>9. /\ work' \in [Numbers -> {"none", "job", "note", "done", "skipped"}]
      /\ \A m \in Numbers : work'[m] = work[m] \/ (m = n /\ Source = "gitcrawl")
  <2>1. work \in [Numbers -> {"none", "job", "note", "done", "skipped"}]
    BY <1>2 DEF TypeOK
  <2>2. \A w \in {"none", "job", "note", "done", "skipped"}, v \in -1..MaxChanges :
          Ingested(w, o, v) \in {"none", "job", "note", "done", "skipped"}
    BY DEF Ingested
  <2>3. known[Source][n] \in -1..MaxChanges
    BY <1>2, <1>4, <1>7 DEF TypeOK
  <2>4. CASE Source # "gitcrawl"
    BY <2>1, <2>4 DEF IngestNext
  <2>5. CASE Source = "gitcrawl"
    <3>1. work' = [work EXCEPT ![n] = Ingested(@, o, known[Source][n])]
      BY <2>5 DEF IngestNext, n, o
    <3>2. Ingested(work[n], o, known[Source][n]) \in {"none", "job", "note", "done", "skipped"}
      BY <1>4, <2>1, <2>2, <2>3
    <3> QED BY <1>4, <2>1, <2>5, <3>1, <3>2
  <2> QED BY <2>4, <2>5
<1>10. TypeOK'
  BY <1>1, <1>2, <1>6, <1>8, <1>9 DEF TypeOK, PollRecord
<1>11. Distinct(rest)
  <2> SUFFICES ASSUME NEW j \in DOMAIN rest, NEW k \in DOMAIN rest, rest[j].number = rest[k].number
               PROVE  j = k
    BY DEF Distinct
  <2>1. j + 1 = k + 1
    BY <1>3 DEF PollInv, Batches, Distinct
  <2> QED BY <1>4, <2>1
<1>12. Batches'
  BY <1>6, <1>11 DEF Batches, At
<1>13. \A k \in DOMAIN rest : rest[k].number # n
  <2> SUFFICES ASSUME NEW k \in DOMAIN rest, rest[k].number = n PROVE FALSE
    OBVIOUS
  <2>1. k + 1 = 1
    BY <1>3 DEF PollInv, Batches, Distinct, n
  <2>2. k >= 1
    BY <1>3, LenProperties
  <2> QED BY <1>4, <2>1, <2>2
<1>14. Half'
  <2>1. /\ \A k \in DOMAIN poll.batch : listed[poll.batch[k].number] = poll.batch[k].version
        /\ \A m \in Numbers : Unread(m) => listed[m] <= known[Source][m]
    BY <1>1 DEF PollInv, Half
  <2>2. \A k \in DOMAIN rest : listed[rest[k].number] = rest[k].version
    BY <1>3, <2>1
  <2>3. listed[n] = o.version
    BY <1>3, <2>1 DEF n
  <2>4. ASSUME NEW m \in Numbers, \A k \in DOMAIN rest : rest[k].number # m
        PROVE  listed[m] <= known'[Source][m]
    <3>1. CASE m = n
      BY <1>4, <1>8, <2>3, <3>1, SourcesAssumption
    <3>2. CASE m # n
      <4>1. Unread(m)
        BY <1>3, <2>4, <3>2 DEF Unread, n
      <4> QED BY <1>8, <2>1, <3>2, <4>1
    <3> QED BY <3>1, <3>2
  <2> QED BY <1>1, <1>6, <1>7, <2>2, <2>4 DEF Half, Unread
<1>15. WorkIsReadBack'
  BY <1>1, <1>6, <1>7 DEF PollInv, WorkIsReadBack, At
<1>16. Remembered'
  <2> SUFFICES ASSUME "gitcrawl" \in Polled
               PROVE  /\ \A m \in Numbers : work'[m] # "none" => Held(m)
                      /\ Source = "gitcrawl" => /\ \A m \in poll.active : Held(m)
                                                /\ \A k \in DOMAIN rest : Held(rest[k].number)
    BY <1>1, <1>6, <1>7 DEF Remembered, At, Held
  <2>1. Source = "gitcrawl" => /\ \A m \in poll.active : Held(m)
                               /\ \A k \in DOMAIN poll.batch : Held(poll.batch[k].number)
    BY <1>1 DEF PollInv, Remembered, At
  <2>2. Source = "gitcrawl" => Held(n)
    BY <1>3, <2>1 DEF n
  <2> QED BY <1>3, <1>9, <2>1, <2>2 DEF PollInv, Remembered
<1> QED BY <1>7, <1>10, <1>12, <1>14, <1>15, <1>16 DEF PollInv

LEMMA ReadActiveInv ==
    ASSUME PollInv, ReadActivePulls \/ ReadActiveIssues
    PROVE  PollInv'
<1>1. PICK kind \in {"pr", "issue"}, next \in {"activeIssues", "threads"} :
         /\ poll.pc \in OfGitcrawl
         /\ poll' = [poll EXCEPT !.pc = next,
                                 !.active = @ \cup {n \in Numbers : Kind[n] = kind /\ kind \in Wants /\ HasWork(n)}]
         /\ UNCHANGED <<thread, changes, known, work, listed>>
  BY DEF ReadActivePulls, ReadActiveIssues, ReadActive, At, OfGitcrawl
<1> DEFINE more == {n \in Numbers : Kind[n] = kind /\ kind \in Wants /\ HasWork(n)}
           active == poll.active \cup more
<1>2. poll \in PollRecord /\ poll.active \subseteq Numbers /\ poll.batch \in Seq(Observation)
  BY BatchNumbers DEF PollInv
<1>3. poll' = [poll EXCEPT !.pc = next, !.active = active, !.batch = poll.batch]
  BY <1>1, <1>2 DEF PollRecord
<1>4. Source = "gitcrawl" /\ ~At("asleep") /\ "gitcrawl" \in Polled
  BY <1>1, SourceIsPolled DEF PollInv, Turns, At, OfGitcrawl
<1>5. /\ \A n \in active : Held(n)
      /\ \A k \in DOMAIN poll.batch : Held(poll.batch[k].number)
  BY <1>4 DEF PollInv, Remembered, HasWork
<1>6. active \in SUBSET Numbers /\ next \in Pcs \ {"asleep", "ingest"}
  BY <1>2 DEF Pcs
<1>7. next \in OfGitcrawl /\ next \notin OfGitHub /\ next # "issues"
  BY DEF OfGitcrawl, OfGitHub
<1> HIDE DEF active
<1> QED BY <1>1, <1>2, <1>3, <1>4, <1>5, <1>6, <1>7, Reading DEF PollInv, Batches

\* The batch that is taken over from one step to the next, with its active set.
LEMMA StepIsReading == ASSUME poll \in PollRecord, NEW pc, NEW batch, Step(pc, batch)
    PROVE poll' = [poll EXCEPT !.pc = pc, !.active = poll.active, !.batch = batch]
BY DEF Step, PollRecord

LEMMA ReadThreadsInv == ASSUME PollInv, ReadThreads PROVE PollInv'
<1> DEFINE S == Observed("gitcrawl", Open("gitcrawl", Wants))  batch == Newest(S, Limit)
<1>1. /\ At("threads") /\ Step("activeThreads", batch)
      /\ UNCHANGED <<thread, changes, known, work, listed>>
  BY DEF ReadThreads, OpenThreads
<1>2. Source = "gitcrawl" /\ ~At("asleep") /\ "gitcrawl" \in Polled /\ Limit \in Nat
  BY <1>1, SourceIsPolled, SourcesAssumption DEF PollInv, Turns, At, OfGitcrawl
<1>3. /\ S \in SUBSET Observation /\ IsFiniteSet(S) /\ Apart(S)
      /\ \A o \in S : o.number \in Open("gitcrawl", Wants)
  BY <1>2, ObservedSet DEF PollInv, TypeOK, Open
<1> HIDE DEF S
<1>4. batch \in Seq(Observation) /\ Distinct(batch) /\ \A k \in DOMAIN batch : batch[k] \in S
  BY <1>2, <1>3, NewestList
<1> HIDE DEF batch
<1>5. \A k \in DOMAIN batch : Held(batch[k].number)
  BY <1>3, <1>4 DEF Open, Held
<1>6. poll \in PollRecord /\ poll.active \in SUBSET Numbers
  BY BatchNumbers DEF PollInv
<1>7. poll' = [poll EXCEPT !.pc = "activeThreads", !.active = poll.active, !.batch = batch]
  BY <1>1, <1>6, StepIsReading
<1>8. "activeThreads" \in Pcs \ {"asleep", "ingest"} /\ "activeThreads" \notin OfGitHub
  BY DEF Pcs, OfGitHub
<1>9. \A n \in poll.active : Held(n)
  BY <1>2 DEF PollInv, Remembered
<1> QED BY <1>1, <1>2, <1>4, <1>5, <1>6, <1>7, <1>8, <1>9, Reading

LEMMA ReadActiveThreadsInv == ASSUME PollInv, ReadActiveThreads PROVE PollInv'
<1> DEFINE N == {n \in poll.active : thread["gitcrawl"][n].state # "absent"}
           S == Observed("gitcrawl", N)
           first == poll.batch
           R == {o \in S : \A k \in DOMAIN first : first[k].number # o.number}
           second == Newest(R, 0)
           batch == first \o second
<1>1. /\ At("activeThreads") /\ Step("ingest", batch) /\ listed' = Read(batch)
      /\ UNCHANGED <<thread, changes, known, work>>
  BY DEF ReadActiveThreads, Merged, ActiveThreads
<1>2. Source = "gitcrawl" /\ ~At("asleep") /\ "gitcrawl" \in Polled
  BY <1>1, SourceIsPolled DEF PollInv, Turns, At, OfGitcrawl
<1>3. /\ poll.active \subseteq Numbers /\ first \in Seq(Observation) /\ Distinct(first)
      /\ \A n \in poll.active : Held(n)
      /\ \A k \in DOMAIN first : Held(first[k].number)
  BY <1>2, BatchNumbers DEF PollInv, Batches, Remembered
<1>4. N = poll.active /\ N \in SUBSET Numbers
  BY <1>3 DEF Held
<1> HIDE DEF N
<1>5. /\ S \in SUBSET Observation /\ IsFiniteSet(S) /\ Apart(S)
      /\ \A o \in S : o.number \in N
      /\ \A n \in N : \E o \in S : o.number = n
  <2>1. thread \in [Polled -> [Numbers -> Thread]]
    BY DEF PollInv, TypeOK
  <2> QED BY <1>2, <1>4, <2>1, ObservedSet
<1> HIDE DEF S
<1>6. R \in SUBSET Observation /\ IsFiniteSet(R) /\ Apart(R)
  <2>1. R \in SUBSET S
    OBVIOUS
  <2> QED BY <1>5, <2>1, FS_Subset DEF Apart
<1>7. \A o \in R : o \in S /\ \A k \in DOMAIN first : first[k].number # o.number
  OBVIOUS
<1>8. \A o \in S : o \in R \/ \E k \in DOMAIN first : first[k].number = o.number
  OBVIOUS
<1> HIDE DEF R
<1>9. /\ second \in Seq(Observation) /\ Distinct(second)
      /\ \A k \in DOMAIN second : second[k] \in R
      /\ \A o \in R : \E k \in DOMAIN second : second[k] = o
  BY <1>6, NewestList
<1> HIDE DEF second, first
<1>10. \A j \in DOMAIN first, k \in DOMAIN second : first[j].number # second[k].number
  BY <1>7, <1>9
<1>11. /\ batch \in Seq(Observation) /\ Distinct(batch)
       /\ \A k \in DOMAIN batch : (\E j \in DOMAIN first : batch[k] = first[j])
                               \/ (\E j \in DOMAIN second : batch[k] = second[j])
       /\ \A j \in DOMAIN first : \E k \in DOMAIN batch : batch[k] = first[j]
       /\ \A j \in DOMAIN second : \E k \in DOMAIN batch : batch[k] = second[j]
  BY <1>3, <1>9, <1>10, Together
<1> HIDE DEF batch
<1>12. \A k \in DOMAIN batch : Held(batch[k].number)
  BY <1>3, <1>4, <1>5, <1>7, <1>9, <1>11
<1>13. ASSUME NEW n \in poll.active PROVE \E k \in DOMAIN batch : batch[k].number = n
  <2> PICK o \in S : o.number = n
    BY <1>4, <1>5
  <2>1. CASE o \in R
    BY <1>9, <1>11, <2>1
  <2>2. CASE \E k \in DOMAIN first : first[k].number = o.number
    BY <1>11, <2>2
  <2> QED BY <1>8, <2>1, <2>2
<1> QED BY <1>1, <1>2, <1>11, <1>12, <1>13, Listing

\* A page of GitHub's, each item once and of the kinds that were asked for.
LEMMA PageList ==
    ASSUME TypeOK, "github" \in Polled, NEW kinds, NEW limit \in Nat
    PROVE  /\ Page(kinds, limit) \in Seq(Observation) /\ Distinct(Page(kinds, limit))
           /\ \A k \in DOMAIN Page(kinds, limit) : Kind[Page(kinds, limit)[k].number] \in kinds
<1> DEFINE S == Observed("github", Open("github", kinds))
           most == IF limit \in 1..PageSize THEN limit ELSE PageSize
<1>1. /\ S \in SUBSET Observation /\ IsFiniteSet(S) /\ Apart(S)
      /\ \A o \in S : o.number \in Open("github", kinds)
  BY ObservedSet DEF TypeOK, Open
<1>2. most \in Nat
  BY SourcesAssumption
<1>3. Page(kinds, limit) = Newest(S, most)
  BY DEF Page
<1> HIDE DEF S, most
<1>4. /\ Newest(S, most) \in Seq(Observation) /\ Distinct(Newest(S, most))
      /\ \A k \in DOMAIN Newest(S, most) : Newest(S, most)[k] \in S
  BY <1>1, <1>2, NewestList
<1> QED BY <1>1, <1>3, <1>4 DEF Open

LEMMA PullsList == ASSUME TypeOK, "github" \in Polled
    PROVE /\ Pulls \in Seq(Observation) /\ Distinct(Pulls)
          /\ \A k \in DOMAIN Pulls : Kind[Pulls[k].number] = "pr"
<1>1. CASE "pr" \in Wants
  BY <1>1, PageList, SourcesAssumption DEF Pulls
<1>2. CASE "pr" \notin Wants
  BY <1>2, EmptySeq DEF Pulls, Distinct
<1> QED BY <1>1, <1>2

LEMMA IssuesList == ASSUME TypeOK, "github" \in Polled, NEW limit \in Nat
    PROVE /\ Issues(limit) \in Seq(Observation) /\ Distinct(Issues(limit))
          /\ \A k \in DOMAIN Issues(limit) : Kind[Issues(limit)[k].number] = "issue"
<1> DEFINE page == Page({"pr", "issue"}, limit)
           S == {o \in Range(page) : Kind[o.number] = "issue"}
<1>1. page \in Seq(Observation) /\ Distinct(page)
  BY PageList
<1>2. Issues(limit) = Newest(S, 0)
  BY DEF Issues
<1> HIDE DEF page
<1>3. Range(page) \in SUBSET Observation /\ IsFiniteSet(Range(page)) /\ Apart(Range(page))
  <2>1. Range(page) = {page[k] : k \in DOMAIN page}
    BY DEF Range
  <2>2. \A k \in DOMAIN page : page[k] \in Observation
    BY <1>1, ElementOfSeq, LenProperties
  <2>3. page \in Surjection(DOMAIN page, Range(page))
    BY <1>1, <2>1, LenProperties DEF Surjection
  <2>4. IsFiniteSet(DOMAIN page)
    BY <1>1, LenProperties, FS_Interval
  <2>5. IsFiniteSet(Range(page))
    BY <2>3, <2>4, FS_Surjection
  <2> QED BY <1>1, <2>1, <2>2, <2>5 DEF Apart, Distinct
<1>4. S \in SUBSET Range(page) /\ \A o \in S : Kind[o.number] = "issue"
  OBVIOUS
<1> HIDE DEF S
<1>5. S \in SUBSET Observation /\ IsFiniteSet(S) /\ Apart(S)
  BY <1>3, <1>4, FS_Subset DEF Apart
<1>6. /\ Newest(S, 0) \in Seq(Observation) /\ Distinct(Newest(S, 0))
      /\ \A k \in DOMAIN Newest(S, 0) : Newest(S, 0)[k] \in S
  BY <1>5, NewestList
<1> QED BY <1>2, <1>4, <1>6

LEMMA ListPullsInv == ASSUME PollInv, ListPulls PROVE PollInv'
<1>1. At("pulls") /\ Step("issues", Pulls) /\ UNCHANGED <<thread, changes, known, work, listed>>
  BY DEF ListPulls
<1>2. Source = "github" /\ ~At("asleep") /\ "github" \in Polled
  BY <1>1, SourceIsPolled DEF PollInv, Turns, At, OfGitHub
<1>3. /\ Pulls \in Seq(Observation) /\ Distinct(Pulls)
      /\ \A k \in DOMAIN Pulls : Kind[Pulls[k].number] = "pr"
  BY <1>2, PullsList DEF PollInv
<1>4. poll \in PollRecord /\ poll.active \in SUBSET Numbers
  BY BatchNumbers DEF PollInv
<1>5. poll' = [poll EXCEPT !.pc = "issues", !.active = poll.active, !.batch = Pulls]
  BY <1>1, <1>4, StepIsReading
<1>6. "issues" \in Pcs \ {"asleep", "ingest"} /\ "issues" \notin OfGitcrawl
  BY DEF Pcs, OfGitcrawl
<1> QED BY <1>1, <1>2, <1>3, <1>4, <1>5, <1>6, Reading

LEMMA ListIssuesInv == ASSUME PollInv, ListIssues PROVE PollInv'
<1> DEFINE pulls == poll.batch  rest == LimitForIssues(pulls)
           batch == IF WantsIssues(pulls) THEN pulls \o Issues(rest) ELSE pulls
<1>1. /\ At("issues") /\ Step("ingest", batch) /\ listed' = Read(batch)
      /\ UNCHANGED <<thread, changes, known, work>>
  BY DEF ListIssues
<1>2. Source = "github" /\ ~At("asleep") /\ "github" \in Polled
  BY <1>1, SourceIsPolled DEF PollInv, Turns, At, OfGitHub
<1>3. /\ pulls \in Seq(Observation) /\ Distinct(pulls)
      /\ \A k \in DOMAIN pulls : Kind[pulls[k].number] = "pr"
  BY <1>1, BatchNumbers DEF PollInv, Batches
<1> HIDE DEF pulls
<1>4. batch \in Seq(Observation) /\ Distinct(batch)
  <2>1. CASE WantsIssues(pulls)
    <3>1. rest \in Nat
      BY <1>3, <2>1, LenProperties, SourcesAssumption DEF WantsIssues, LimitForIssues
    <3>2. /\ Issues(rest) \in Seq(Observation) /\ Distinct(Issues(rest))
          /\ \A k \in DOMAIN Issues(rest) : Kind[Issues(rest)[k].number] = "issue"
      BY <1>2, <3>1, IssuesList DEF PollInv
    <3>3. \A j \in DOMAIN pulls, k \in DOMAIN Issues(rest) : pulls[j].number # Issues(rest)[k].number
      BY <1>3, <3>2
    <3>4. pulls \o Issues(rest) \in Seq(Observation) /\ Distinct(pulls \o Issues(rest))
      BY <1>3, <3>2, <3>3, Together
    <3> QED BY <2>1, <3>4
  <2>2. CASE ~WantsIssues(pulls)
    BY <1>3, <2>2
  <2> QED BY <2>1, <2>2
<1> HIDE DEF batch
<1> QED BY <1>1, <1>2, <1>4, Listing

LEMMA PollStep == PollInv /\ [Next]_vars => PollInv'
<1> SUFFICES ASSUME PollInv, [Next]_vars PROVE PollInv'
  OBVIOUS
<1>1. ASSUME ~At("asleep"), Leave PROVE PollInv'
  <2>1. poll.at + 1 \in 1..Len(Order) + 1
    <3>1. poll.at \in DOMAIN Order /\ DOMAIN Order = 1..Len(Order) /\ Len(Order) \in Nat
      BY <1>1, SourcesAssumption, LenProperties DEF PollInv, Turns
    <3> QED BY <3>1
  <2>2. listed' \in [Numbers -> -1..MaxChanges]
    <3>1. <<>> \in Seq(Observation) /\ Distinct(<<>>)
      BY EmptySeq DEF Distinct
    <3> QED BY <1>1, <3>1, ReadVersions DEF Leave
  <2> QED BY <1>1, <2>1, <2>2, TurnInv DEF Leave
<1>2. ASSUME WakeUp PROVE PollInv'
  <2>1. 1 \in 1..Len(Order) + 1
    BY SourcesAssumption, LenProperties
  <2>2. listed \in [Numbers -> -1..MaxChanges]
    BY DEF PollInv, TypeOK
  <2> QED BY <1>2, <2>1, <2>2, TurnInv DEF WakeUp
<1>3. ASSUME Poll PROVE PollInv'
  BY <1>1, <1>2, <1>3, ReadActiveInv, ReadThreadsInv, ReadActiveThreadsInv, ListPullsInv, ListIssuesInv,
     Ingesting DEF Poll, Succeed
<1>4. ASSUME NEW s \in Polled, Fail(s) PROVE PollInv'
  BY <1>1, <1>4 DEF Fail
<1>5. ASSUME \/ \E s \in Polled, n \in Numbers : Change(s, n)
             \/ \E n \in Numbers : Hide(n) \/ WorkMoves(n)
             \/ UNCHANGED vars
      PROVE  PollInv'
  <2>1. UNCHANGED <<known, poll, listed>>
    BY <1>5 DEF Change, Hide, WorkMoves, vars
  <2>2. UNCHANGED vars => UNCHANGED <<thread, changes, work>>
    BY DEF vars
  <2> QED BY <1>5, <2>1, <2>2, Surroundings
<1> QED BY <1>3, <1>4, <1>5 DEF Next

LEMMA PollAlways == Spec => []PollInv
BY PollInit, PollStep, PTL DEF Spec

\* The types, and that a poll is where its source has such a step.
THEOREM SourcesTypes == Spec => []TypeOK
<1>1. PollInv => TypeOK
  BY DEF PollInv
<1> QED BY <1>1, PollAlways, PTL

\* No poll ingests an item twice: what is listed by two queries is merged, and
\* what GitHub lists as issues and as pull requests is told apart.
THEOREM NoItemTwice == Spec => []Distinct(poll.batch)
<1>1. PollInv => Distinct(poll.batch)
  BY DEF PollInv, Batches
<1> QED BY <1>1, PollAlways, PTL

\* Whatever the limit, gitcrawl's poll reads back each item that has work.
THEOREM ReadBack == Spec => []WorkIsReadBack
<1>1. PollInv => WorkIsReadBack
  BY DEF PollInv
<1> QED BY <1>1, PollAlways, PTL

\* A poll that is recorded as a success has ingested what it listed.
THEOREM SuccessWhole == Spec => SuccessIsWhole
<1> DEFINE Whole == \A s \in Polled : ~At("asleep") /\ Succeed(s) => \A n \in Numbers : listed[n] <= known[s][n]
<1>1. PollInv => Whole
  <2> SUFFICES ASSUME PollInv, NEW s \in Polled, Succeed(s), NEW n \in Numbers
               PROVE  listed[n] <= known[s][n]
    OBVIOUS
  <2>1. At("ingest") /\ Source = s /\ DOMAIN poll.batch = {}
    BY EmptySeq DEF Succeed
  <2> QED BY <2>1 DEF PollInv, Half, Unread
<1>2. PollInv => [Whole]_vars
  BY <1>1
<1>3. Spec => [][Whole]_vars
  BY <1>2, PollAlways, PTL
<1> QED BY <1>3 DEF SuccessIsWhole
=============================================================================
