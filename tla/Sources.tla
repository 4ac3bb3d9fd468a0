------------------------------ MODULE Sources ------------------------------
(***************************************************************************)
(* localpager-watch and the sources it polls: the GitHub API and the       *)
(* database of gitcrawl.  Each poll reads what a source lists, at several  *)
(* moments, and ingests it item by item.  What Ingest does to an item's    *)
(* jobs and notifications is JobQueue; here only whether there is work for *)
(* an item of gitcrawl, the source that reads it back.  GitHub, gitcrawl   *)
(* and the worker are external.                                            *)
(***************************************************************************)
EXTENDS Integers, Sequences, SequencesExt

CONSTANTS
    Order,          \* the --source flags, in order
    Numbers,        \* issue and pull request numbers of the repository
    Kind,           \* "pr" or "issue", by number
    Wants,          \* the kinds --type asks for
    Limit,          \* --limit, 0 is none
    PageSize,       \* items on a page of the GitHub API (100)
    MaxChanges      \* bound on the changes of threads

Polled == {Order[k] : k \in DOMAIN Order}

ASSUME SourcesAssumption ==
    /\ Order \in Seq({"github", "gitcrawl"})
    /\ Numbers \subseteq Nat /\ IsFiniteSet(Numbers)
    /\ Kind \in [Numbers -> {"pr", "issue"}]
    /\ Wants \subseteq {"pr", "issue"}
    /\ Limit \in Nat /\ MaxChanges \in Nat
    /\ PageSize \in Nat \ {0}

VARIABLES
    thread,     \* what each source holds: state, local close, and version
    changes,    \* number of changes; a changed thread gets it as its version
    known,      \* the version of each item stored in localpager_items
    work,       \* what the latest content of gitcrawl's items has in the queue
    poll,       \* how far the watcher has come
    listed      \* history: the versions the current poll has read

vars == <<thread, changes, known, work, poll, listed>>
-----------------------------------------------------------------------------
\* A version stands for updated_at and for the content hash.
Thread == [state: {"absent", "open", "closed"}, hidden: BOOLEAN, version: 0..MaxChanges]
Observation == [number: Numbers, version: 0..MaxChanges, open: BOOLEAN]

Pcs == {"activePulls", "activeIssues", "threads", "activeThreads", "pulls", "issues", "ingest", "asleep"}

First(s, k) == IF s = "gitcrawl" THEN [at |-> k, pc |-> "activePulls", active |-> {}, batch |-> <<>>]
                                   ELSE [at |-> k, pc |-> "pulls", active |-> {}, batch |-> <<>>]

\* The watcher turns to its k-th source, or has polled them all and sleeps.
Turn(k) == IF k \in DOMAIN Order THEN First(Order[k], k)
           ELSE [at |-> k, pc |-> "asleep", active |-> {}, batch |-> <<>>]

\* What a poll has read of each item, -1 where it was not listed.
Read(batch) == [n \in Numbers |->
    IF \E k \in DOMAIN batch : batch[k].number = n
    THEN batch[CHOOSE k \in DOMAIN batch : batch[k].number = n].version ELSE -1]

Init ==
    /\ thread \in [Polled -> [Numbers -> {[state |-> s, hidden |-> FALSE, version |-> 0] : s \in {"absent", "open"}}]]
    /\ changes = 0
    /\ known = [s \in Polled |-> [n \in Numbers |-> -1]]
    /\ work = [n \in Numbers |-> "none"]
    /\ poll = Turn(1)
    /\ listed = Read(<<>>)

Source == Order[poll.at]
-----------------------------------------------------------------------------
(* The threads, external: opened, edited, closed and reopened; gitcrawl also *)
(* lets its user close and reopen one locally, which leaves its version.     *)

Change(s, n) ==
    /\ changes < MaxChanges
    /\ changes' = changes + 1
    /\ \E state \in IF thread[s][n].state = "absent" THEN {"open"} ELSE {"open", "closed"} :
         thread' = [thread EXCEPT ![s][n].state = state, ![s][n].version = changes + 1]
    /\ UNCHANGED <<known, work, poll, listed>>

Hide(n) ==
    /\ "gitcrawl" \in Polled
    /\ thread["gitcrawl"][n].state = "open"
    /\ changes < MaxChanges
    /\ changes' = changes + 1
    /\ thread' = [thread EXCEPT !["gitcrawl"][n].hidden = ~@]
    /\ UNCHANGED <<known, work, poll, listed>>
-----------------------------------------------------------------------------
(* What is read *)

\* LocallySuppressed: closed on GitHub or by gitcrawl's user.
Suppressed(t) == t.state # "open" \/ t.hidden

Observed(s, N) == {[number |-> n, version |-> thread[s][n].version,
                    open |-> ~Suppressed(thread[s][n])] : n \in N}

Open(s, kinds) == {n \in Numbers : thread[s][n].state = "open" /\ Kind[n] \in kinds}

Newer(p, o) == \/ p.version > o.version
               \/ p.version = o.version /\ p.number > o.number

\* The most recently updated come first, and not more than the limit, 0 is none.
Newest(S, limit) ==
    LET all == Cardinality(S)
    IN [k \in 1..(IF limit \in 1..all THEN limit ELSE all) |->
           CHOOSE o \in S : Cardinality({p \in S : Newer(p, o)}) = k - 1]

\* gitcrawl.go readThreads: what is open, within the limit.
OpenThreads == Newest(Observed("gitcrawl", Open("gitcrawl", Wants)), Limit)

\* ActiveJobRefs: a job pending or running, a notification pending or sending.
HasWork(n) == work[n] \in {"job", "note"}

\* readActiveThreads: whatever their state, beside the limit.
ActiveThreads == Observed("gitcrawl", {n \in poll.active : thread["gitcrawl"][n].state # "absent"})

\* Faulty variant: the second query is not used.
MergedOnlyPrimary(primary, secondary) == primary

\* mergeThreads: of a thread read twice the first reading counts.
Merged(primary, secondary) ==
    primary \o Newest({o \in secondary : \A k \in DOMAIN primary : primary[k].number # o.number}, 0)

\* listPages asks for the first page only.
Page(kinds, limit) == Newest(Observed("github", Open("github", kinds)),
                             IF limit \in 1..PageSize THEN limit ELSE PageSize)

Pulls == IF "pr" \in Wants THEN Page({"pr"}, Limit) ELSE <<>>

\* listIssues: GitHub lists pull requests as issues, they take their place on
\* the page and are dropped from it.
Issues(limit) == Newest({o \in Range(Page({"pr", "issue"}, limit)) : Kind[o.number] = "issue"}, 0)

\* What is left of the limit for the issues, if anything.
WantsIssues(pulls) == "issue" \in Wants /\ (Limit = 0 \/ Len(pulls) < Limit)
LimitForIssues(pulls) == IF Limit = 0 THEN 0 ELSE Limit - Len(pulls)
-----------------------------------------------------------------------------
(* One poll of a source *)

At(pc) == poll.pc = pc
Step(pc, batch) == poll' = [poll EXCEPT !.pc = pc, !.batch = batch]

\* activeNumbersFor: one query for the pull requests, one for the issues.
ReadActive(kind, pc, next) ==
    /\ At(pc)
    /\ poll' = [poll EXCEPT !.pc = next,
                            !.active = @ \cup {n \in Numbers : Kind[n] = kind /\ kind \in Wants /\ HasWork(n)}]
    /\ UNCHANGED <<thread, changes, known, work, listed>>

ReadActivePulls == ReadActive("pr", "activePulls", "activeIssues")
ReadActiveIssues == ReadActive("issue", "activeIssues", "threads")

ReadThreads ==
    /\ At("threads")
    /\ Step("activeThreads", OpenThreads)
    /\ UNCHANGED <<thread, changes, known, work, listed>>

ReadActiveThreads ==
    LET batch == Merged(poll.batch, ActiveThreads)
    IN /\ At("activeThreads")
       /\ Step("ingest", batch)
       /\ listed' = Read(batch)
       /\ UNCHANGED <<thread, changes, known, work>>

ListPulls ==
    /\ At("pulls")
    /\ Step("issues", Pulls)
    /\ UNCHANGED <<thread, changes, known, work, listed>>

ListIssues ==
    LET batch == IF WantsIssues(poll.batch)
                 THEN poll.batch \o Issues(LimitForIssues(poll.batch)) ELSE poll.batch
    IN /\ At("issues")
       /\ Step("ingest", batch)
       /\ listed' = Read(batch)
       /\ UNCHANGED <<thread, changes, known, work>>

\* Ingest: a closed item's job is skipped and its note withdrawn, other content is
\* queued, and an open item whose job had been skipped has it back.
Ingested(w, o, version) ==
    CASE ~o.open -> IF o.version > version THEN "none"
                  ELSE IF w = "job" THEN "skipped" ELSE IF w = "note" THEN "done" ELSE w
      [] o.open /\ o.version > version -> "job"
      [] OTHER -> IF w \in {"none", "skipped"} THEN "job" ELSE w

IngestNext ==
    LET o == Head(poll.batch)
        n == o.number
    IN /\ At("ingest")
       /\ poll.batch # <<>>
       /\ known' = [known EXCEPT ![Source][n] = o.version]
       /\ work' = IF Source = "gitcrawl"
                  THEN [work EXCEPT ![n] = Ingested(@, o, known[Source][n])] ELSE work
       /\ Step("ingest", Tail(poll.batch))
       /\ UNCHANGED <<thread, changes, listed>>

\* The watcher is done with a source.
Leave ==
    /\ poll' = Turn(poll.at + 1)
    /\ listed' = Read(<<>>)
    /\ UNCHANGED <<thread, changes, known, work>>

Succeed(s) == Source = s /\ At("ingest") /\ poll.batch = <<>> /\ Leave

\* Faulty variant: an item that cannot be ingested is left out.
FailOneItem(s) ==
    /\ ~At("asleep") /\ Source = s
    /\ At("ingest") /\ poll.batch # <<>>
    /\ Step("ingest", Tail(poll.batch))
    /\ UNCHANGED <<thread, changes, known, work, listed>>

\* Faulty variant: the round ends with the first source that fails.
FailRound(s) ==
    /\ ~At("asleep") /\ Source = s
    /\ At("ingest") => poll.batch # <<>>
    /\ poll' = Turn(Len(Order) + 1)
    /\ listed' = Read(<<>>)
    /\ UNCHANGED <<thread, changes, known, work>>

\* A query, a request or an item fails: the rest of the batch is dropped and
\* the watcher goes on with its next source.
Fail(s) ==
    /\ ~At("asleep") /\ Source = s
    /\ At("ingest") => poll.batch # <<>>
    /\ Leave

WakeUp ==
    /\ At("asleep")
    /\ poll' = Turn(1)
    /\ UNCHANGED <<thread, changes, known, work, listed>>
-----------------------------------------------------------------------------
\* The worker classifies and pages, or never comes to it.
WorkMoves(n) ==
    /\ \/ work[n] = "job" /\ \E w \in {"note", "done"} : work' = [work EXCEPT ![n] = w]
       \/ work[n] = "note" /\ work' = [work EXCEPT ![n] = "done"]
    /\ UNCHANGED <<thread, changes, known, poll, listed>>

Poll ==
    \/ ReadActivePulls \/ ReadActiveIssues \/ ReadThreads \/ ReadActiveThreads
    \/ ListPulls \/ ListIssues
    \/ IngestNext \/ WakeUp
    \/ ~At("asleep") /\ Succeed(Source)

Next ==
    \/ Poll
    \/ \E s \in Polled : Fail(s)
    \/ \E s \in Polled, n \in Numbers : Change(s, n)
    \/ \E n \in Numbers : Hide(n) \/ WorkMoves(n)

Spec == Init /\ [][Next]_vars

\* Queries and requests end, and the watcher's interval passes.  Nothing is
\* asked of the worker: what a closing must stop, it must stop by itself.
Fairness == WF_vars(Poll)

FairSpec == Spec /\ Fairness
-----------------------------------------------------------------------------
(* Properties *)

TypeOK ==
    /\ thread \in [Polled -> [Numbers -> Thread]]
    /\ changes \in 0..MaxChanges
    /\ known \in [Polled -> [Numbers -> -1..MaxChanges]]
    /\ work \in [Numbers -> {"none", "job", "note", "done", "skipped"}]
    /\ poll \in [at: 1..Len(Order) + 1, pc: Pcs, active: SUBSET Numbers, batch: Seq(Observation)]
    /\ listed \in [Numbers -> -1..MaxChanges]

\* A poll that is recorded as a success has put everything it listed into the
\* queue: an item that fails is not passed over.
SuccessIsWhole == [][\A s \in Polled : ~At("asleep") /\ Succeed(s) =>
    \A n \in Numbers : listed[n] <= known[s][n]]_vars

\* An item that has work when a poll of gitcrawl asks for it is read back, however
\* far down the list it is: the limit does not hide that it was closed.
WorkIsReadBack == At("ingest") /\ Source = "gitcrawl" =>
    \A n \in poll.active : listed[n] >= 0

Undisturbed(s) == <>[][~Fail(s)]_vars

\* A thread that gitcrawl or its user closed does not keep its work, however far
\* down the list it is and whatever the other source does: open threads are
\* listed within the limit, threads with work are read whatever their state.
ClosedWorkEnds == "gitcrawl" \in Polled /\ Undisturbed("gitcrawl") =>
    \A n \in Numbers :
        (Kind[n] \in Wants /\ Suppressed(thread["gitcrawl"][n]) /\ HasWork(n))
            ~> (~Suppressed(thread["gitcrawl"][n]) \/ ~HasWork(n))

\* What a source lists now.
Listed(s) ==
    LET pulls == Pulls
    IN IF s = "gitcrawl" THEN OpenThreads
       ELSE IF WantsIssues(pulls) THEN pulls \o Issues(LimitForIssues(pulls)) ELSE pulls

OnList(s, n) == \E o \in Range(Listed(s)) : o.number = n

\* What a source goes on listing reaches the queue as it is, also while the
\* other source fails at every poll.
ListedIsKnown == \A s \in Polled : Undisturbed(s) =>
    \A n \in Numbers : OnList(s, n) ~> (known[s][n] = thread[s][n].version \/ ~OnList(s, n))
=============================================================================
