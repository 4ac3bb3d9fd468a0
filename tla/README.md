# localpager: specifications, model checking and proofs

localpager watches repositories, asks a local model which issues and pull
requests matter, and pages people on Discord. This directory models its core in
TLA+, checks the models with TLC and proves the main safety properties with
TLAPS.
Paths below are relative to the root of the repository.

## The system

| Component | State | Operations | What must hold |
|---|---|---|---|
| Ingest and enqueue (`internal/localpager/ingest.go`, `enqueue.go`) | `localpager_items` (latest content hash, source time), job rows | upsert an observation; insert a job, bring a skipped one back, skip all work of a closed item | a stale observation changes nothing; a closed item is silent; the current job of an open item is never left skipped |
| Job queue (`worker.go`, `maintenance.go`) | `localpager_jobs`: status, attempts, lease, run_after, last_error, suppression reason | reap, sweep, claim, finalize, fail, give back, requeue | one lease holder, retry budget, one result for each queueing, only current results |
| Worker pool (`worker.go`, `cmd/localpager-worker`) | counters, reservations, first error, context | run slots; one error cancels all | the limit is kept; a run ends for a reason and reports the right one |
| Notification delivery (`notification_delivery.go`, `discord.go`) | `localpager_notifications`: status, updated_at, suppression reason | suppress, reset, claim a batch, re-read, post, mark, reopen | at least once; duplicates only for known causes; nothing withdrawn is sent |
| Sources (`internal/sources`, `cmd/localpager-watch`) | none but the remote listing; watcher rows | read at several moments, merge, ingest item by item; loop over sources | a success is whole; closings stop work; what is listed arrives |
| Reposhell (`reposhell/reposhell.go`, `server.go`) | mirrors, snapshot checkouts, the registry of runs | bind, exec, prune, collect | no snapshot of a live run is collected |
| Agent (`localpager-agent/src`) | session files, the answer's file | launch, read the answer, recover it | the answer is this run's and went through `final_json` |
| Classifier, context, policy (`classifier.go`, `context.go`, `policy.go`) | none | run the subprocess; cut context to budgets; decide whether to notify | every gap but later pages is told; the best files are shown; limits hold up to a marker |
| Configuration, CLIs, scripts, database opening | files | parse, validate, print, migrate | sequential I/O |
| Prompt optimizer (`prompt-optimizer/`) | experiment files | offline optimisation | shares nothing with the running system |

Sources write items and jobs; slots claim jobs, run the classifier (a wrapper
script, then the agent, which may talk to reposhell) and write results and
notifications; slots send notifications after storing a result and when they
find no job; operators requeue jobs. All of this meets in one SQLite database, whose statements and
transactions run one at a time. Between them everything interleaves: slots of
one process, several processes, sources and operators. The hard part is that a
slot decides on a copy of a row for minutes while leases run out, content
changes, items close, processes die and rows are requeued. `PROJECT.json`
lists the hazards line by line.

## Modules

| Module | What it is |
|---|---|
| `JobQueue` | items and jobs, sources, slots, operators, time, crashes; implements `JobLifecycle` |
| `JobLifecycle` | the life of a job, in the abstract |
| `MCJobQueue` | the TLC instances of `JobQueue` |
| `JobQueueTypes` | type correctness of `JobQueue`, and what its row updates yield |
| `JobQueueProofs` | the safety theorems of `JobQueue`, and that it implements `JobLifecycle` |
| `Outbox` | what delivery promises, in the abstract |
| `Delivery` | notification rows, sending slots, Discord; implements `Outbox` |
| `MCDelivery` | its TLC instances |
| `DeliveryProofs` | the safety theorems of `Delivery`, and that it implements `Outbox` |
| `Snapshots` | reposhell's mirrors, snapshots, registry of runs and collection |
| `MCSnapshots` | its TLC instances |
| `SnapshotsProofs` | the safety theorems of `Snapshots` |
| `WorkerPool` | the goroutines of one worker process and what they share |
| `MCWorkerPool` | its TLC instance |
| `WorkerPoolProofs` | the safety theorems of `WorkerPool` |
| `Sources` | the watcher, GitHub's listing and gitcrawl's reads |
| `MCSources` | its TLC instance |
| `SourcesProofs` | the safety theorems of `Sources` |
| `TextCut` | how one text is cut to a limit |
| `ContextBudget` | the rendering of an item's context within its limits |
| `MCContextBudget` | its TLC instance |
| `ContextProofs` | what a cut keeps and says, the selection of a diff's files, gaps and overruns |
| `AgentAnswer` | runs of the agent that share session directories |
| `MCAgentAnswer` | its TLC instance |
| `AgentAnswerProofs` | the safety theorems of `AgentAnswer` |

### JobQueue

One action is one statement or transaction. `IngestOpen`, `IngestQuiet` and
`IngestSuppressed` are `Ingest` with an ordinary item, a hydrated or
before-cutover one, and a closed or locally suppressed one; each includes
`upsertGenericItem`. `claimJobs` is four statements and so four actions of a
slot: `ReapDead`, `ReapPending`, `Sweep` (throttled to once in five minutes, so
a pass may skip it) and `Claim` or `ClaimNothing`. `processJob` ends in
`Finalize` (result, notification and status in one transaction),
`SkipSuperseded`, `ClassifierFails`, `ModelUnavailable` or `DropStale`.
`PersistFails`, `ReadAttempts` and `MarkJobFailed` are the path on which
`persistJobResult` fails with a database error, whose two statements are
separate. `Requeue` is `localpager requeue-jobs`.

Abstractions:

- `leased_until` is the ownership token of a claim. Two claims of a job never
  have the same one, and a slot has one job at a time, so the token is the
  slot. That the lease has run out is the flag `expired`; that `run_after` lies
  ahead, `delayed`. `LeaseExpires` and `DelayElapses` are the clock.
- The outcome of the classifier and the statement that records it are one
  step. It may come arbitrarily late, so a stale outcome is still recorded, or
  refused, against any later row.
- `Stop` is everything that makes a slot forget its work with nothing written:
  the process dies, another slot's error cancels it, a statement fails. It also
  covers a retry after a busy database, whose stale result id makes the
  finalizing update fail.
- `ORDER BY` keeps suppression and priority; `created_at`, the last key, is
  left open. Rows from before `latest_content_hash` existed are not modelled.
- `openNotes` is all that is kept of notification rows; `NotesSettle` stands
  for `Delivery`.
- `produced`, `seen`, `newest` and `wanted` are histories for the properties:
  no action reads them.

`JobLifecycle` is what a source or an operator may rely on, without leases,
slots or time: a queued job is taken at most `MaxTries` times before it is done,
set aside or given up, whoever took it and however the taking ended. Its steps
are of two kinds. `Asked` is what sources and operators do, and they alone make a
job start anew. `Handled` is what the workers make of it; they may hand back the
try in hand, for the model may be out. `KeepsToLife` says so of every job of the
queue, and that a step of a slot (`slot' # slot`) is of the second kind.
`RetryBudget` alone would allow a queue in which a claim counts only once it has
failed: a job that kills its worker would be tried for ever.

### Delivery and Outbox

`SendPendingDiscord` is `SuppressSuperseded`, `ResetAbandoned` and `ClaimRows`,
then for each notification of the batch `ReadRow`, an answer of Discord
(`DiscordAccepts`, `DiscordRefuses`: a 4xx other than 429, `DiscordFails`:
anything else, with the message posted or not) and `MarkSent`, `MarkFailed` or
`ResetUnsent`. Whether a slot that has finished a batch loops or returns and
comes back is the same in the model. The flag `old` says that `updated_at` is
ten minutes ago. Discord itself is outside the code and may answer anything.

`Outbox` says what a reader may rely on: a message departs only while it is
open, counts as delivered only after it reached the channel, and a delivered,
withdrawn or refused message never opens again. It lets a message be posted
more than once; `DuplicateNeedsCause` says when that happens.

### Snapshots

A request is one `/bind`. `LockRepo`, `Refresh` (`ensureMirror` and
`resolveCommit`), then `Reuse`, or `Checkout` and `Mark`, are `EnsureSnapshot`
of one repository under its lock; `Register` is the critical section of
`handleBind`; `Collect`, `RemoveFiles`, `RemoveIndex` and `RemoveMarker` are
`GCSnapshots`, and `Answer` the response. Every step that calls git or the file
system has a failing twin, and `Restart` ends the process at any point. `Look`
is what `handleExec` and `handleStatus` do to the registry.

Abstractions: a snapshot either has all its files or not (`whole`); a run is
named by the request that made it; when a mirror is due for a fetch is open; the
hour of a run passes by `HourPasses`; markers of one time are removed in any
order, for `sort.Slice` keeps none. Of git the model takes that a killed clone
leaves a directory that a later fetch completes, that a killed checkout
leaves `index.lock`, which makes the next checkout fail, and that a checkout that
cannot write every file fails, but has written the index (`git checkout -f`
reports the error only at the end). One service process
owns the directory, as the in-process locks suppose. `overlapped` and `torn` are
histories. `Stored` and `Start` describe what an earlier service has left.

### WorkerPool

One action is one critical section of `workerRunState`, one statement, or one
wait of `runWorkerSlot`. `ReserveClaim`, `Claim` or `ClaimNothing`, and
`CountClaim` are separate, as are `SetError` and `Cancel`: between them other
slots act. `Busy` is one more round of `retrySQLiteBusy`. `processJob` ends in
`Finalize` then `SendAfterFinalize`, `Reject`, `Drop`, `Abandon` or
`PersistFails`, which differ in what is counted and where the job is left. What
the job's row goes through is `JobQueue`; the two meet in `Stop`, which is what
an error or a cancellation here is to a job there. Once the context is done,
every statement fails, so nothing is claimed or stored any more; a slot that
sleeps may see its timer first and leaves at the loop's head. `Arrive`,
`Vanish` and `CallerCancels` are the world: other processes, sources, and the
caller (the command passes a context that is never cancelled). `foundEmpty`,
`stored` and `byCaller` are histories.

### Sources

A poll of gitcrawl is five moments: `ReadActivePulls`, `ReadActiveIssues`,
`ReadThreads`, `ReadActiveThreads` and, item by item, `IngestNext`; of GitHub
`ListPulls`, `ListIssues` and `IngestNext`. Threads change between any two of
them. `Fail` ends the poll of one source wherever it stands, and the watcher
goes on to the next. A version stands for `updated_at` and content hash, which
change together, except that gitcrawl's user closes a thread locally without
changing either (`Hide`). `work` is what `ActiveJobRefs` reads back: a job
pending or running, or a notification pending or sending, of gitcrawl's items.
`Newest` is the listings' order, latest update first, and their limit.
`listPages` asks for one page; GitHub lists pull requests among the issues,
where they take places on a page that shrinks to the limit (`Page`, `Issues`). `WorkMoves` stands for `JobQueue` and
`Delivery`. `--once` and the rows of `watcher_state`, which nothing reads, are
left out.

### ContextBudget and TextCut

A text is its length in bytes; limits, markers and the wording's lengths are the
real ones, so the arithmetic is the code's. Each request (`FetchItem`,
`FetchComments`, `FetchFiles`, `FetchDiff`) is answered or fails on its own.
`Rank` and `Restore` are single comparisons of the two exchange sorts, `Choose`
one file of the selection, `Assemble` the closing line, `Render` the sections.
A list of files or of comments is one text, for it is joined before it is cut.
Of comments and files one page of 100 is read (`githubRequest`). A page that is
not the last says so in a header that nobody reads, and the context has no word
for it: `unread` remembers it, as a history, so that `OnlyLaterPagesUnsaid` can
say that this is the only gap of which the classifier is not told. Texts are
shorter than 10^9 bytes (`Digits`).

### AgentAnswer

A run launches pi, reads the file `final_json` writes, and if there is none
searches the newest session file of its session directory for an answer written
as text, and launches pi once more, either to submit what it found
(`replaying`) or to answer again (`retrying`). pi and the model may write,
submit and stop as they like (`Writes`, `Submits`, `Exits`). An answer is named
for the run whose prompt it answers. `Pick` and `Recover` are separate, for the
file may grow in between; a second run's launch may replay in a session of the
first. Of time the model keeps the second that `newestSessionPath` allows
before the start. A directory for each run is what the wrapper script gives,
one for all what the agent does by default; both are initial states. An
explicit `--session`, and a run with no prompt to retry, are left out.

## Runs

| Run | Instance | Shows |
|---|---|---|
| `leases` | 1 item, 2 contents, 2 slots, 2 attempts; running, dead and skipped jobs requeued | ownership, retry budget, one result for each queueing, silence of closed and hydrated items; that the current job of an open item is queued; that every job lives as `JobLifecycle` says |
| `live` | 2 slots, 2 contents, the second hydrated, source times 1..2 in any order, refused results; fairness | results are of the newest content, whatever the order of reports; queued jobs settle, superseded ones too, unless two slots strand them; what strands them; orphaned leases end |
| `unguarded` | as `leases`, source times 1..2, the database may refuse results | a violation, below |
| `senders` | 2 slots, 2 notifications of 1 item with 2 contents, batches of 2 | `Delivery`'s safety, and that it implements `Outbox` |
| `delivery_live` | 1 slot, 2 notifications, batches of 1, fairness | open notifications settle |
| `unset` | no channel | a violation, below |
| `snapshots` | 1 repository, 3 commits, 2 requests, 1 retained, 2 old snapshots of one time, a restart, fairness | what is taken as complete, which runs lose snapshots, what is retained, that requests are answered |
| `pinned` | the same, no restart | a violation, below |
| `pool` | 2 slots, 2 jobs, limits 0..2, with and without `--once`, 2 tries, 1 arrival, fairness | the limit, why a run ends, what it reports and counts, that it ends |
| `sources` | both sources, a pull request and an issue, limit 1, pages of 2, 2 changes, fairness | what a success means, that work is read back, closings, what is listed arrives |
| `context` | limits default, 1000, 150 and 12000; last pages and others; diffs of up to 4 files of 60, 900 or 5200 bytes and 2 scores | gaps, the selection of files, overruns |
| `answer` | 2 runs, 1 or 2 directories, times 0..2 | whose answer is printed, and through which tool |

Why the bounds are enough. Two slots suffice for a stale holder and a new one.
Two contents suffice for supersession and for a change back; two source times
for stale, equal and newer observations. `live` combines them with two slots,
refused results and crashes; to fit, its second content is only ever hydrated and
closings come at the first time alone (`Reports` of `MCJobQueue`), and `leases`
has what that leaves out. Two attempts separate the first, the
last and an exhausted attempt. Two notifications and batches of two give a
slot something left in hand while it posts; batches of one make the limit bite.
Jobs of different items share only the slots and the order of claims, so one
item shows each property, and the proofs cover any number. History counters saturate at two, one more than the
properties allow. `MaxUpdate` and `MaxNotes` bound source times and
notifications; everything else is finite by itself. In `Snapshots`, two old
snapshots, one retained and a third commit make a collection remove something
with the first request, while the second binds or registers. Locks are taken
one at a time, so one repository shows every wait. In `WorkerPool` two slots
and a limit of one or two make a reservation fail that another slot returns;
two tries separate the first and the last. In `Sources`, a limit of one leaves
an item off the list, and the second change comes between two reads or after
the first has been read. In `ContextBudget`, four files are as many as the largest
limit has shares for and more than the others have; the lengths lie well below,
near and beyond a share.
In `AgentAnswer`, a third run adds nobody new to take an answer from; times up
to two let a session be a second too old. The proofs cover any number of
requests, slots, runs and files.

Fairness, in `JobQueue`: slots keep polling (`PollInterval`); a classifier
ends, for it is killed when its lease ends; clocks advance; and a slot that
passes again and again sweeps again and again, because the throttle runs out.
In `Delivery`: slots come to send again and again, Discord answers or the
client's thirty seconds run out, and clocks advance. In `Snapshots`: git and
file operations return, and `sync.Mutex`, which hands itself over to a waiter
after a millisecond, starves nobody (strong fairness of `LockRepo` and
`Collect`). In `WorkerPool`: goroutines are scheduled, and statements,
classifiers and timers end; nothing is asked of the world. In `Sources`:
queries and requests end and the interval passes; nothing is asked of the
worker, so a closing must stop work without its help. The liveness properties of
`JobQueue`, `Delivery` and `Sources` are conditional: they say what happens once
the disturbances named in `Disturbance`, or the failures of the source
(`Undisturbed`), end. That slots ever come to send is an assumption: they do
after storing a result and when they find no job, so behind a backlog of jobs
that all fail or are superseded nothing is sent.

Not every queued job settles. `markJobFailed` reads the attempts and writes the
status in two statements (`worker.go:559-563`). If another slot claims the job in
between for the last time, the older attempts make the job pending, and no claim
accepts it, nor does the reaper see it: it is `Stranded`, until its content is
superseded, its source closes it, or an operator requeues it. `QueuedJobsSettle` says that everything else
settles, the jobs on this path included, and `StrandedByARace` that a job is
stranded in no other way. No text of the repository promises more.

### Disagreements found

- `unguarded`: `markJobFailed` (`internal/localpager/worker.go:559`), the path
  for a database error while a result is stored, updates the job by id alone.
  Every other update of a claimed job asks for status and lease. If the source
  closed the item meanwhile, the skipped job is pending again and runs, which
  `TestSuppressedSourceItemsSkipExistingRunningJobs` says must not happen.
- `unset`: the worker logs that notifications will remain pending when no
  channel id is set (`cmd/localpager-worker/main.go:73-75`); they are claimed,
  posted to no channel, and marked failed.
- `pinned`: `handleBind` (`reposhell/server.go:157`) registers a run after its
  snapshots are checked out, and another request that read the pins in between
  collects them. `reposhell/README.md:267-268` says that active service runs
  keep their pinned snapshots even when they are older than the retention
  window. `LossNeedsACause` says what does hold.

Short of a disagreement: `docs/2026-06-01-classifier-context-parity.md:46` says
that texts are truncated to their configured limits. A cut text carries a
marker that is not counted wherever fewer than 120 bytes are left for it, so
that a limit may be overrun; `OverrunIsBounded` says by how much. The same document
(line 224) wants a test that truncation marks what it omits. Truncation does; the
comments and files beyond the first page are omitted before anything is
truncated, and unmarked.

## Proofs

Theorems hold for every value of the constants that satisfies
the assumption its module names (`ConstantsAssumption`, `DeliveryAssumption`,
`SnapshotsAssumption`, `PoolAssumption`, `SourcesAssumption`,
`ContextAssumption`, `AnswerAssumption`).

`JobQueue`. Type correctness needs that a slot at work has a job
(`TypeInv`). The safety invariants rest on what each update does to a single
row (`Kept`, `Taken`, `RowFate`) and on two strengthenings: `Core`, that a lease
is held exactly by a running job and that the copy in the hands of its holder is
fresh, which holds whatever the database does; and `Tidy`, which adds the retry
budget, the count of results and the silence of closed items. `Tidy` needs that
no slot is on the unguarded path (`NoneBroken`), so `RetryBudgetHolds`,
`OneResultHolds`, `ClosedItemsAreSilent`, `LeasesProtect` and
`SettledJobsAreLeftAlone` assume `PersistErrors = FALSE`; the run `unguarded`
shows that the assumption is needed. `JobsKeepToLife`, which assumes it too, maps
what every step under `Tidy` does to each job to a step of its `JobLifecycle`, of
the kind its actor may take, or to none. It needs besides that a running job has
had an attempt and an unknown one none (`Counted`), so that an attempt that is
given back was one. `RunningJobsAreLeased`,
`ClaimedCopiesAreFresh`, `UnwantedIsNeverPaged`, `OpenContentIsAlwaysQueued` and
`StoredResultsAreCurrent` hold without it, and so does `StrandedOnlyByARace`: the
attempts never exceed the limit (`Capped`), every step but `markJobFailed`
leaves a job as it is or fit to be claimed (`ReadyStep`), and by `Core` a slot
whose lease stands has read the attempts the row has.

`Delivery`. `IInv` strengthens the properties to an inductive invariant: what a
slot holds has a row and was reopened only because it aged (`InHand`), and what
has reached the channel without a cause to be posted again is in the hands of
the slot that posted it, past the post, or of nobody (`PostedOnce`). Without
these the status column alone would not keep two slots off one row.
`DeliveryKeepsPromise` maps every step under `IInv` to a step of `Outbox` or to
none.

`Snapshots`. `IInv` says, beside the types: whoever holds a lock knows the
repository (`Places`), so two removals never meet; nothing protected is removed
(`Spared`); what is about to be marked is checked out (`Fresh`); and a request
that collects knows the pins of every run it has not overlapped with (`Known`),
which is what keeps them. `CompleteSnapshotsAreWhole` and `LossesHaveCauses`
follow. `Retention` counts. Every newest-first order of the candidates has the
newest ones of each age in front (`FirstPlaces`), so when a collection chooses,
what it spares holds the retained number (`LeftOver`). From there on an
invariant (`WInv`) says that the markers a collection still has to remove are
among those it chose, and that no marker of a repository whose lock it holds
appears meanwhile. It assumes that an earlier service left finitely many
snapshots.

`WorkerPool`. Four inductive parts beside the types, each proved on its own:
`Cause` (whoever carries a cancellation as its error has seen the context done,
and then the first error is set), `Accounts` (results stored are those counted
and those whose slot still sends), `Reservations` (every slot about to claim or
with an uncounted claim has its reservation, so that claims counted and in
flight fit the limit), and `Ends` (while nothing is cancelled, a slot has ended
because a claim found nothing, or because the limit was used up or reserved; and
a reservation that is given back comes with a claim that found nothing or with
an error on its way to the context). The sums are cardinalities of sets of slots, for any
finite number of them.

`ContextBudget`. The loops of the two exchange sorts have the classical
invariants: what lies before `i` is in its final place, and `i` holds the best of
what has been compared (`Ranking`, `Restoring`, `SortStep`). The sorted list is
the diff in another order, the chosen files are a front of it, and each of them
used at most its share, unless it is the last (`ChosenIsPrefix`, `Selected`).
`BestFiles`, `ManyFiles` and `SelectionBound` follow. These inductions are over
the steps of the loops, so TLAPS can do them for diffs of any length.
What a single cut keeps and says of itself (`MarkerIsTrue`, `CutBound`) comes
first. For `OneSilentGap`, `Accounted` says of every part that its turn has not
come, that it was not asked for, that its failure is a caveat, or that what was
answered is its text, whole or cut; a long diff, whose text is still being
selected, is a case of its own; and that what has an unread page is comments or
files, and shown (`Unread`). `OverrunBound` needs, beside `CutBound`, the length of the assembled
diff (`Filled`), which is a sum over the chosen chunks. That induction is over
data: it is made for the table the sum's fold defines, by a smallest
counterexample. The library's theorem on well-founded orders is about sets, so
it can be cited where the induction rules, about predicates, cannot.

`Sources`. `Newest` defines a listing by rank: in the k-th place stands what
has k - 1 newer ones before it. That these places are all taken, each once, is a
count of predecessors (`RanksAreTaken`); hence a listing holds no item twice,
and without a limit every item. The inductive invariant `PollInv` says where a
poll stands (`Turns`); that no batch holds an item twice, the pull requests
coming before the issues (`Batches`, `NoItemTwice`); that what a poll has listed
is stored, or still in the batch in the version listed (`Half`); and that gitcrawl
still has every thread which has work (`Remembered`). Without `Batches` a second
copy could undo the first, and an empty batch would say nothing about what is
stored. `SuccessWhole` is `Half` with an empty batch. `ReadBack` needs
`Remembered`, and that merging keeps what only the second reading has.

`AgentAnswer`. An answer that is not a run's own comes in only where a session
is picked. `Texts` says that a session holds answers of the run whose launch
made it, even while another run replays in it; `Answers`, that a run submits
and prints its own answer or that of the session it works in; `Caused`, that
whoever works in another run's session has a cause; and `Writers` ties a file's
time to the last write of some run in its directory, which is that cause.

Only model-checked: liveness (`OrphanedLeasesEnd`, `QueuedJobsSettle`,
`OpenNotesSettle`, `BindsAreAnswered`, `ErrorEndsRun`, `LimitedRunEnds`,
`ClosedWorkEnds`, `ListedIsKnown`), which TLAPS cannot reach, and the violations.
Every invariant and every action property that a passing run checks is the
statement of a theorem.

## Not modelled, and why

Possible next steps, in this order:

1. `Paging`: `JobQueue` and `Delivery` composed. Content that changes and changes
   back before its notification is sent pages nobody; no text says it should.
2. The agent's client of reposhell (`bash-extension.ts`): a run id that outlives
   the server that issued it. Commands then fail, and no text promises more.

Left out: the execution of reposhell commands (parsing and policy, without
state of their own beyond the pruning that is modelled); the classifier's
command line; the reading of its decision (`policy.go`); the rows of
`watcher_state` and the cursor in them, which nothing reads back; priorities of
sources, which only order claims; configuration parsing, migration, status
output, prompt rendering and sampling parameters (sequential conversions without
shared state); the experiment runner and the prompt optimizer (offline).
