----------------------------- MODULE Snapshots -----------------------------
(***************************************************************************)
(* The reposhell service: reposhell.go keeps a mirror of each repository   *)
(* and checkouts ("snapshots") of single commits of it, server.go the runs *)
(* that are bound to them.  A /bind request checks its snapshots out,      *)
(* registers its run, and then collects old snapshots; requests run in     *)
(* goroutines of one process, with one lock per repository and one for the *)
(* registry.                                                               *)
(***************************************************************************)
EXTENDS Integers, FiniteSets

CONSTANTS
    Repos,          \* the configured repositories
    Commits,        \* commits the default ref of a repository may name
    Binds,          \* /bind requests; a run is named by the request that made it
    Retain,         \* SnapshotRetain
    Stored,         \* times of the markers an earlier service left, 0: none
    Start,          \* the time at which this one starts
    MaxRestarts,    \* bound on the restarts of the service
    Absent, Partial,\* no mirror; a mirror whose clone was killed
    None

ASSUME SnapshotsAssumption ==
    /\ Retain \in Nat \ {0}
    /\ Start \in Nat \ {0}
    /\ Stored \in [Commits -> Nat] /\ \A c \in Commits : Stored[c] < Start
    /\ IsFiniteSet({c \in Commits : Stored[c] > 0})
    /\ MaxRestarts \in Nat
    /\ Absent \notin Commits /\ Partial \notin Commits /\ Absent # Partial
    /\ None \notin Commits /\ None \notin Repos /\ None \notin Binds

VARIABLES
    upstream,   \* the commit the default ref names at the remote
    mirror,     \* the commit it names in mirrors/<repo>.git
    lock,       \* the request holding snapshotLock of the repository
    whole,      \* the commits whose snapshots/<repo>/<commit> is complete
    index,      \* the commits with a <commit>.index
    held,       \* the commits with a <commit>.index.lock left by a killed git
    made,       \* modification time of <commit>.ready, 0 if there is none
    clock,
    bind,       \* where each request is in handleBind
    run,        \* bindings and bindingCreated
    restarts,
    overlapped, \* history: bound while another request collected or read its pins
    torn        \* history: commits whose removal stopped before the index, or whose
                \* checkout failed but wrote it

store == <<whole, index, held, made, clock, torn>>
vars == <<upstream, mirror, lock, store, bind, run, restarts, overlapped>>
-----------------------------------------------------------------------------
\* EnsureSnapshot is at repos, refresh, checkout or mark, GCSnapshots at
\* collect, files, index or marker.
Ensuring == {"repos", "refresh", "checkout", "mark"}
Collecting == {"collect", "files", "index", "marker"}
Holding == {"refresh", "checkout", "mark", "files", "index", "marker"}

Request == [pc: {"idle", "done", "failed"} \cup Ensuring \cup Collecting,
            todo: SUBSET Repos,                 \* repositories still to do
            at: Repos \cup {None},              \* the one whose lock is held
            commit: Commits \cup {None},        \* commit, candidate.Commit
            pins: [Repos -> Commits \cup {None}],   \* Binding.Snapshots
            keep: [Repos -> SUBSET Commits],    \* protected
            doomed: SUBSET Commits]             \* candidates to be removed

Idle == [pc |-> "idle", todo |-> {}, at |-> None, commit |-> None,
         pins |-> [r \in Repos |-> None], keep |-> [r \in Repos |-> {}], doomed |-> {}]

\* Every repository has the complete snapshots that Stored says.
Init ==
    /\ upstream \in [Repos -> Commits]
    /\ mirror = [r \in Repos |-> Absent]
    /\ lock = [r \in Repos |-> None]
    /\ whole = [r \in Repos |-> {c \in Commits : Stored[c] > 0}]
    /\ index = whole
    /\ held = [r \in Repos |-> {}]
    /\ made = [r \in Repos |-> Stored] /\ clock = Start
    /\ bind = [b \in Binds |-> Idle]
    /\ run = [b \in Binds |-> "none"]
    /\ restarts = 0
    /\ overlapped = {}
    /\ torn = [r \in Repos |-> {}]

At(b, pc) == bind[b].pc = pc
Ready(r) == {c \in Commits : made[r][c] > 0}
Active(b) == run[b] \in {"live", "old"}
With(f, r, c) == [f EXCEPT ![r] = @ \cup {c}]
Without(f, r, c) == [f EXCEPT ![r] = @ \ {c}]
-----------------------------------------------------------------------------
(* Locks, and the ways a request moves on. *)

Acquire(b, r) == lock[r] = None /\ lock' = [lock EXCEPT ![r] = b]
Release(b) == lock' = [lock EXCEPT ![bind[b].at] = None]
Move(b, next) == bind' = [bind EXCEPT ![b] = next]
Go(b, pc) == Move(b, [bind[b] EXCEPT !.pc = pc])

\* Bind returns its error, without a binding.
Fail(b) == Move(b, [Idle EXCEPT !.pc = "failed"])

\* The repository is done: snapshots[repoID] = commit.
Pin(b, c) ==
    /\ Release(b)
    /\ Move(b, [bind[b] EXCEPT !.pc = "repos", !.at = None, !.commit = None,
                               !.pins = [@ EXCEPT ![bind[b].at] = c]])
-----------------------------------------------------------------------------
(* Bind: EnsureSnapshot of every repository that is asked for. *)

\* Whoever is collecting now, with the pins it knows, may meet what b checks out.
Open(b, visible) ==
    /\ At(b, "idle")
    /\ Move(b, [Idle EXCEPT !.pc = "repos", !.todo = visible])
    /\ overlapped' = IF \E d \in Binds : bind[d].pc \in Collecting
                        THEN overlapped \cup {b} ELSE overlapped
    /\ UNCHANGED <<upstream, mirror, lock, store, run, restarts>>

LockRepo(b) ==
    /\ At(b, "repos")
    /\ \E r \in bind[b].todo :
         /\ Acquire(b, r)
         /\ Move(b, [bind[b] EXCEPT !.pc = "refresh", !.todo = @ \ {r}, !.at = r])
    /\ UNCHANGED <<upstream, mirror, store, run, restarts, overlapped>>

\* A repository that is not configured, a default repository that is not
\* visible, no random id.
Refuse(b) ==
    /\ At(b, "repos")
    /\ Fail(b)
    /\ UNCHANGED <<upstream, mirror, lock, store, run, restarts, overlapped>>

\* The mirror is cloned if there is none, fetched if its time has come, and asked
\* for the commit; a mirror without refs has none.
Refresh(b) ==
    LET r == bind[b].at
        now == IF mirror[r] = Absent THEN {upstream[r]} ELSE {mirror[r], upstream[r]}
    IN /\ At(b, "refresh")
       /\ \E m \in now :
            /\ mirror' = [mirror EXCEPT ![r] = m]
            /\ \/ m = Partial /\ Fail(b) /\ Release(b)
               \/ /\ m # Partial
                  /\ Move(b, [bind[b] EXCEPT !.pc = "checkout", !.commit = m])
                  /\ UNCHANGED lock
       /\ UNCHANGED <<upstream, store, run, restarts, overlapped>>

\* Faulty variant: the error return keeps the lock.
RefreshFailsLocked(b) ==
    /\ At(b, "refresh")
    /\ Fail(b)
    /\ UNCHANGED <<upstream, mirror, lock, store, run, restarts, overlapped>>

\* Git fails, or is killed because the client has gone.
RefreshFails(b) ==
    LET r == bind[b].at
    IN /\ At(b, "refresh")
       /\ \/ UNCHANGED mirror
          \/ mirror[r] = Absent /\ mirror' = [mirror EXCEPT ![r] = Partial]
       /\ Fail(b) /\ Release(b)
       /\ UNCHANGED <<upstream, store, run, restarts, overlapped>>

\* Faulty variant: the marker alone is asked for.
CompleteMarked(r, c) == c \in Ready(r)

\* Marker and index are there: the snapshot is taken as it is.
Complete(r, c) == c \in Ready(r) /\ c \in index[r]

Reuse(b) ==
    /\ At(b, "checkout")
    /\ Complete(bind[b].at, bind[b].commit)
    /\ Pin(b, bind[b].commit)
    /\ UNCHANGED <<upstream, mirror, store, run, restarts, overlapped>>

\* git checkout -f locks the index, writes the files, and then the index.
Checkout(b) ==
    LET r == bind[b].at  c == bind[b].commit
    IN /\ At(b, "checkout")
       /\ ~Complete(r, c)
       /\ c \notin held[r]
       /\ whole' = With(whole, r, c)
       /\ index' = With(index, r, c)
       /\ torn' = Without(torn, r, c)
       /\ Go(b, "mark")
       /\ UNCHANGED <<upstream, mirror, lock, held, made, clock, run, restarts, overlapped>>

\* Git is killed, or it cannot write all the files: then it fails, but writes the
\* index all the same.
CheckoutFails(b) ==
    LET r == bind[b].at  c == bind[b].commit
    IN /\ At(b, "checkout")
       /\ ~Complete(r, c)
       /\ \/ held' \in {held, With(held, r, c)} /\ UNCHANGED <<index, torn>>
          \/ /\ c \notin held[r] \cup index[r]
             /\ index' = With(index, r, c) /\ torn' = With(torn, r, c)
             /\ UNCHANGED held
       /\ Fail(b) /\ Release(b)
       /\ UNCHANGED <<upstream, mirror, whole, made, clock, run, restarts, overlapped>>

\* The marker is read-only: one that is left over is overwritten by root alone.
\* A write that fails may leave an empty marker.
Mark(b) ==
    LET r == bind[b].at  c == bind[b].commit
    IN /\ At(b, "mark")
       /\ \E written, good \in BOOLEAN :
            /\ good => written
            /\ made' = IF written THEN [made EXCEPT ![r][c] = clock] ELSE made
            /\ clock' = IF written THEN clock + 1 ELSE clock
            /\ IF good THEN Pin(b, c) ELSE Fail(b) /\ Release(b)
       /\ UNCHANGED <<upstream, mirror, whole, index, held, torn, run, restarts, overlapped>>
-----------------------------------------------------------------------------
(* The registry, under Server.mu. *)

Pruned == [b \in Binds |-> IF run[b] = "old" THEN "gone" ELSE run[b]]

\* Faulty variant: the pins are read before the run is registered.
ProtectedBefore(runs) == [r \in Repos |->
    {c \in Commits : \E b \in Binds : run[b] = "live" /\ bind[b].pins[r] = c}]

Protected(runs) == [r \in Repos |->
    {c \in Commits : \E b \in Binds : runs[b] = "live" /\ bind[b].pins[r] = c}]

\* The run of b is registered with those that are still live.
Register(b) ==
    /\ At(b, "repos") /\ bind[b].todo = {}
    /\ run' = [Pruned EXCEPT ![b] = "live"]
    /\ Move(b, [bind[b] EXCEPT !.pc = "collect", !.todo = Repos, !.keep = Protected(run')])
    /\ overlapped' = overlapped \cup {d \in Binds \ {b} : bind[d].pc \in Ensuring}
    /\ UNCHANGED <<upstream, mirror, lock, store, restarts>>

\* handleExec and handleStatus prune before they look a run up.
Look ==
    /\ run # Pruned
    /\ run' = Pruned
    /\ UNCHANGED <<upstream, mirror, lock, store, bind, restarts, overlapped>>

HourPasses(b) ==
    /\ run[b] = "live"
    /\ run' = [run EXCEPT ![b] = "old"]
    /\ UNCHANGED <<upstream, mirror, lock, store, bind, restarts, overlapped>>
-----------------------------------------------------------------------------
(* GCSnapshots, before the request is answered. *)

Loose(b, r) == Ready(r) \ bind[b].keep[r]

\* sort.Slice: the newest first, markers of one time in any order.
Orders(b, r) ==
    {place \in [Loose(b, r) -> 1..Cardinality(Loose(b, r))] : \A c, d \in Loose(b, r) :
        c # d => place[c] # place[d] /\ (made[r][c] > made[r][d] => place[c] < place[d])}

\* Faulty variant: kept <= retain.
DoomedOffByOne(place) == {c \in DOMAIN place : place[c] > Retain + 1}

\* The first Retain of what is not protected are kept.
Doomed(place) == {c \in DOMAIN place : place[c] > Retain}

Collect(b) ==
    /\ At(b, "collect")
    /\ \E r \in bind[b].todo : \E place \in Orders(b, r) :
         IF Doomed(place) = {}
         THEN /\ lock[r] = None /\ UNCHANGED lock
              /\ Move(b, [bind[b] EXCEPT !.todo = @ \ {r}])
         ELSE /\ Acquire(b, r)
              /\ Move(b, [bind[b] EXCEPT !.pc = "files", !.at = r, !.todo = @ \ {r},
                                         !.doomed = Doomed(place)])
    /\ UNCHANGED <<upstream, mirror, store, run, restarts, overlapped>>

\* From the first file that goes the snapshot is not whole.
RemoveFiles(b) ==
    LET r == bind[b].at
    IN /\ At(b, "files")
       /\ \E c \in bind[b].doomed :
            /\ \A d \in bind[b].doomed : made[r][d] <= made[r][c]
            /\ whole' = Without(whole, r, c)
            /\ Move(b, [bind[b] EXCEPT !.pc = "index", !.commit = c])
       /\ UNCHANGED <<upstream, mirror, lock, index, held, made, clock, torn, run, restarts, overlapped>>

RemoveIndex(b) ==
    LET r == bind[b].at  c == bind[b].commit
    IN /\ At(b, "index")
       /\ index' = Without(index, r, c)
       /\ torn' = Without(torn, r, c)
       /\ Go(b, "marker")
       /\ UNCHANGED <<upstream, mirror, lock, whole, held, made, clock, run, restarts, overlapped>>

RemoveMarker(b) ==
    LET r == bind[b].at  c == bind[b].commit  rest == bind[b].doomed \ {c}
    IN /\ At(b, "marker")
       /\ made' = [made EXCEPT ![r][c] = 0]
       /\ IF rest = {}
          THEN /\ Release(b)
               /\ Move(b, [bind[b] EXCEPT !.pc = "collect", !.at = None, !.commit = None,
                                          !.doomed = {}])
          ELSE /\ UNCHANGED lock
               /\ Move(b, [bind[b] EXCEPT !.pc = "files", !.commit = None, !.doomed = rest])
       /\ UNCHANGED <<upstream, mirror, whole, index, held, clock, torn, run, restarts, overlapped>>

\* The answer: the run's id.  An error of GCSnapshots is not looked at.
Respond(b) == Move(b, [Idle EXCEPT !.pc = "done", !.pins = bind[b].pins])

RemoveFails(b) ==
    /\ bind[b].pc \in {"files", "index", "marker"}
    /\ torn' = IF At(b, "index") THEN With(torn, bind[b].at, bind[b].commit) ELSE torn
    /\ Release(b)
    /\ Respond(b)
    /\ UNCHANGED <<upstream, mirror, whole, index, held, made, clock, run, restarts, overlapped>>

\* Every repository has been done, the client has gone, or snapshots cannot be listed.
Answer(b) ==
    /\ At(b, "collect")
    /\ Respond(b)
    /\ UNCHANGED <<upstream, mirror, lock, store, run, restarts, overlapped>>
-----------------------------------------------------------------------------
(* The surroundings. *)

\* The default ref moves, forward or back.
Push(r, c) ==
    /\ upstream[r] # c
    /\ upstream' = [upstream EXCEPT ![r] = c]
    /\ UNCHANGED <<mirror, lock, store, bind, run, restarts, overlapped>>

\* Locks and registry are in memory.  What a killed git leaves behind is what
\* RefreshFails and CheckoutFails say.
Restart ==
    /\ restarts < MaxRestarts
    /\ restarts' = restarts + 1
    /\ lock' = [r \in Repos |-> None]
    /\ bind' = [b \in Binds |-> IF bind[b].pc \in Ensuring \cup Collecting
                                   THEN [Idle EXCEPT !.pc = "failed"] ELSE bind[b]]
    /\ run' = [b \in Binds |-> IF run[b] = "none" THEN "none" ELSE "gone"]
    /\ torn' = [r \in Repos |-> torn[r] \cup
                  {c \in Commits : \E b \in Binds : At(b, "index") /\ bind[b].at = r /\ bind[b].commit = c}]
    /\ UNCHANGED <<upstream, mirror, whole, index, held, made, clock, overlapped>>

Serve(b) ==
    \/ LockRepo(b) \/ Refresh(b) \/ RefreshFails(b) \/ Reuse(b) \/ Checkout(b)
    \/ CheckoutFails(b) \/ Mark(b) \/ Register(b)
    \/ Collect(b) \/ RemoveFiles(b) \/ RemoveIndex(b) \/ RemoveMarker(b) \/ RemoveFails(b)
    \/ Answer(b)

Next ==
    \/ \E b \in Binds :
         \/ \E visible \in SUBSET Repos : visible # {} /\ Open(b, visible)
         \/ Refuse(b) \/ Serve(b) \/ HourPasses(b)
    \/ \E r \in Repos, c \in Commits : Push(r, c)
    \/ Look \/ Restart

Spec == Init /\ [][Next]_vars

\* Git ends, sync.Mutex does not starve a waiting goroutine, file operations return.
Fairness == \A b \in Binds : SF_vars(LockRepo(b)) /\ SF_vars(Collect(b)) /\ WF_vars(Serve(b))

FairSpec == Spec /\ Fairness
-----------------------------------------------------------------------------
(* Properties *)

TypeOK ==
    /\ upstream \in [Repos -> Commits]
    /\ mirror \in [Repos -> Commits \cup {Absent, Partial}]
    /\ lock \in [Repos -> Binds \cup {None}]
    /\ whole \in [Repos -> SUBSET Commits] /\ index \in [Repos -> SUBSET Commits]
    /\ held \in [Repos -> SUBSET Commits] /\ torn \in [Repos -> SUBSET Commits]
    /\ made \in [Repos -> [Commits -> Nat]] /\ clock \in Nat \ {0}
    /\ bind \in [Binds -> Request]
    /\ run \in [Binds -> {"none", "live", "old", "gone"}]
    /\ restarts \in 0..MaxRestarts
    /\ overlapped \subseteq Binds

\* A snapshot that the next bind would take as it is has all its files, unless
\* its last removal was cut short or is under way, or a checkout that failed
\* wrote its index beside the marker such a removal had left.
CompleteIsWhole == \A r \in Repos, c \in Commits :
    Complete(r, c) => \/ c \in whole[r] \cup torn[r]
                      \/ \E b \in Binds : At(b, "index") /\ bind[b].at = r /\ bind[b].commit = c

Lost(b, r) == bind[b].pins[r] # None /\ bind[b].pins[r] \notin whole[r]

\* A run loses a snapshot only if another request read the pins, or was still
\* collecting, while the run was being bound, or if it was given a snapshot
\* that was torn: by a removal cut short, or by a failed checkout after one.
LossNeedsACause == \A b \in Binds, r \in Repos :
    Active(b) /\ Lost(b, r) => b \in overlapped \/ bind[b].pins[r] \in torn[r]

\* reposhell/README.md:267: active service runs keep their pinned snapshots.
ActiveRunsKeepSnapshots == \A b \in Binds, r \in Repos : run[b] = "live" => ~Lost(b, r)

\* When the collection of a repository ends without an error, at most Retain
\* markers are left that it did not protect, and exactly Retain if it removed any.
RetentionWindow == [][\A b \in Binds : \A r \in Repos :
    LET loose == Cardinality(Ready(r)' \ bind[b].keep[r])
    IN  /\ Collect(b) /\ r \in bind[b].todo \ bind'[b].todo /\ ~At(b, "files")' => loose <= Retain
        /\ RemoveMarker(b) /\ r = bind[b].at /\ At(b, "collect")' => loose = Retain]_vars

\* Every request is answered, whatever the other requests wait for or fail at.
BindsAreAnswered == \A b \in Binds : At(b, "repos") ~> bind[b].pc \in {"done", "failed"}
=============================================================================
