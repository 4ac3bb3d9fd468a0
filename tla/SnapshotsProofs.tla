-------------------------- MODULE SnapshotsProofs --------------------------
(***************************************************************************)
(* Proofs about Snapshots: its types, why a snapshot that is taken as      *)
(* complete has its files, why a run keeps its snapshots, and how many     *)
(* snapshots a collection leaves, for any number of repositories, commits  *)
(* and requests and any retention.                                         *)
(***************************************************************************)
EXTENDS Snapshots, FiniteSetTheorems, TLAPS

States == {"none", "live", "old", "gone"}

\* A request that moves is the only one that does.
LEMMA MoveOne == ASSUME TypeOK, NEW b \in Binds, NEW next \in Request, Move(b, next)
    PROVE /\ bind' \in [Binds -> Request]
          /\ bind'[b] = next
          /\ \A d \in Binds \ {b} : bind'[d] = bind[d]
BY DEF TypeOK, Move

LEMMA IdleType == Idle \in Request /\ [Idle EXCEPT !.pc = "failed"] \in Request
BY DEF Idle, Request, Ensuring, Collecting

\* What With and Without do to a set of commits for each repository.
LEMMA WithType == ASSUME NEW f \in [Repos -> SUBSET Commits], NEW r \in Repos, NEW c \in Commits
    PROVE /\ With(f, r, c) \in [Repos -> SUBSET Commits]
          /\ Without(f, r, c) \in [Repos -> SUBSET Commits]
BY DEF With, Without

\* Which repository a request works on is known from its place.
Places == \A b \in Binds : bind[b].pc \in Holding => bind[b].at \in Repos /\ lock[bind[b].at] = b
Commitments == \A b \in Binds :
    bind[b].pc \in {"checkout", "mark", "index", "marker"} => bind[b].commit \in Commits

Typed == TypeOK /\ Places /\ Commitments

LEMMA TypedInit == Init => Typed
<1> SUFFICES ASSUME Init PROVE Typed
  OBVIOUS
<1> USE SnapshotsAssumption
<1>1. bind \in [Binds -> Request] /\ \A b \in Binds : bind[b].pc = "idle"
  BY IdleType DEF Init, Idle
<1>2. whole \in [Repos -> SUBSET Commits] /\ index \in [Repos -> SUBSET Commits]
  BY DEF Init
<1>3. made \in [Repos -> [Commits -> Nat]]
  BY DEF Init
<1>4. clock \in Nat \ {0}
  BY DEF Init
<1>5. TypeOK
  BY <1>1, <1>2, <1>3, <1>4 DEF Init, TypeOK
<1> QED BY <1>1, <1>5 DEF Typed, Places, Commitments, Holding

\* Every step leaves every request's record a record, and its lock and commit where
\* its place says they are.  The lemmas give the two halves of a step: what happens
\* to the request that moves, and that the others and their locks stay.
LEMMA OthersStay == ASSUME Typed, NEW b \in Binds, NEW next \in Request, Move(b, next),
                           \/ UNCHANGED lock
                           \/ bind[b].pc \in Holding /\ Release(b)
                           \/ \E r \in Repos : Acquire(b, r),
                           next.pc \in Holding => next.at \in Repos /\ lock'[next.at] = b,
                           next.pc \in {"checkout", "mark", "index", "marker"} => next.commit \in Commits
    PROVE /\ lock' \in [Repos -> Binds \cup {None}]
          /\ bind' \in [Binds -> Request]
          /\ Places' /\ Commitments'
<1>1. /\ bind' \in [Binds -> Request] /\ bind'[b] = next
      /\ \A d \in Binds \ {b} : bind'[d] = bind[d]
  BY MoveOne DEF Typed
<1>2. lock' \in [Repos -> Binds \cup {None}]
  BY DEF Typed, TypeOK, Places, Release, Acquire
<1>3. \A d \in Binds \ {b} : bind[d].pc \in Holding => lock'[bind[d].at] = d
  <2> SUFFICES ASSUME NEW d \in Binds \ {b}, bind[d].pc \in Holding
               PROVE  lock'[bind[d].at] = d
    OBVIOUS
  <2>1. bind[d].at \in Repos /\ lock[bind[d].at] = d
    BY DEF Typed, Places
  <2>2. CASE UNCHANGED lock
    BY <2>1, <2>2
  <2>3. CASE bind[b].pc \in Holding /\ Release(b)
    BY <2>1, <2>3 DEF Typed, TypeOK, Places, Release
  <2>4. CASE \E r \in Repos : Acquire(b, r)
    BY <2>1, <2>4, SnapshotsAssumption DEF Typed, TypeOK, Acquire
  <2> QED BY <2>2, <2>3, <2>4
<1>4. Places'
  BY <1>1, <1>3 DEF Typed, Places
<1>5. Commitments'
  BY <1>1 DEF Typed, Commitments
<1> QED BY <1>1, <1>2, <1>4, <1>5

\* A request that takes up a repository it still has to do is well typed.
LEMMA NextRepo ==
    ASSUME NEW q \in Request, NEW r \in q.todo
    PROVE  LET next == [q EXCEPT !.pc = "refresh", !.todo = @ \ {r}, !.at = r]
           IN next \in Request /\ next.pc = "refresh" /\ next.at = r
<1> DEFINE rest == q.todo \ {r}
<1>1. r \in Repos /\ rest \in SUBSET Repos
  BY DEF Request
<1>2. "refresh" \in Ensuring
  BY DEF Ensuring
<1> HIDE DEF rest
<1>3. LET next == [q EXCEPT !.pc = "refresh", !.todo = rest, !.at = r]
      IN next \in Request /\ next.pc = "refresh" /\ next.at = r
  BY <1>1, <1>2 DEF Request
<1> QED BY <1>3 DEF rest

\* A request that failed is well typed, and holds no lock.
LEMMA FailedType == LET next == [Idle EXCEPT !.pc = "failed"]
    IN next \in Request /\ next.pc = "failed" /\ next.pc \notin Holding \cup {"index", "checkout"}
BY IdleType DEF Idle, Holding

LEMMA TypedStep == Typed /\ [Next]_vars => Typed'
<1> SUFFICES ASSUME Typed, [Next]_vars PROVE Typed'
  OBVIOUS
<1> USE SnapshotsAssumption
<1>a. /\ TypeOK /\ Places /\ Commitments
      /\ \A b \in Binds : bind[b] \in Request
  BY DEF Typed, TypeOK
<1>f. ASSUME NEW b \in Binds, Fail(b), UNCHANGED lock \/ (bind[b].pc \in Holding /\ Release(b))
      PROVE  /\ lock' \in [Repos -> Binds \cup {None}] /\ bind' \in [Binds -> Request]
             /\ Places' /\ Commitments'
  <2> DEFINE next == [Idle EXCEPT !.pc = "failed"]
  <2>1. next \in Request /\ next.pc = "failed"
    BY FailedType
  <2>2. Move(b, next)
    BY <1>f DEF Fail
  <2> HIDE DEF next
  <2> QED BY <1>f, <2>1, <2>2, OthersStay DEF Holding
<1>p. ASSUME NEW b \in Binds, NEW c \in Commits, Pin(b, c), bind[b].pc \in Holding
      PROVE  /\ lock' \in [Repos -> Binds \cup {None}] /\ bind' \in [Binds -> Request]
             /\ Places' /\ Commitments'
  <2> DEFINE next == [bind[b] EXCEPT !.pc = "repos", !.at = None, !.commit = None,
                                     !.pins = [@ EXCEPT ![bind[b].at] = c]]
  <2>1. next \in Request /\ next.pc = "repos"
    BY <1>a DEF Request, Ensuring, Collecting
  <2>2. Move(b, next) /\ Release(b)
    BY <1>p DEF Pin
  <2> HIDE DEF next
  <2> QED BY <1>p, <2>1, <2>2, OthersStay DEF Holding
<1>1. ASSUME NEW b \in Binds, NEW visible \in SUBSET Repos, Open(b, visible) PROVE Typed'
  <2> DEFINE next == [Idle EXCEPT !.pc = "repos", !.todo = visible]
  <2>1. next \in Request /\ next.pc = "repos"
    BY <1>1, <1>a, IdleType DEF Request, Ensuring, Collecting, Idle
  <2>2. Move(b, next) /\ UNCHANGED lock
    BY <1>1, IdleType DEF Open
  <2> HIDE DEF next
  <2>9. /\ lock' \in [Repos -> Binds \cup {None}] /\ bind' \in [Binds -> Request]
        /\ Places' /\ Commitments'
    BY <2>1, <2>2, <1>a, OthersStay DEF Holding
  <2> QED BY <1>1, <1>a, <2>9 DEF Typed, TypeOK, Open, store
<1>2. ASSUME NEW b \in Binds, LockRepo(b) PROVE Typed'
  <2> PICK r \in bind[b].todo :
         /\ Acquire(b, r)
         /\ Move(b, [bind[b] EXCEPT !.pc = "refresh", !.todo = @ \ {r}, !.at = r])
    BY <1>2 DEF LockRepo
  <2> DEFINE next == [bind[b] EXCEPT !.pc = "refresh", !.todo = @ \ {r}, !.at = r]
  <2>0. r \in Repos
    BY <1>a DEF Request
  <2>1. next \in Request /\ next.pc = "refresh" /\ next.at = r
    BY <1>a, NextRepo
  <2>2. Move(b, next) /\ Acquire(b, r) /\ lock'[r] = b
    BY <2>0, <1>a DEF Acquire, TypeOK
  <2> HIDE DEF next
  <2>9. /\ lock' \in [Repos -> Binds \cup {None}] /\ bind' \in [Binds -> Request]
        /\ Places' /\ Commitments'
    BY <2>0, <2>1, <2>2, OthersStay DEF Holding
  <2> QED BY <1>2, <1>a, <2>9 DEF Typed, TypeOK, LockRepo, store
<1>3. ASSUME NEW b \in Binds, Refuse(b) PROVE Typed'
  BY <1>3, <1>a, <1>f DEF Refuse, Typed, TypeOK, store
<1>4. ASSUME NEW b \in Binds, Refresh(b) PROVE Typed'
  <2> DEFINE r == bind[b].at
  <2> PICK m \in (IF mirror[r] = Absent THEN {upstream[r]} ELSE {mirror[r], upstream[r]}) :
         /\ mirror' = [mirror EXCEPT ![r] = m]
         /\ \/ m = Partial /\ Fail(b) /\ Release(b)
            \/ /\ m # Partial
               /\ Move(b, [bind[b] EXCEPT !.pc = "checkout", !.commit = m])
               /\ UNCHANGED lock
    BY <1>4 DEF Refresh
  <2>0. r \in Repos /\ lock[r] = b /\ bind[b].pc = "refresh" /\ bind[b].pc \in Holding
    BY <1>4, <1>a DEF Refresh, At, Places, Holding
  <2>1. m \in Commits \cup {Partial} /\ mirror' \in [Repos -> Commits \cup {Absent, Partial}]
    BY <2>0, <1>a DEF TypeOK
  <2>2. CASE Fail(b) /\ Release(b)
    BY <1>4, <1>a, <1>f, <2>0, <2>1, <2>2 DEF Refresh, Typed, TypeOK, store
  <2>3. CASE /\ m # Partial
             /\ Move(b, [bind[b] EXCEPT !.pc = "checkout", !.commit = m])
             /\ UNCHANGED lock
    <3> DEFINE next == [bind[b] EXCEPT !.pc = "checkout", !.commit = m]
    <3>0. m \in Commits /\ bind[b] \in Request
      BY <1>a, <2>1, <2>3
    <3>1. next \in Request /\ next.pc = "checkout" /\ next.at = r /\ next.commit = m
      BY <3>0 DEF Request, Ensuring, Collecting
    <3>2. Move(b, next) /\ UNCHANGED lock
      BY <2>3
    <3> HIDE DEF next
    <3>3. /\ lock' \in [Repos -> Binds \cup {None}] /\ bind' \in [Binds -> Request]
          /\ Places' /\ Commitments'
      BY <2>0, <3>0, <3>1, <3>2, OthersStay DEF Holding
    <3> QED BY <1>4, <1>a, <2>1, <3>3 DEF Refresh, Typed, TypeOK, store
  <2> QED BY <2>2, <2>3
<1>5. ASSUME NEW b \in Binds, RefreshFails(b) PROVE Typed'
  <2>1. mirror' \in [Repos -> Commits \cup {Absent, Partial}]
    BY <1>5, <1>a DEF RefreshFails, TypeOK
  <2>2. bind[b].pc \in Holding /\ Fail(b) /\ Release(b)
    BY <1>5 DEF RefreshFails, At, Holding
  <2> QED BY <1>5, <1>a, <1>f, <2>1, <2>2 DEF RefreshFails, Typed, TypeOK, store
<1>h. ASSUME NEW b \in Binds, bind[b].pc \in {"checkout", "mark", "files", "index", "marker"}
      PROVE  /\ bind[b].pc \in Holding /\ bind[b].at \in Repos /\ lock[bind[b].at] = b
             /\ bind[b].pc # "files" => bind[b].commit \in Commits
  BY <1>h, <1>a DEF Places, Commitments, Holding
<1>6. ASSUME NEW b \in Binds, Reuse(b) PROVE Typed'
  <2>1. bind[b].pc \in Holding /\ bind[b].commit \in Commits
    BY <1>6, <1>h DEF Reuse, At
  <2> QED BY <1>6, <1>a, <1>p, <2>1 DEF Reuse, Typed, TypeOK, store
<1>7. ASSUME NEW b \in Binds, Checkout(b) PROVE Typed'
  <2> DEFINE r == bind[b].at  c == bind[b].commit  next == [bind[b] EXCEPT !.pc = "mark"]
  <2>0. r \in Repos /\ c \in Commits /\ lock[r] = b
    BY <1>7, <1>h DEF Checkout, At
  <2>1. next \in Request /\ next.pc = "mark" /\ next.at = r /\ next.commit = c
    BY <1>a DEF Request, Ensuring, Collecting
  <2>2. Move(b, next) /\ UNCHANGED lock
    BY <1>7 DEF Checkout, Go
  <2>3. /\ whole' \in [Repos -> SUBSET Commits] /\ index' \in [Repos -> SUBSET Commits]
        /\ torn' \in [Repos -> SUBSET Commits]
    BY <1>7, <1>a, <2>0, WithType DEF Checkout, TypeOK
  <2> HIDE DEF next
  <2>9. /\ lock' \in [Repos -> Binds \cup {None}] /\ bind' \in [Binds -> Request]
        /\ Places' /\ Commitments'
    BY <2>0, <2>1, <2>2, OthersStay DEF Holding
  <2> QED BY <1>7, <1>a, <2>3, <2>9 DEF Typed, TypeOK, Checkout
<1>8. ASSUME NEW b \in Binds, CheckoutFails(b) PROVE Typed'
  <2>0. bind[b].at \in Repos /\ bind[b].commit \in Commits /\ bind[b].pc \in Holding
    BY <1>8, <1>h DEF CheckoutFails, At
  <2>1. held' \in [Repos -> SUBSET Commits]
    <3>1. held \in [Repos -> SUBSET Commits]
      BY <1>a DEF TypeOK
    <3>2. With(held, bind[b].at, bind[b].commit) \in [Repos -> SUBSET Commits]
      BY <2>0, <3>1, WithType
    <3> QED BY <1>8, <3>1, <3>2 DEF CheckoutFails
  <2>2. Fail(b) /\ Release(b)
    BY <1>8 DEF CheckoutFails
  <2>3. index' \in [Repos -> SUBSET Commits] /\ torn' \in [Repos -> SUBSET Commits]
    <3>1. index \in [Repos -> SUBSET Commits] /\ torn \in [Repos -> SUBSET Commits]
      BY <1>a DEF TypeOK
    <3>2. /\ With(index, bind[b].at, bind[b].commit) \in [Repos -> SUBSET Commits]
          /\ With(torn, bind[b].at, bind[b].commit) \in [Repos -> SUBSET Commits]
      BY <2>0, <3>1, WithType
    <3> QED BY <1>8, <3>1, <3>2 DEF CheckoutFails
  <2> QED BY <1>8, <1>a, <1>f, <2>0, <2>1, <2>2, <2>3 DEF CheckoutFails, Typed, TypeOK
<1>9. ASSUME NEW b \in Binds, Mark(b) PROVE Typed'
  <2> DEFINE r == bind[b].at  c == bind[b].commit
  <2>0. r \in Repos /\ c \in Commits /\ bind[b].pc \in Holding
    BY <1>9, <1>h DEF Mark, At
  <2>1. made' \in [Repos -> [Commits -> Nat]] /\ clock' \in Nat \ {0}
    BY <1>9, <1>a, <2>0 DEF Mark, TypeOK
  <2>2. Pin(b, c) \/ (Fail(b) /\ Release(b))
    BY <1>9 DEF Mark
  <2>3. /\ lock' \in [Repos -> Binds \cup {None}] /\ bind' \in [Binds -> Request]
        /\ Places' /\ Commitments'
    BY <1>f, <1>p, <2>0, <2>2
  <2> QED BY <1>9, <1>a, <2>1, <2>3 DEF Mark, Typed, TypeOK
<1>10. ASSUME NEW b \in Binds, Register(b) PROVE Typed'
  <2> DEFINE next == [bind[b] EXCEPT !.pc = "collect", !.todo = Repos, !.keep = Protected(run')]
  <2>1. next \in Request /\ next.pc = "collect"
    BY <1>a DEF Request, Ensuring, Collecting, Protected
  <2>2. Move(b, next) /\ UNCHANGED lock
    BY <1>10 DEF Register
  <2>3. run' \in [Binds -> States] /\ overlapped' \subseteq Binds
    BY <1>10, <1>a DEF Register, Pruned, States, TypeOK
  <2> HIDE DEF next
  <2>9. /\ lock' \in [Repos -> Binds \cup {None}] /\ bind' \in [Binds -> Request]
        /\ Places' /\ Commitments'
    BY <2>1, <2>2, OthersStay DEF Holding
  <2> QED BY <1>10, <1>a, <2>3, <2>9 DEF Typed, TypeOK, Register, store, States
<1>11. CASE Look
  <2>1. run' \in [Binds -> States]
    BY <1>11, <1>a DEF Look, Pruned, States, TypeOK
  <2> QED BY <1>11, <1>a, <2>1 DEF Look, Typed, TypeOK, Places, Commitments, store, States
<1>12. ASSUME NEW b \in Binds, HourPasses(b) PROVE Typed'
  <2>1. run' \in [Binds -> States]
    BY <1>12, <1>a DEF HourPasses, States, TypeOK
  <2> QED BY <1>12, <1>a, <2>1 DEF HourPasses, Typed, TypeOK, Places, Commitments, store, States
<1>13. ASSUME NEW b \in Binds, Collect(b) PROVE Typed'
  <2> PICK r \in bind[b].todo : \E place \in Orders(b, r) :
         IF Doomed(place) = {}
         THEN /\ lock[r] = None /\ UNCHANGED lock
              /\ Move(b, [bind[b] EXCEPT !.todo = @ \ {r}])
         ELSE /\ Acquire(b, r)
              /\ Move(b, [bind[b] EXCEPT !.pc = "files", !.at = r, !.todo = @ \ {r},
                                         !.doomed = Doomed(place)])
    BY <1>13 DEF Collect
  <2> PICK place \in Orders(b, r) :
         IF Doomed(place) = {}
         THEN /\ lock[r] = None /\ UNCHANGED lock
              /\ Move(b, [bind[b] EXCEPT !.todo = @ \ {r}])
         ELSE /\ Acquire(b, r)
              /\ Move(b, [bind[b] EXCEPT !.pc = "files", !.at = r, !.todo = @ \ {r},
                                         !.doomed = Doomed(place)])
    OBVIOUS
  <2>0. r \in Repos
    BY <1>a DEF Request
  <2>1. Doomed(place) \subseteq Commits
    BY DEF Doomed, Orders, Loose, Ready
  <2>2. PICK next \in Request :
          /\ Move(b, next)
          /\ \/ next.pc = "collect" /\ UNCHANGED lock
             \/ next.pc = "files" /\ next.at = r /\ Acquire(b, r)
    <3>1. [bind[b] EXCEPT !.todo = @ \ {r}] \in Request
      BY <1>a DEF Request
    <3>0. bind[b].pc = "collect"
      BY <1>13 DEF Collect, At
    <3>3. [bind[b] EXCEPT !.todo = @ \ {r}].pc = "collect"
      BY <3>0, <1>a DEF Request
    <3>4. LET next == [bind[b] EXCEPT !.pc = "files", !.at = r, !.todo = @ \ {r},
                                      !.doomed = Doomed(place)]
          IN next \in Request /\ next.pc = "files" /\ next.at = r
      <4> DEFINE doomed == Doomed(place)
                 q == bind[b]
                 rest == q.todo \ {r}
      <4>1. doomed \in SUBSET Commits /\ q \in Request /\ rest \in SUBSET Repos
        BY <1>a, <2>1 DEF Request
      <4>2. "files" \in Collecting
        BY DEF Collecting
      <4> HIDE DEF doomed, q, rest
      <4>3. LET next == [q EXCEPT !.pc = "files", !.at = r, !.todo = rest, !.doomed = doomed]
            IN next \in Request /\ next.pc = "files" /\ next.at = r
        BY <2>0, <4>1, <4>2 DEF Request
      <4> QED BY <4>3 DEF doomed, q, rest
    <3>5. CASE Doomed(place) = {}
      BY <3>1, <3>3, <3>5
    <3>6. CASE Doomed(place) # {}
      BY <3>4, <3>6
    <3> QED BY <3>5, <3>6
  <2>3. Acquire(b, r) => lock'[r] = b
    BY <2>0, <1>a DEF Acquire, TypeOK
  <2>9. /\ lock' \in [Repos -> Binds \cup {None}] /\ bind' \in [Binds -> Request]
        /\ Places' /\ Commitments'
    BY <2>0, <2>2, <2>3, OthersStay DEF Holding
  <2> QED BY <1>13, <1>a, <2>9 DEF Typed, TypeOK, Collect, store
<1>14. ASSUME NEW b \in Binds, RemoveFiles(b) PROVE Typed'
  <2> DEFINE r == bind[b].at
  <2>0. r \in Repos /\ lock[r] = b
    BY <1>14, <1>h DEF RemoveFiles, At
  <2> PICK c \in bind[b].doomed :
         /\ whole' = Without(whole, r, c)
         /\ Move(b, [bind[b] EXCEPT !.pc = "index", !.commit = c])
    BY <1>14 DEF RemoveFiles
  <2> DEFINE next == [bind[b] EXCEPT !.pc = "index", !.commit = c]
  <2>1. next \in Request /\ next.pc = "index" /\ next.at = r /\ next.commit = c /\ c \in Commits
    BY <1>a DEF Request, Ensuring, Collecting
  <2>2. whole' \in [Repos -> SUBSET Commits]
    BY <1>a, <2>0, <2>1, WithType DEF TypeOK
  <2>3. Move(b, next) /\ UNCHANGED lock
    BY <1>14 DEF RemoveFiles
  <2> HIDE DEF next
  <2>9. /\ lock' \in [Repos -> Binds \cup {None}] /\ bind' \in [Binds -> Request]
        /\ Places' /\ Commitments'
    BY <2>0, <2>1, <2>3, OthersStay DEF Holding
  <2> QED BY <1>14, <1>a, <2>2, <2>9 DEF Typed, TypeOK, RemoveFiles
<1>15. ASSUME NEW b \in Binds, RemoveIndex(b) PROVE Typed'
  <2> DEFINE r == bind[b].at  c == bind[b].commit  next == [bind[b] EXCEPT !.pc = "marker"]
  <2>0. r \in Repos /\ c \in Commits /\ lock[r] = b
    BY <1>15, <1>h DEF RemoveIndex, At
  <2>1. next \in Request /\ next.pc = "marker" /\ next.at = r /\ next.commit = c
    BY <1>a DEF Request, Ensuring, Collecting
  <2>2. Move(b, next) /\ UNCHANGED lock
    BY <1>15 DEF RemoveIndex, Go
  <2>3. index' \in [Repos -> SUBSET Commits] /\ torn' \in [Repos -> SUBSET Commits]
    BY <1>15, <1>a, <2>0, WithType DEF RemoveIndex, TypeOK
  <2> HIDE DEF next
  <2>9. /\ lock' \in [Repos -> Binds \cup {None}] /\ bind' \in [Binds -> Request]
        /\ Places' /\ Commitments'
    BY <2>0, <2>1, <2>2, OthersStay DEF Holding
  <2> QED BY <1>15, <1>a, <2>3, <2>9 DEF Typed, TypeOK, RemoveIndex
<1>16. ASSUME NEW b \in Binds, RemoveMarker(b) PROVE Typed'
  <2> DEFINE r == bind[b].at  c == bind[b].commit  rest == bind[b].doomed \ {c}
             last == [bind[b] EXCEPT !.pc = "collect", !.at = None, !.commit = None, !.doomed = {}]
             more == [bind[b] EXCEPT !.pc = "files", !.commit = None, !.doomed = rest]
  <2>0. r \in Repos /\ c \in Commits /\ lock[r] = b /\ bind[b].pc \in Holding
    BY <1>16, <1>h DEF RemoveMarker, At
  <2>1. made' \in [Repos -> [Commits -> Nat]]
    BY <1>16, <1>a, <2>0 DEF RemoveMarker, TypeOK
  <2>2. last \in Request /\ last.pc = "collect"
    BY <1>a DEF Request, Ensuring, Collecting
  <2>3. more \in Request /\ more.pc = "files" /\ more.at = r
    BY <1>a DEF Request, Ensuring, Collecting
  <2>4. \/ Release(b) /\ Move(b, last)
        \/ (UNCHANGED lock) /\ Move(b, more)
    BY <1>16 DEF RemoveMarker
  <2> HIDE DEF last, more
  <2>9. /\ lock' \in [Repos -> Binds \cup {None}] /\ bind' \in [Binds -> Request]
        /\ Places' /\ Commitments'
    BY <2>0, <2>2, <2>3, <2>4, OthersStay DEF Holding
  <2> QED BY <1>16, <1>a, <2>1, <2>9 DEF Typed, TypeOK, RemoveMarker
<1>r. ASSUME NEW b \in Binds, Respond(b), UNCHANGED lock \/ (bind[b].pc \in Holding /\ Release(b))
      PROVE  /\ lock' \in [Repos -> Binds \cup {None}] /\ bind' \in [Binds -> Request]
             /\ Places' /\ Commitments'
  <2> DEFINE next == [Idle EXCEPT !.pc = "done", !.pins = bind[b].pins]
  <2>1. next \in Request /\ next.pc = "done"
    BY <1>a DEF Request, Idle
  <2>2. Move(b, next)
    BY <1>r DEF Respond
  <2> HIDE DEF next
  <2> QED BY <1>r, <2>1, <2>2, OthersStay DEF Holding
<1>17. ASSUME NEW b \in Binds, RemoveFails(b) PROVE Typed'
  <2>0. bind[b].at \in Repos /\ bind[b].pc \in Holding /\ (At(b, "index") => bind[b].commit \in Commits)
    BY <1>17, <1>h DEF RemoveFails, At
  <2>1. torn' \in [Repos -> SUBSET Commits]
    BY <1>17, <1>a, <2>0, WithType DEF RemoveFails, TypeOK
  <2>2. Respond(b) /\ Release(b)
    BY <1>17 DEF RemoveFails
  <2> QED BY <1>17, <1>a, <1>r, <2>0, <2>1, <2>2 DEF RemoveFails, Typed, TypeOK
<1>18. ASSUME NEW b \in Binds, Answer(b) PROVE Typed'
  BY <1>18, <1>a, <1>r DEF Answer, Typed, TypeOK, store
<1>19. ASSUME NEW r \in Repos, NEW c \in Commits, Push(r, c) PROVE Typed'
  BY <1>19, <1>a DEF Push, Typed, TypeOK, Places, Commitments, store
<1>20. CASE Restart
  <2>1. bind' \in [Binds -> Request] /\ \A b \in Binds : bind'[b].pc \in {"idle", "done", "failed"}
    BY <1>20, <1>a, FailedType DEF Restart, Request
  <2>2. /\ run' \in [Binds -> States] /\ lock' \in [Repos -> Binds \cup {None}]
        /\ torn' \in [Repos -> SUBSET Commits] /\ restarts' \in 0..MaxRestarts
    BY <1>20, <1>a DEF Restart, States, TypeOK
  <2> QED BY <1>20, <1>a, <2>1, <2>2 DEF Restart, Typed, TypeOK, Places, Commitments, Holding, States
<1>21. CASE UNCHANGED vars
  BY <1>21, <1>a DEF vars, store, Typed, TypeOK, Places, Commitments
<1> QED BY <1>1, <1>2, <1>3, <1>4, <1>5, <1>6, <1>7, <1>8, <1>9, <1>10, <1>11, <1>12, <1>13, <1>14,
           <1>15, <1>16, <1>17, <1>18, <1>19, <1>20, <1>21 DEF Next, Serve

\* Type correctness: a request that stands between taking and releasing a lock
\* knows its repository and commit (server.go, reposhell.go).
THEOREM SnapshotsTypes == Spec => []TypeOK
<1>1. Spec => []Typed
  BY TypedInit, TypedStep, PTL DEF Spec
<1>2. Typed => TypeOK
  BY DEF Typed
<1> QED BY <1>1, <1>2, PTL
-----------------------------------------------------------------------------
(* Why a run keeps its snapshots.                                           *)

\* Only an answered or collecting request has an active run.
Phases == \A b \in Binds : Active(b) => bind[b].pc \in Collecting \cup {"done"}

\* Nothing that is protected is removed.
Spared == \A b \in Binds :
    /\ bind[b].pc \in {"files", "index", "marker"} =>
         \A c \in bind[b].doomed : c \notin bind[b].keep[bind[b].at]
    /\ bind[b].pc \in {"index", "marker"} => bind[b].commit \in bind[b].doomed

\* What is about to be marked has been checked out.
Fresh == \A b \in Binds : At(b, "mark") => bind[b].commit \in whole[bind[b].at]

\* Those that have snapshots to lose.
Exposed(b) == Active(b) \/ bind[b].pc \in Ensuring

\* A request that collects knows the pins of every run it has not overlapped with.
Knows(h, b) == Active(b) /\ \A r \in Repos : bind[b].pins[r] # None => bind[b].pins[r] \in bind[h].keep[r]
Known == \A h, b \in Binds : bind[h].pc \in Collecting /\ Exposed(b) => b \in overlapped \/ Knows(h, b)

Safe == \A b \in Binds, r \in Repos :
    Exposed(b) /\ Lost(b, r) => b \in overlapped \/ bind[b].pins[r] \in torn[r]

IInv == Typed /\ Phases /\ Spared /\ Fresh /\ Known /\ CompleteIsWhole /\ Safe

\* What a step leaves of the requests: the others, and of the one that moves its
\* binding, or all that the removals depend on.
Moved(b, pc) == bind'[b].pc = pc /\ \A d \in Binds \ {b} : bind'[d] = bind[d]
SameBinding(b) == bind'[b].pins = bind[b].pins /\ bind'[b].keep = bind[b].keep
SameWork(b) == SameBinding(b) /\ bind'[b].at = bind[b].at /\ bind'[b].doomed = bind[b].doomed

LEMMA Moves == ASSUME Typed, NEW b \in Binds
    PROVE /\ \A visible \in SUBSET Repos : Open(b, visible) =>
               Moved(b, "repos") /\ bind'[b].pins = [r \in Repos |-> None]
          /\ LockRepo(b) => Moved(b, "refresh") /\ SameBinding(b)
          /\ Fail(b) => Moved(b, "failed")
          /\ Refresh(b) => Moved(b, "failed") \/ (Moved(b, "checkout") /\ SameBinding(b))
          /\ \A c \in Commits : Pin(b, c) /\ bind[b].at \in Repos =>
               Moved(b, "repos") /\ bind'[b].pins = [bind[b].pins EXCEPT ![bind[b].at] = c]
          /\ Checkout(b) => Moved(b, "mark") /\ SameWork(b) /\ bind'[b].commit = bind[b].commit
          /\ Register(b) => Moved(b, "collect") /\ bind'[b].pins = bind[b].pins
                              /\ bind'[b].keep = Protected(run')
          /\ Collect(b) => \/ Moved(b, "collect") /\ SameBinding(b)
                           \/ \E r \in Repos : /\ Moved(b, "files") /\ SameBinding(b) /\ bind'[b].at = r
                                               /\ \E place \in Orders(b, r) : bind'[b].doomed = Doomed(place)
          /\ RemoveFiles(b) => \E c \in bind[b].doomed :
               /\ Moved(b, "index") /\ SameWork(b) /\ bind'[b].commit = c
               /\ whole' = Without(whole, bind[b].at, c)
          /\ RemoveIndex(b) => Moved(b, "marker") /\ SameWork(b) /\ bind'[b].commit = bind[b].commit
          /\ RemoveMarker(b) => \/ Moved(b, "collect") /\ SameBinding(b)
                                \/ /\ Moved(b, "files") /\ SameBinding(b) /\ bind'[b].at = bind[b].at
                                   /\ bind'[b].doomed \subseteq bind[b].doomed
          /\ Respond(b) => Moved(b, "done") /\ bind'[b].pins = bind[b].pins
<1>a. bind \in [Binds -> Request] /\ bind[b] \in Request /\ Idle \in Request
  BY IdleType DEF Typed, TypeOK
<1>1. ASSUME NEW visible \in SUBSET Repos, Open(b, visible)
      PROVE Moved(b, "repos") /\ bind'[b].pins = [r \in Repos |-> None]
  BY <1>1, <1>a DEF Move, Open, Moved, Idle
<1>2. ASSUME LockRepo(b) PROVE Moved(b, "refresh") /\ SameBinding(b)
  <2> PICK r \in bind[b].todo : Move(b, [bind[b] EXCEPT !.pc = "refresh", !.todo = @ \ {r}, !.at = r])
    BY <1>2 DEF LockRepo
  <2> QED BY <1>a DEF Move, Moved, SameBinding, Request
<1>3. Fail(b) => Moved(b, "failed")
  BY <1>a DEF Move, Fail, Moved, Idle
<1>4. ASSUME Refresh(b) PROVE Moved(b, "failed") \/ (Moved(b, "checkout") /\ SameBinding(b))
  <2>1. Fail(b) \/ \E m : Move(b, [bind[b] EXCEPT !.pc = "checkout", !.commit = m])
    BY <1>4 DEF Refresh
  <2> QED BY <1>a, <1>3, <2>1 DEF Move, Moved, SameBinding, Request
<1>5. ASSUME NEW c \in Commits, Pin(b, c), bind[b].at \in Repos
      PROVE Moved(b, "repos") /\ bind'[b].pins = [bind[b].pins EXCEPT ![bind[b].at] = c]
  BY <1>5, <1>a DEF Move, Pin, Moved, Request
<1>6. Checkout(b) => Moved(b, "mark") /\ SameWork(b) /\ bind'[b].commit = bind[b].commit
  BY <1>a DEF Move, Checkout, Go, Moved, SameWork, SameBinding, Request
<1>7. Register(b) => Moved(b, "collect") /\ bind'[b].pins = bind[b].pins /\ bind'[b].keep = Protected(run')
  BY <1>a DEF Move, Register, Moved, Request
<1>8. ASSUME Collect(b)
      PROVE \/ Moved(b, "collect") /\ SameBinding(b)
            \/ \E r \in Repos : /\ Moved(b, "files") /\ SameBinding(b) /\ bind'[b].at = r
                                /\ \E place \in Orders(b, r) : bind'[b].doomed = Doomed(place)
  <2> PICK r \in bind[b].todo : \E place \in Orders(b, r) :
         \/ Move(b, [bind[b] EXCEPT !.todo = @ \ {r}])
         \/ Move(b, [bind[b] EXCEPT !.pc = "files", !.at = r, !.todo = @ \ {r}, !.doomed = Doomed(place)])
    BY <1>8 DEF Collect
  <2> PICK place \in Orders(b, r) :
         \/ Move(b, [bind[b] EXCEPT !.todo = @ \ {r}])
         \/ Move(b, [bind[b] EXCEPT !.pc = "files", !.at = r, !.todo = @ \ {r}, !.doomed = Doomed(place)])
    OBVIOUS
  <2>1. r \in Repos /\ bind[b].pc = "collect"
    BY <1>8, <1>a DEF Collect, At, Request
  <2>2. CASE Move(b, [bind[b] EXCEPT !.todo = @ \ {r}])
    BY <2>1, <2>2, <1>a DEF Move, Moved, SameBinding, Request
  <2>3. CASE Move(b, [bind[b] EXCEPT !.pc = "files", !.at = r, !.todo = @ \ {r}, !.doomed = Doomed(place)])
    BY <2>1, <2>3, <1>a DEF Move, Moved, SameBinding, Request
  <2> QED BY <2>2, <2>3
<1>9. ASSUME RemoveFiles(b)
      PROVE \E c \in bind[b].doomed :
               /\ Moved(b, "index") /\ SameWork(b) /\ bind'[b].commit = c
               /\ whole' = Without(whole, bind[b].at, c)
  <2> PICK c \in bind[b].doomed :
         /\ whole' = Without(whole, bind[b].at, c)
         /\ Move(b, [bind[b] EXCEPT !.pc = "index", !.commit = c])
    BY <1>9 DEF RemoveFiles
  <2>1. Moved(b, "index") /\ SameWork(b) /\ bind'[b].commit = c
    BY <1>a DEF Move, Moved, SameWork, SameBinding, Request
  <2> QED BY <2>1
<1>10. RemoveIndex(b) => Moved(b, "marker") /\ SameWork(b) /\ bind'[b].commit = bind[b].commit
  BY <1>a DEF Move, RemoveIndex, Go, Moved, SameWork, SameBinding, Request
<1>11. ASSUME RemoveMarker(b)
       PROVE  \/ Moved(b, "collect") /\ SameBinding(b)
              \/ /\ Moved(b, "files") /\ SameBinding(b) /\ bind'[b].at = bind[b].at
                 /\ bind'[b].doomed \subseteq bind[b].doomed
  <2> DEFINE rest == bind[b].doomed \ {bind[b].commit}
  <2>1. CASE Move(b, [bind[b] EXCEPT !.pc = "collect", !.at = None, !.commit = None, !.doomed = {}])
    BY <2>1, <1>a DEF Move, Moved, SameBinding, Request
  <2>2. CASE Move(b, [bind[b] EXCEPT !.pc = "files", !.commit = None, !.doomed = rest])
    BY <2>2, <1>a DEF Move, Moved, SameBinding, Request
  <2> QED BY <1>11, <2>1, <2>2 DEF RemoveMarker
<1>12. Respond(b) => Moved(b, "done") /\ bind'[b].pins = bind[b].pins
  BY <1>a DEF Move, Respond, Moved, Idle
<1> HIDE DEF Moved
<1> QED BY <1>1, <1>2, <1>3, <1>4, <1>5, <1>6, <1>7, <1>8, <1>9, <1>10, <1>11, <1>12
Files == <<whole, index, made, torn>>

\* A request that takes or releases a lock, or gives up, and leaves the files and
\* the registry alone, but for an index that is written of torn snapshots.
LEMMA QuietOrTorn ==
    ASSUME IInv, NEW b \in Binds, NEW pc \in {"refresh", "checkout", "failed", "done", "collect"},
           Moved(b, pc), UNCHANGED <<whole, made, run, overlapped>>,
           \A r \in Repos : torn[r] \subseteq torn'[r] /\ index[r] \subseteq index'[r]
                            /\ index'[r] \ index[r] \subseteq torn'[r],
           bind[b].pc # "index", bind'[b].pins = bind[b].pins \/ pc = "failed",
           pc \in Ensuring \cup {"failed"} => bind[b].pc \in Ensuring,
           pc \in {"collect", "done"} => bind[b].pc \in Collecting,
           pc = "collect" => bind'[b].keep = bind[b].keep
    PROVE  Phases' /\ Spared' /\ Fresh' /\ Known' /\ CompleteIsWhole' /\ Safe'
<1>1. Phases'
  BY DEF IInv, Phases, Moved, Active, Ensuring, Collecting
<1>2. Spared'
  BY DEF IInv, Spared, Moved
<1>3. Fresh'
  BY DEF IInv, Fresh, Moved, At
<1>4. \A d \in Binds : Exposed(d)' => Exposed(d) /\ bind'[d].pins = bind[d].pins
  BY DEF IInv, Phases, Exposed, Moved, Active, Ensuring, Collecting
<1>5. \A h \in Binds : bind'[h].pc \in Collecting => bind[h].pc \in Collecting /\ bind'[h].keep = bind[h].keep
  BY DEF Moved, Ensuring, Collecting
<1>6. \A d \in Binds : Active(d)' <=> Active(d)
  BY DEF Active
<1>7. Known'
  BY <1>4, <1>5, <1>6 DEF IInv, Known, Knows
<1>8. CompleteIsWhole'
  <2> SUFFICES ASSUME NEW r \in Repos, NEW c \in Commits, Complete(r, c)', c \notin whole'[r] \cup torn'[r]
               PROVE  \E d \in Binds : At(d, "index")' /\ bind'[d].at = r /\ bind'[d].commit = c
    BY DEF CompleteIsWhole
  <2>1. Complete(r, c) /\ c \notin whole[r] \cup torn[r]
    BY DEF Complete, Ready
  <2>2. PICK d \in Binds : At(d, "index") /\ bind[d].at = r /\ bind[d].commit = c
    BY <2>1 DEF IInv, CompleteIsWhole
  <2>3. bind'[d] = bind[d]
    BY <2>2 DEF Moved, At
  <2> QED BY <2>2, <2>3 DEF At
<1>9. Safe'
  <2> SUFFICES ASSUME NEW d \in Binds, NEW r \in Repos, Exposed(d)', Lost(d, r)', d \notin overlapped
               PROVE  bind'[d].pins[r] \in torn'[r]
    BY DEF Safe
  <2>1. Exposed(d) /\ Lost(d, r) /\ bind'[d].pins = bind[d].pins
    BY <1>4 DEF Lost
  <2> QED BY <2>1 DEF IInv, Safe
<1> QED BY <1>1, <1>2, <1>3, <1>7, <1>8, <1>9

\* A request that takes or releases a lock, or gives up, and leaves the files and
\* the registry alone.
LEMMA QuietMove ==
    ASSUME IInv, NEW b \in Binds, NEW pc \in {"refresh", "checkout", "failed", "done", "collect"},
           Moved(b, pc), UNCHANGED <<Files, run, overlapped>>,
           bind[b].pc # "index", bind'[b].pins = bind[b].pins \/ pc = "failed",
           pc \in Ensuring \cup {"failed"} => bind[b].pc \in Ensuring,
           pc \in {"collect", "done"} => bind[b].pc \in Collecting,
           pc = "collect" => bind'[b].keep = bind[b].keep
    PROVE  Phases' /\ Spared' /\ Fresh' /\ Known' /\ CompleteIsWhole' /\ Safe'
BY QuietOrTorn DEF Files

\* The bindings, the runs that may lose something, and what collecting requests know.
LEMMA KnownKept ==
    ASSUME IInv, UNCHANGED overlapped,
           \A d \in Binds : Exposed(d)' => /\ Exposed(d) /\ (Active(d) => Active(d)')
                                           /\ bind'[d].pins = bind[d].pins \/ ~Active(d),
           \A h \in Binds : bind'[h].pc \in Collecting => bind[h].pc \in Collecting /\ bind'[h].keep = bind[h].keep
    PROVE  Known'
BY DEF IInv, Known, Knows

\* No request that has not overlapped pins what another removes.
LEMMA RemovedIsUnknown ==
    ASSUME IInv, NEW h \in Binds, bind[h].pc \in {"files", "index", "marker"},
           NEW c \in bind[h].doomed, NEW b \in Binds, Exposed(b), b \notin overlapped
    PROVE  bind[b].pins[bind[h].at] # c
<1>1. bind[h].at \in Repos /\ c # None
  BY SnapshotsAssumption DEF IInv, Typed, TypeOK, Places, Holding, Request
<1>2. Knows(h, b)
  BY DEF IInv, Known, Collecting
<1> QED BY <1>1, <1>2 DEF IInv, Spared, Knows

LEMMA SafeInit == Init => IInv
<1> SUFFICES ASSUME Init PROVE IInv
  OBVIOUS
<1>1. \A b \in Binds : bind[b].pc = "idle" /\ ~Active(b) /\ ~Exposed(b)
  BY DEF Init, Idle, Active, Exposed, Ensuring
<1>2. Phases /\ Spared /\ Fresh /\ Known /\ Safe
  BY <1>1 DEF Phases, Spared, Fresh, At, Known, Safe, Collecting
<1>3. CompleteIsWhole
  BY DEF Init, CompleteIsWhole, Complete
<1> QED BY <1>2, <1>3, TypedInit DEF IInv

LEMMA SafeStep == IInv /\ [Next]_vars => IInv'
<1> SUFFICES ASSUME IInv, [Next]_vars PROVE IInv'
  OBVIOUS
<1> USE SnapshotsAssumption
<1> DEFINE Rest == Phases /\ Spared /\ Fresh /\ Known /\ CompleteIsWhole /\ Safe
<1>t. Typed /\ Typed' /\ TypeOK
  BY TypedStep DEF IInv, Typed
<1>h. ASSUME NEW b \in Binds, bind[b].pc \in {"checkout", "mark", "files", "index", "marker"}
      PROVE  /\ bind[b].at \in Repos /\ lock[bind[b].at] = b
             /\ bind[b].pc # "files" => bind[b].commit \in Commits
  BY <1>h, <1>t DEF Typed, Places, Commitments, Holding
\* Two requests that hold a lock hold different ones.
<1>l. ASSUME NEW b \in Binds, NEW d \in Binds \ {b}, bind[b].pc \in Holding, bind[d].pc \in Holding
      PROVE  bind[b].at # bind[d].at
  BY <1>l, <1>t DEF Typed, Places
\* A request that is still being bound has no run.
<1>e. \A b \in Binds : bind[b].pc \notin Collecting \cup {"done"} => ~Active(b)
  BY DEF IInv, Phases

<1>1. ASSUME NEW b \in Binds, NEW visible \in SUBSET Repos, Open(b, visible) PROVE Rest'
  <2>1. Moved(b, "repos") /\ bind'[b].pins = [r \in Repos |-> None] /\ At(b, "idle")
    BY <1>1, <1>t, Moves DEF Open
  <2>2. UNCHANGED <<Files, run>>
    BY <1>1 DEF Open, Files, store
  <2>3. \A d \in Binds : Active(d)' <=> Active(d)
    BY <2>2 DEF Active
  <2>4. Phases'
    BY <2>1, <2>3, <1>e DEF IInv, Phases, Moved, At, Collecting
  <2>5. Spared' /\ Fresh'
    BY <2>1, <2>2 DEF IInv, Spared, Fresh, Moved, At, Files
  <2>6. Known'
    <3> SUFFICES ASSUME NEW h \in Binds, NEW d \in Binds, bind'[h].pc \in Collecting, Exposed(d)'
                 PROVE  d \in overlapped' \/ Knows(h, d)'
      BY DEF Known
    <3>1. h # b /\ bind'[h] = bind[h] /\ bind[h].pc \in Collecting
      BY <2>1 DEF Moved, Collecting
    <3>2. CASE d = b
      BY <1>1, <3>1, <3>2 DEF Open
    <3>3. CASE d # b
      <4>1. bind'[d] = bind[d] /\ Exposed(d)
        BY <2>1, <2>3, <3>3 DEF Moved, Exposed
      <4>2. d \in overlapped \/ Knows(h, d)
        BY <3>1, <4>1 DEF IInv, Known
      <4> QED BY <1>1, <2>3, <3>1, <4>1, <4>2 DEF Knows, Open
    <3> QED BY <3>2, <3>3
  <2>7. CompleteIsWhole'
    BY <2>1, <2>2 DEF IInv, CompleteIsWhole, Complete, Ready, Moved, At, Files
  <2>8. Safe'
    <3> SUFFICES ASSUME NEW d \in Binds, NEW r \in Repos, Exposed(d)', Lost(d, r)'
                 PROVE  (d \in overlapped \/ bind[d].pins[r] \in torn[r])'
      BY DEF Safe
    <3>1. d # b
      BY <2>1 DEF Lost
    <3>2. bind'[d] = bind[d] /\ Exposed(d) /\ Lost(d, r)
      BY <2>1, <2>2, <2>3, <3>1 DEF Moved, Exposed, Lost, Files
    <3>3. d \in overlapped \/ bind[d].pins[r] \in torn[r]
      BY <3>2 DEF IInv, Safe
    <3> QED BY <1>1, <2>2, <3>2, <3>3 DEF Open, Files
  <2> QED BY <2>4, <2>5, <2>6, <2>7, <2>8
<1>2. ASSUME NEW b \in Binds, LockRepo(b) PROVE Rest'
  <2>1. Moved(b, "refresh") /\ SameBinding(b) /\ At(b, "repos") /\ UNCHANGED <<Files, run, overlapped>>
    BY <1>2, <1>t, Moves DEF LockRepo, Files, store
  <2> QED BY <2>1, QuietMove DEF At, Ensuring, SameBinding
<1>3. ASSUME NEW b \in Binds, Refuse(b) \/ RefreshFails(b) PROVE Rest'
  <2>1. /\ Moved(b, "failed") /\ bind[b].pc \in {"repos", "refresh"}
        /\ UNCHANGED <<Files, run, overlapped>>
    BY <1>3, <1>t, Moves DEF Refuse, RefreshFails, At, Files, store
  <2> QED BY <2>1, QuietMove DEF Ensuring
<1>k. ASSUME NEW b \in Binds, CheckoutFails(b) PROVE Rest'
  <2> DEFINE r == bind[b].at  c == bind[b].commit
  <2>1. /\ Moved(b, "failed") /\ bind[b].pc = "checkout" /\ r \in Repos /\ c \in Commits
        /\ UNCHANGED <<whole, made, run, overlapped>>
    BY <1>k, <1>t, <1>h, Moves DEF CheckoutFails, At
  <2>2. \/ UNCHANGED <<index, torn>>
        \/ index' = [index EXCEPT ![r] = @ \cup {c}] /\ torn' = [torn EXCEPT ![r] = @ \cup {c}]
    BY <1>k DEF CheckoutFails, With
  <2>3. ASSUME NEW q \in Repos
        PROVE  torn[q] \subseteq torn'[q] /\ index[q] \subseteq index'[q] /\ index'[q] \ index[q] \subseteq torn'[q]
    <3>1. index \in [Repos -> SUBSET Commits] /\ torn \in [Repos -> SUBSET Commits]
      BY <1>t DEF TypeOK
    <3>2. CASE UNCHANGED <<index, torn>>
      BY <3>2
    <3>3. CASE index' = [index EXCEPT ![r] = @ \cup {c}] /\ torn' = [torn EXCEPT ![r] = @ \cup {c}]
      <4> HIDE DEF r, c
      <4>1. CASE q = r
        BY <3>1, <3>3, <4>1
      <4>2. CASE q # r
        BY <3>1, <3>3, <4>2
      <4> QED BY <4>1, <4>2
    <3> QED BY <2>2, <3>2, <3>3
  <2> HIDE DEF r, c
  <2> QED BY <2>1, <2>3, QuietOrTorn DEF Ensuring
<1>4. ASSUME NEW b \in Binds, Refresh(b) PROVE Rest'
  <2>1. /\ Moved(b, "failed") \/ (Moved(b, "checkout") /\ SameBinding(b))
        /\ At(b, "refresh") /\ UNCHANGED <<Files, run, overlapped>>
    BY <1>4, <1>t, Moves DEF Refresh, Files, store
  <2> QED BY <2>1, QuietMove DEF At, Ensuring, SameBinding

\* A repository is pinned whose snapshot is there, or torn.
<1>p. ASSUME NEW b \in Binds, NEW c \in Commits, Pin(b, c), bind[b].pc \in {"checkout", "mark"},
             c \in whole[bind[b].at] \cup torn[bind[b].at],
             UNCHANGED <<whole, index, torn, run, overlapped>>,
             \A r \in Repos, d \in Commits : made'[r][d] > 0 =>
                made[r][d] > 0 \/ d \in whole[r]
      PROVE  Rest'
  <2>0. bind[b].at \in Repos
    BY <1>p, <1>h
  <2>1. Moved(b, "repos") /\ bind'[b].pins = [bind[b].pins EXCEPT ![bind[b].at] = c]
    BY <1>p, <1>t, <2>0, Moves
  <2>2. \A d \in Binds : (Active(d)' <=> Active(d)) /\ (Exposed(d)' => Exposed(d))
    BY <1>p, <2>1 DEF Active, Exposed, Moved, Ensuring
  <2>3. ~Active(b) /\ bind[b].pc \in Ensuring
    BY <1>p, <1>e DEF Collecting, Ensuring
  <2>4. Phases' /\ Spared' /\ Fresh'
    BY <1>p, <2>1, <2>2, <2>3 DEF IInv, Phases, Spared, Fresh, Moved, At
  <2>5. Known'
    BY <1>p, <2>1, <2>2, <2>3, KnownKept DEF Moved, Collecting
  <2>6. CompleteIsWhole'
    BY <1>p, <2>1 DEF IInv, CompleteIsWhole, Complete, Ready, Moved, At
  <2>7. Safe'
    <3> SUFFICES ASSUME NEW d \in Binds, NEW r \in Repos, Exposed(d)', Lost(d, r)'
                 PROVE  (d \in overlapped \/ bind[d].pins[r] \in torn[r])'
      BY DEF Safe
    <3>1. CASE d = b /\ r = bind[b].at
      <4>1. bind[b].pins \in [Repos -> Commits \cup {None}]
        BY <1>t DEF TypeOK, Request
      <4>2. bind'[d].pins[r] = c
        BY <2>0, <2>1, <3>1, <4>1
      <4> QED BY <1>p, <3>1, <4>2 DEF Lost
    <3>2. CASE ~(d = b /\ r = bind[b].at)
      <4>1. bind[b].pins \in [Repos -> Commits \cup {None}]
        BY <1>t DEF TypeOK, Request
      <4>2. bind'[d].pins[r] = bind[d].pins[r]
        BY <2>0, <2>1, <3>2, <4>1 DEF Moved
      <4> QED BY <1>p, <2>2, <3>2, <4>2 DEF IInv, Safe, Lost
    <3> QED BY <3>1, <3>2
  <2> QED BY <2>4, <2>5, <2>6, <2>7
<1>5. ASSUME NEW b \in Binds, Reuse(b) PROVE Rest'
  <2> DEFINE r == bind[b].at  c == bind[b].commit
  <2>1. r \in Repos /\ c \in Commits /\ bind[b].pc = "checkout" /\ bind[b].pc \in Holding
    BY <1>5, <1>h DEF Reuse, At, Holding
  <2>2. ~\E d \in Binds : At(d, "index") /\ bind[d].at = r /\ bind[d].commit = c
    <3> SUFFICES ASSUME NEW d \in Binds, At(d, "index"), bind[d].at = r PROVE FALSE
      OBVIOUS
    <3>1. d # b /\ bind[d].pc \in Holding
      BY <2>1 DEF At, Holding
    <3> QED BY <1>l, <2>1, <3>1
  <2>3. c \in whole[r] \cup torn[r]
    BY <1>5, <2>1, <2>2 DEF IInv, CompleteIsWhole, Reuse
  <2>4. Pin(b, c) /\ UNCHANGED <<whole, index, made, torn, run, overlapped>>
    BY <1>5 DEF Reuse, store
  <2> QED BY <1>p, <2>1, <2>3, <2>4
<1>6. ASSUME NEW b \in Binds, Checkout(b) PROVE Rest'
  <2> DEFINE r == bind[b].at  c == bind[b].commit
  <2>0. r \in Repos /\ c \in Commits /\ bind[b].pc = "checkout"
    BY <1>6, <1>h DEF Checkout, At
  <2>1. Moved(b, "mark") /\ SameWork(b) /\ bind'[b].commit = c
    BY <1>6, <1>t, Moves
  <2>2. /\ whole' = [whole EXCEPT ![r] = @ \cup {c}] /\ index' = [index EXCEPT ![r] = @ \cup {c}]
        /\ torn' = [torn EXCEPT ![r] = @ \ {c}] /\ UNCHANGED <<made, run, overlapped>>
    BY <1>6 DEF Checkout, With, Without
  <2>3. \A d \in Binds : /\ Active(d)' <=> Active(d)
                         /\ Exposed(d)' <=> Exposed(d)
                         /\ bind'[d].pins = bind[d].pins
    BY <2>0, <2>1, <2>2 DEF Active, Exposed, Moved, Ensuring, SameWork, SameBinding
  <2>4. Phases' /\ Spared'
    BY <2>0, <2>1, <2>3, <1>e DEF IInv, Phases, Spared, Moved, Collecting
  <2>w. c \in whole'[r] /\ \A q \in Repos : whole[q] \subseteq whole'[q]
    BY <1>t, <2>0, <2>2 DEF TypeOK
  <2>5. Fresh'
    <3> SUFFICES ASSUME NEW d \in Binds, bind'[d].pc = "mark" PROVE bind'[d].commit \in whole'[bind'[d].at]
      BY DEF Fresh, At
    <3>1. CASE d = b
      BY <2>1, <2>w, <3>1 DEF SameWork
    <3>2. CASE d # b
      <4>1. bind'[d] = bind[d] /\ bind[d].at \in Repos
        BY <1>h, <2>1, <3>2 DEF Moved
      <4> QED BY <2>w, <4>1 DEF IInv, Fresh, At
    <3> QED BY <3>1, <3>2
  <2>6. Known'
    BY <2>0, <2>1, <2>2, <2>3, KnownKept DEF Moved, Collecting
  <2>7. CompleteIsWhole'
    <3> SUFFICES ASSUME NEW q \in Repos, NEW e \in Commits, made'[q][e] > 0, e \in index'[q],
                        e \notin whole'[q] \cup torn'[q]
                 PROVE  \E d \in Binds : bind'[d].pc = "index" /\ bind'[d].at = q /\ bind'[d].commit = e
      BY DEF CompleteIsWhole, Complete, Ready, At
    <3>1. ~(q = r /\ e = c)
      BY <2>w
    <3>2. made[q][e] > 0 /\ e \in index[q] /\ e \notin whole[q] \cup torn[q]
      BY <1>t, <2>0, <2>2, <3>1 DEF TypeOK
    <3>3. PICK d \in Binds : bind[d].pc = "index" /\ bind[d].at = q /\ bind[d].commit = e
      BY <3>2 DEF IInv, CompleteIsWhole, Complete, Ready, At
    <3>4. bind'[d] = bind[d]
      BY <2>0, <2>1, <3>3 DEF Moved
    <3> QED BY <3>3, <3>4
  <2>8. Safe'
    BY <1>t, <2>0, <2>2, <2>3 DEF IInv, Safe, Lost, TypeOK
  <2> QED BY <2>4, <2>5, <2>6, <2>7, <2>8
<1>7. ASSUME NEW b \in Binds, Mark(b) PROVE Rest'
  <2> DEFINE r == bind[b].at  c == bind[b].commit
  <2>0. r \in Repos /\ c \in Commits /\ bind[b].pc = "mark" /\ c \in whole[r]
    BY <1>7, <1>h DEF Mark, At, IInv, Fresh
  <2>1. /\ Pin(b, c) \/ Fail(b)
        /\ UNCHANGED <<whole, index, torn, run, overlapped>>
        /\ \A q \in Repos, d \in Commits : made'[q][d] > 0 => made[q][d] > 0 \/ d \in whole[q]
    BY <1>7, <1>t, <2>0 DEF Mark, TypeOK
  <2>2. CASE Pin(b, c)
    BY <1>p, <2>0, <2>1, <2>2
  <2>3. CASE Fail(b)
    <3>1. Moved(b, "failed")
      BY <1>t, <2>3, Moves
    <3>2. \A d \in Binds : /\ Active(d)' <=> Active(d)
                           /\ Exposed(d)' => Exposed(d) /\ bind'[d].pins = bind[d].pins
      BY <1>e, <2>0, <2>1, <3>1 DEF Active, Exposed, Moved, Ensuring, Collecting
    <3>3. Phases' /\ Spared' /\ Fresh'
      BY <1>e, <2>0, <2>1, <3>1, <3>2 DEF IInv, Phases, Spared, Fresh, Moved, At, Collecting
    <3>4. Known'
      BY <2>1, <3>1, <3>2, KnownKept DEF Moved, Collecting
    <3>5. CompleteIsWhole'
      BY <2>0, <2>1, <3>1 DEF IInv, CompleteIsWhole, Complete, Ready, Moved, At
    <3>6. Safe'
      BY <2>1, <3>2 DEF IInv, Safe, Lost
    <3> QED BY <3>3, <3>4, <3>5, <3>6
  <2> QED BY <2>1, <2>2, <2>3
<1>8. ASSUME NEW b \in Binds, Register(b) PROVE Rest'
  <2>1. /\ Moved(b, "collect") /\ bind'[b].pins = bind[b].pins /\ bind'[b].keep = Protected(run')
        /\ bind[b].pc = "repos" /\ UNCHANGED Files
        /\ overlapped' = overlapped \cup {d \in Binds \ {b} : bind[d].pc \in Ensuring}
    BY <1>8, <1>t, Moves DEF Register, At, Files, store
  <2>2. run' = [Pruned EXCEPT ![b] = "live"] /\ run \in [Binds -> States]
    BY <1>8, <1>t DEF Register, TypeOK, States
  <2>3. \A d \in Binds : Active(d)' => run'[d] = "live" /\ (d = b \/ Active(d))
    BY <2>2 DEF Active, Pruned, States
  <2>4. \A d \in Binds : bind'[d].pins = bind[d].pins
    BY <2>1 DEF Moved
  <2>5. Phases' /\ Spared' /\ Fresh'
    BY <2>1, <2>3 DEF IInv, Phases, Spared, Fresh, Moved, At, Collecting, Files
  <2>6. Known'
    <3> SUFFICES ASSUME NEW h \in Binds, NEW d \in Binds, bind'[h].pc \in Collecting, Exposed(d)',
                        d \notin overlapped'
                 PROVE  Knows(h, d)'
      BY DEF Known
    <3>1. Active(d)' /\ run'[d] = "live"
      <4>1. CASE d = b
        BY <2>1, <2>3, <4>1 DEF Exposed, Moved, Ensuring
      <4>2. CASE d # b
        BY <2>1, <2>3, <4>2 DEF Exposed, Moved
      <4> QED BY <4>1, <4>2
    <3>2. CASE h = b
      <4> SUFFICES ASSUME NEW r \in Repos, bind'[d].pins[r] # None
                   PROVE  bind'[d].pins[r] \in bind'[h].keep[r]
        BY <3>1 DEF Knows
      <4>1. bind[d].pins[r] \in Commits
        BY <1>t, <2>4 DEF TypeOK, Request
      <4>2. bind'[h].keep[r] = {c \in Commits : \E a \in Binds : run'[a] = "live" /\ bind[a].pins[r] = c}
        BY <2>1, <3>2 DEF Protected
      <4> QED BY <2>4, <3>1, <4>1, <4>2
    <3>3. CASE h # b
      <4>1. bind'[h] = bind[h] /\ bind[h].pc \in Collecting
        BY <2>1, <3>3 DEF Moved
      <4>2. Exposed(d) /\ d \notin overlapped
        BY <2>1, <2>3, <3>1 DEF Exposed, Ensuring
      <4>3. Knows(h, d)
        BY <4>1, <4>2 DEF IInv, Known
      <4> QED BY <2>4, <3>1, <4>1, <4>3 DEF Knows
    <3> QED BY <3>2, <3>3
  <2>7. CompleteIsWhole'
    BY <2>1 DEF IInv, CompleteIsWhole, Complete, Ready, Moved, At, Files
  <2>8. Safe'
    <3>1. \A d \in Binds : Exposed(d)' => Exposed(d)
      BY <2>1, <2>3 DEF Exposed, Moved, Ensuring
    <3> QED BY <2>1, <2>4, <3>1 DEF IInv, Safe, Lost, Files
  <2> QED BY <2>5, <2>6, <2>7, <2>8
\* Runs that grow old or are pruned are not missed.
<1>9. ASSUME UNCHANGED <<Files, bind, overlapped>>, \A d \in Binds : Active(d)' => Active(d) PROVE Rest'
  <2>1. \A d \in Binds : Exposed(d)' => Exposed(d)
    BY <1>9 DEF Exposed
  <2>2. Phases' /\ Spared' /\ Fresh' /\ CompleteIsWhole'
    BY <1>9 DEF IInv, Phases, Spared, Fresh, At, CompleteIsWhole, Complete, Ready, Files
  <2>3. Known'
    <3>1. \A h, d \in Binds : Exposed(d)' /\ Knows(h, d) => Knows(h, d)'
      <4> SUFFICES ASSUME NEW h \in Binds, NEW d \in Binds, Exposed(d)', Knows(h, d) PROVE Knows(h, d)'
        OBVIOUS
      <4>1. Active(d)'
        BY <1>9, <1>e DEF Exposed, Knows, Ensuring, Collecting
      <4> QED BY <1>9, <4>1 DEF Knows
    <3> QED BY <1>9, <2>1, <3>1 DEF IInv, Known
  <2>4. Safe'
    BY <1>9, <2>1 DEF IInv, Safe, Lost, Files
  <2> QED BY <2>2, <2>3, <2>4
<1>10. ASSUME Look \/ (\E b \in Binds : HourPasses(b)) \/ (\E r \in Repos, c \in Commits : Push(r, c))
              \/ UNCHANGED vars
       PROVE  Rest'
  <2>1. UNCHANGED <<Files, bind, overlapped>>
    BY <1>10 DEF Look, HourPasses, Push, vars, store, Files
  <2>2. \A d \in Binds : Active(d)' => Active(d)
    BY <1>10, <1>t DEF Look, HourPasses, Push, vars, Active, Pruned, TypeOK
  <2> QED BY <1>9, <2>1, <2>2
<1>11. ASSUME NEW b \in Binds, Collect(b) PROVE Rest'
  <2>1. At(b, "collect") /\ UNCHANGED <<Files, run, overlapped>>
    BY <1>11 DEF Collect, Files, store
  <2>2. CASE Moved(b, "collect") /\ SameBinding(b)
    BY <2>1, <2>2, QuietMove DEF At, Collecting, SameBinding, Ensuring
  <2>3. CASE \E r \in Repos : /\ Moved(b, "files") /\ SameBinding(b) /\ bind'[b].at = r
                              /\ \E place \in Orders(b, r) : bind'[b].doomed = Doomed(place)
    <3> PICK r \in Repos : /\ Moved(b, "files") /\ SameBinding(b) /\ bind'[b].at = r
                           /\ \E place \in Orders(b, r) : bind'[b].doomed = Doomed(place)
      BY <2>3
    <3>1. \A d \in Binds : /\ Active(d)' <=> Active(d)
                           /\ Exposed(d)' => Exposed(d)
                           /\ bind'[d].pins = bind[d].pins
                           /\ bind'[d].keep = bind[d].keep
      BY <2>1 DEF Active, Exposed, Moved, Ensuring, SameBinding
    <3>2. Phases' /\ Fresh'
      BY <2>1, <3>1 DEF IInv, Phases, Fresh, Moved, At, Collecting, Files
    <3>3. Spared'
      <4>1. \A c \in bind'[b].doomed : c \notin bind[b].keep[r]
        BY DEF Doomed, Orders, Loose
      <4> QED BY <3>1, <4>1 DEF IInv, Spared, Moved
    <3>4. Known'
      <4>1. \A h \in Binds : bind'[h].pc \in Collecting => bind[h].pc \in Collecting
        BY <2>1 DEF Moved, At, Collecting
      <4> QED BY <2>1, <3>1, <4>1, KnownKept
    <3>5. CompleteIsWhole'
      BY <2>1 DEF IInv, CompleteIsWhole, Complete, Ready, Moved, At, Files
    <3>6. Safe'
      BY <2>1, <3>1 DEF IInv, Safe, Lost, Files
    <3> QED BY <3>2, <3>3, <3>4, <3>5, <3>6
  <2> QED BY <1>11, <1>t, <2>2, <2>3, Moves
\* What every step of a removal has in common.
<1>c. ASSUME NEW b \in Binds, NEW pc \in Collecting, Moved(b, pc), SameBinding(b),
             bind[b].pc \in {"files", "index", "marker"}, UNCHANGED <<run, overlapped>>
      PROVE  /\ \A d \in Binds : /\ Active(d)' <=> Active(d)
                                 /\ Exposed(d)' => Exposed(d)
                                 /\ bind'[d].pins = bind[d].pins
             /\ Phases' /\ Known'
  <2>1. \A d \in Binds : /\ Active(d)' <=> Active(d)
                         /\ Exposed(d)' => Exposed(d)
                         /\ bind'[d].pins = bind[d].pins
                         /\ bind'[d].keep = bind[d].keep
    BY <1>c DEF Active, Exposed, Moved, Ensuring, Collecting, SameBinding
  <2>2. Phases'
    BY <1>c, <2>1 DEF IInv, Phases, Moved, Collecting
  <2>3. \A h \in Binds : bind'[h].pc \in Collecting => bind[h].pc \in Collecting
    BY <1>c DEF Moved, Collecting
  <2>4. Known'
    BY <1>c, <2>1, <2>3, KnownKept
  <2> QED BY <2>1, <2>2, <2>4
<1>12. ASSUME NEW b \in Binds, RemoveFiles(b) PROVE Rest'
  <2> PICK c \in bind[b].doomed : /\ Moved(b, "index") /\ SameWork(b) /\ bind'[b].commit = c
                                  /\ whole' = Without(whole, bind[b].at, c)
    BY <1>12, <1>t, Moves
  <2> DEFINE r == bind[b].at
  <2>0. r \in Repos /\ c \in Commits /\ bind[b].pc = "files" /\ bind[b].pc \in Holding
    BY <1>12, <1>h, <1>t DEF RemoveFiles, At, TypeOK, Request, Holding
  <2>1. UNCHANGED <<index, made, torn, run, overlapped>> /\ whole' = [whole EXCEPT ![r] = @ \ {c}]
    BY <1>12 DEF RemoveFiles, Without
  <2>2. /\ \A d \in Binds : /\ Active(d)' <=> Active(d)
                            /\ Exposed(d)' => Exposed(d)
                            /\ bind'[d].pins = bind[d].pins
        /\ Phases' /\ Known'
    BY <1>c, <2>0, <2>1 DEF SameWork, Collecting
  <2>3. Spared'
    BY <2>0 DEF IInv, Spared, Moved, SameWork, SameBinding
  <2>4. Fresh'
    <3> SUFFICES ASSUME NEW d \in Binds, bind'[d].pc = "mark" PROVE bind'[d].commit \in whole'[bind'[d].at]
      BY DEF Fresh, At
    <3>1. d # b /\ bind'[d] = bind[d] /\ bind[d].pc \in Holding
      BY DEF Moved, Holding
    <3>2. bind[d].at # r /\ bind[d].at \in Repos
      BY <1>h, <1>l, <2>0, <3>1
    <3> QED BY <1>t, <2>0, <2>1, <3>1, <3>2 DEF IInv, Fresh, At, TypeOK
  <2>5. CompleteIsWhole'
    <3> SUFFICES ASSUME NEW q \in Repos, NEW e \in Commits, made'[q][e] > 0, e \in index'[q],
                        e \notin whole'[q] \cup torn'[q]
                 PROVE  \E d \in Binds : bind'[d].pc = "index" /\ bind'[d].at = q /\ bind'[d].commit = e
      BY DEF CompleteIsWhole, Complete, Ready, At
    <3>1. CASE q = r /\ e = c
      BY <3>1 DEF Moved, SameWork
    <3>2. CASE ~(q = r /\ e = c)
      <4>1. made[q][e] > 0 /\ e \in index[q] /\ e \notin whole[q] \cup torn[q]
        BY <1>t, <2>0, <2>1, <3>2 DEF TypeOK
      <4>2. PICK d \in Binds : bind[d].pc = "index" /\ bind[d].at = q /\ bind[d].commit = e
        BY <4>1 DEF IInv, CompleteIsWhole, Complete, Ready, At
      <4>3. bind'[d] = bind[d]
        BY <2>0, <4>2 DEF Moved
      <4> QED BY <4>2, <4>3
    <3> QED BY <3>1, <3>2
  <2>6. Safe'
    <3> SUFFICES ASSUME NEW d \in Binds, NEW q \in Repos, Exposed(d)', Lost(d, q)', d \notin overlapped
                 PROVE  bind[d].pins[q] \in torn[q]
      BY <2>1, <2>2 DEF Safe
    <3>1. Exposed(d) /\ bind'[d].pins = bind[d].pins
      BY <2>2
    <3>2. q = r => bind[d].pins[q] # c
      BY <2>0, <3>1, RemovedIsUnknown
    <3>3. Lost(d, q)
      BY <1>t, <2>0, <2>1, <3>1, <3>2 DEF Lost, TypeOK
    <3> QED BY <3>1, <3>3 DEF IInv, Safe
  <2> QED BY <2>2, <2>3, <2>4, <2>5, <2>6
<1>13. ASSUME NEW b \in Binds, RemoveIndex(b) PROVE Rest'
  <2> DEFINE r == bind[b].at  c == bind[b].commit
  <2>0. r \in Repos /\ c \in Commits /\ bind[b].pc = "index" /\ c \in bind[b].doomed
    BY <1>13, <1>h DEF RemoveIndex, At, IInv, Spared
  <2>1. /\ Moved(b, "marker") /\ SameWork(b) /\ bind'[b].commit = c
        /\ UNCHANGED <<whole, made, run, overlapped>>
        /\ index' = [index EXCEPT ![r] = @ \ {c}] /\ torn' = [torn EXCEPT ![r] = @ \ {c}]
    BY <1>13, <1>t, Moves DEF RemoveIndex, Without
  <2>2. /\ \A d \in Binds : /\ Active(d)' <=> Active(d)
                            /\ Exposed(d)' => Exposed(d)
                            /\ bind'[d].pins = bind[d].pins
        /\ Phases' /\ Known'
    BY <1>c, <2>0, <2>1 DEF SameWork, Collecting
  <2>3. Spared' /\ Fresh'
    BY <2>0, <2>1 DEF IInv, Spared, Fresh, At, Moved, SameWork, SameBinding
  <2>4. CompleteIsWhole'
    <3> SUFFICES ASSUME NEW q \in Repos, NEW e \in Commits, made'[q][e] > 0, e \in index'[q],
                        e \notin whole'[q] \cup torn'[q]
                 PROVE  \E d \in Binds : bind'[d].pc = "index" /\ bind'[d].at = q /\ bind'[d].commit = e
      BY DEF CompleteIsWhole, Complete, Ready, At
    <3>1. ~(q = r /\ e = c) /\ e \in index[q]
      BY <1>t, <2>0, <2>1 DEF TypeOK
    <3>2. made[q][e] > 0 /\ e \notin whole[q] \cup torn[q]
      BY <1>t, <2>0, <2>1, <3>1 DEF TypeOK
    <3>3. PICK d \in Binds : bind[d].pc = "index" /\ bind[d].at = q /\ bind[d].commit = e
      BY <3>1, <3>2 DEF IInv, CompleteIsWhole, Complete, Ready, At
    <3>4. bind'[d] = bind[d]
      BY <2>1, <3>1, <3>3 DEF Moved
    <3> QED BY <3>3, <3>4
  <2>5. Safe'
    <3> SUFFICES ASSUME NEW d \in Binds, NEW q \in Repos, Exposed(d)', Lost(d, q)', d \notin overlapped
                 PROVE  bind[d].pins[q] \in torn'[q]
      BY <2>1, <2>2 DEF Safe
    <3>1. Exposed(d) /\ Lost(d, q)
      BY <2>1, <2>2 DEF Lost
    <3>2. q = r => bind[d].pins[q] # c
      BY <2>0, <3>1, RemovedIsUnknown
    <3> QED BY <1>t, <2>0, <2>1, <3>1, <3>2 DEF IInv, Safe, TypeOK
  <2> QED BY <2>2, <2>3, <2>4, <2>5
<1>14. ASSUME NEW b \in Binds, RemoveMarker(b) PROVE Rest'
  <2> DEFINE r == bind[b].at  c == bind[b].commit
  <2>0. r \in Repos /\ c \in Commits /\ bind[b].pc = "marker"
    BY <1>14, <1>h DEF RemoveMarker, At
  <2>1. UNCHANGED <<whole, index, torn, run, overlapped>> /\ made' = [made EXCEPT ![r][c] = 0]
    BY <1>14 DEF RemoveMarker
  <2>2. \/ Moved(b, "collect") /\ SameBinding(b)
        \/ /\ Moved(b, "files") /\ SameBinding(b) /\ bind'[b].at = r
           /\ bind'[b].doomed \subseteq bind[b].doomed
    BY <1>14, <1>t, Moves
  <2>3. /\ \A d \in Binds : /\ Active(d)' <=> Active(d)
                            /\ Exposed(d)' => Exposed(d)
                            /\ bind'[d].pins = bind[d].pins
        /\ Phases' /\ Known'
    BY <1>c, <2>0, <2>1, <2>2 DEF Collecting
  <2>4. Spared'
    BY <2>0, <2>2 DEF IInv, Spared, Moved, SameBinding
  <2>5. Fresh'
    BY <2>1, <2>2 DEF IInv, Fresh, At, Moved
  <2>6. \A q \in Repos, e \in Commits : made'[q][e] > 0 => made[q][e] > 0
    BY <1>t, <2>0, <2>1 DEF TypeOK
  <2>7. CompleteIsWhole'
    BY <2>0, <2>1, <2>2, <2>6 DEF IInv, CompleteIsWhole, Complete, Ready, Moved, At
  <2>8. Safe'
    BY <2>1, <2>3 DEF IInv, Safe, Lost
  <2> QED BY <2>3, <2>4, <2>5, <2>7, <2>8
<1>15. ASSUME NEW b \in Binds, RemoveFails(b) PROVE Rest'
  <2> DEFINE r == bind[b].at  c == bind[b].commit
  <2>0. r \in Repos /\ (bind[b].pc = "index" => c \in Commits) /\ bind[b].pc \in {"files", "index", "marker"}
    BY <1>15, <1>h DEF RemoveFails
  <2>1. /\ Moved(b, "done") /\ bind'[b].pins = bind[b].pins
        /\ UNCHANGED <<whole, index, made, run, overlapped>>
        /\ torn' = IF bind[b].pc = "index" THEN [torn EXCEPT ![r] = @ \cup {c}] ELSE torn
    BY <1>15, <1>t, Moves DEF RemoveFails, With, At
  <2>2. \A d \in Binds : /\ Active(d)' <=> Active(d)
                         /\ Exposed(d)' => Exposed(d)
                         /\ bind'[d].pins = bind[d].pins
    BY <2>1 DEF Active, Exposed, Moved, Ensuring
  <2>3. Phases' /\ Spared' /\ Fresh'
    BY <2>1, <2>2 DEF IInv, Phases, Spared, Fresh, Moved, At
  <2>4. Known'
    BY <2>1, <2>2, KnownKept DEF Moved, Collecting
  <2>6. \A q \in Repos : torn[q] \subseteq torn'[q]
    BY <1>t, <2>0, <2>1 DEF TypeOK
  <2>8. bind[b].pc = "index" => c \in torn'[r]
    BY <1>t, <2>0, <2>1 DEF TypeOK
  <2>5. CompleteIsWhole'
    <3> SUFFICES ASSUME NEW q \in Repos, NEW e \in Commits, made'[q][e] > 0, e \in index'[q],
                        e \notin whole'[q] \cup torn'[q]
                 PROVE  \E d \in Binds : bind'[d].pc = "index" /\ bind'[d].at = q /\ bind'[d].commit = e
      BY DEF CompleteIsWhole, Complete, Ready, At
    <3>1. made[q][e] > 0 /\ e \in index[q] /\ e \notin whole[q] \cup torn[q]
      BY <2>1, <2>6
    <3>2. PICK d \in Binds : bind[d].pc = "index" /\ bind[d].at = q /\ bind[d].commit = e
      BY <3>1 DEF IInv, CompleteIsWhole, Complete, Ready, At
    <3>3. d # b
      BY <2>8, <3>2
    <3> QED BY <2>1, <3>2, <3>3 DEF Moved
  <2>7. Safe'
    BY <2>1, <2>2, <2>6 DEF IInv, Safe, Lost
  <2> QED BY <2>3, <2>4, <2>5, <2>7
<1>16. ASSUME NEW b \in Binds, Answer(b) PROVE Rest'
  <2>1. /\ Moved(b, "done") /\ bind'[b].pins = bind[b].pins /\ At(b, "collect")
        /\ UNCHANGED <<Files, run, overlapped>>
    BY <1>16, <1>t, Moves DEF Answer, Files, store
  <2> QED BY <2>1, QuietMove DEF At, Collecting, Ensuring
<1>17. ASSUME Restart PROVE Rest'
  <2>1. \A d \in Binds : bind'[d].pc \in {"idle", "done", "failed"}
    BY <1>17, <1>t, FailedType DEF Restart, TypeOK, Request
  <2>2. \A d \in Binds : ~Active(d)' /\ ~Exposed(d)'
    BY <1>17, <1>t, <2>1 DEF Restart, Active, Exposed, Ensuring, TypeOK
  <2>3. Phases' /\ Spared' /\ Fresh' /\ Known' /\ Safe'
    BY <2>1, <2>2 DEF Phases, Spared, Fresh, At, Known, Safe, Collecting
  <2>4. CompleteIsWhole'
    <3> SUFFICES ASSUME NEW q \in Repos, NEW e \in Commits, made'[q][e] > 0, e \in index'[q],
                        e \notin whole'[q] \cup torn'[q]
                 PROVE  \E d \in Binds : bind'[d].pc = "index" /\ bind'[d].at = q /\ bind'[d].commit = e
      BY DEF CompleteIsWhole, Complete, Ready, At
    <3>1. /\ torn'[q] = torn[q] \cup {c \in Commits : \E d \in Binds :
                          At(d, "index") /\ bind[d].at = q /\ bind[d].commit = c}
          /\ UNCHANGED <<whole, index, made>>
      BY <1>17 DEF Restart
    <3>2. \E d \in Binds : At(d, "index") /\ bind[d].at = q /\ bind[d].commit = e
      BY <3>1 DEF IInv, CompleteIsWhole, Complete, Ready
    <3> QED BY <3>1, <3>2
  <2> QED BY <2>3, <2>4
<1>18. Rest'
  BY <1>k, <1>1, <1>2, <1>3, <1>4, <1>5, <1>6, <1>7, <1>8, <1>10, <1>11, <1>12, <1>13, <1>14, <1>15,
     <1>16, <1>17 DEF Next, Serve
<1> QED BY <1>18, <1>t DEF IInv

LEMMA SafeAlways == Spec => []IInv
BY SafeInit, SafeStep, PTL DEF Spec

\* ensureSnapshotCheckout takes a snapshot as it is only if it has all its files,
\* or its removal was cut short.
THEOREM CompleteSnapshotsAreWhole == Spec => []CompleteIsWhole
<1>1. IInv => CompleteIsWhole
  BY DEF IInv
<1> QED BY <1>1, SafeAlways, PTL

\* handleBind and GCSnapshots: a run that was bound alone keeps its snapshots.
THEOREM LossesHaveCauses == Spec => []LossNeedsACause
<1>1. IInv => LossNeedsACause
  BY DEF IInv, Safe, LossNeedsACause, Exposed
<1> QED BY <1>1, SafeAlways, PTL
-----------------------------------------------------------------------------
(* What a collection leaves.                                                *)

\* Of n things in some order, those at the first k places are k, or all.
LEMMA FirstPlaces ==
    ASSUME NEW S, IsFiniteSet(S), NEW place \in [S -> 1..Cardinality(S)], NEW k \in Nat,
           \A c, d \in S : c # d => place[c] # place[d]
    PROVE  LET first == {c \in S : place[c] <= k}
           IN  /\ Cardinality(S) <= k => first = S
               /\ Cardinality(S) > k => Cardinality(first) = k
<1> DEFINE n == Cardinality(S)  first == {c \in S : place[c] <= k}
           f == [c \in first |-> place[c]]
<1>1. n \in Nat
  BY FS_CardinalityType
<1>2. IsFiniteSet(1..n) /\ Cardinality(1..n) = n
  BY <1>1, FS_Interval
<1>3. IsFiniteSet(1..k) /\ Cardinality(1..k) = k
  BY FS_Interval
<1>4. place \in Injection(S, 1..n)
  BY DEF Injection, IsInjective
<1>5. place \in Surjection(S, 1..n)
  BY <1>2, <1>4, FS_Injection
<1>6. ASSUME n > k PROVE Cardinality(first) = k
  <2>1. f \in Injection(first, 1..k)
    <3>1. \A c \in first : place[c] \in 1..k
      BY <1>1
    <3> QED BY <3>1 DEF Injection, IsInjective
  <2>2. f \in Surjection(first, 1..k)
    <3> SUFFICES ASSUME NEW m \in 1..k PROVE \E c \in first : f[c] = m
      BY <2>1 DEF Surjection, Injection
    <3>1. m \in 1..n
      BY <1>1, <1>6
    <3> PICK c \in S : place[c] = m
      BY <1>5, <3>1 DEF Surjection
    <3> QED OBVIOUS
  <2> HIDE DEF f, first
  <2> QED BY <1>3, <2>1, <2>2, FS_Injection
<1>7. n <= k => first = S
  BY <1>1
<1> QED BY <1>6, <1>7

\* A request that is removing what does not stay.
Removing(b) == bind[b].pc \in {"files", "index", "marker"}

\* What it has still to remove is unprotected, and without it there are Retain left.
Window(b) == LET r == bind[b].at
             IN  /\ bind[b].doomed \subseteq Loose(b, r)
                 /\ Cardinality(Loose(b, r) \ bind[b].doomed) = Retain

WInv == /\ IInv
        /\ \A r \in Repos : IsFiniteSet(Ready(r))
        /\ \A b \in Binds : Removing(b) => Window(b)

\* What a sorted repository is left with.
LEMMA LeftOver ==
    ASSUME WInv, NEW b \in Binds, NEW r \in Repos, NEW place \in Orders(b, r)
    PROVE  /\ Doomed(place) \subseteq Loose(b, r)
           /\ Doomed(place) = {} => Cardinality(Loose(b, r)) <= Retain
           /\ Doomed(place) # {} => Cardinality(Loose(b, r) \ Doomed(place)) = Retain
<1> DEFINE S == Loose(b, r)  first == {c \in S : place[c] <= Retain}
<1>1. IsFiniteSet(S)
  BY FS_Subset DEF WInv, Loose
<1>2. Cardinality(S) \in Nat /\ Retain \in Nat
  BY <1>1, FS_CardinalityType, SnapshotsAssumption
<1>3. /\ place \in [S -> 1..Cardinality(S)]
      /\ \A c, d \in S : c # d => place[c] # place[d]
  BY DEF Orders
<1> HIDE DEF S
<1>4. /\ Cardinality(S) <= Retain => first = S
      /\ Cardinality(S) > Retain => Cardinality(first) = Retain
  BY <1>1, <1>2, <1>3, FirstPlaces
<1>5. Doomed(place) \subseteq S /\ S \ Doomed(place) = first
  BY <1>2, <1>3 DEF Doomed
<1>6. Doomed(place) = {} => first = S
  BY <1>5
<1> QED BY <1>2, <1>4, <1>5, <1>6 DEF S

\* A removal that goes on in a repository whose markers stay.
LEMMA SameWindow ==
    ASSUME NEW b \in Binds, Window(b), SameWork(b), made'[bind[b].at] = made[bind[b].at]
    PROVE  Window(b)'
BY DEF Window, Loose, Ready, SameWork, SameBinding

\* No two requests remove in one repository.
LEMMA OtherPlace ==
    ASSUME Typed, NEW b \in Binds, NEW d \in Binds \ {b}, bind[b].pc \in Holding, bind[d].pc \in Holding
    PROVE  bind[d].at # bind[b].at
BY DEF Typed, Places

\* The other requests see no difference in what they remove.
LEMMA OtherWindows ==
    ASSUME WInv, NEW b \in Binds, \A d \in Binds \ {b} : bind'[d] = bind[d],
           \/ made' = made
           \/ /\ bind[b].pc \in Holding
              /\ \A r \in Repos : r # bind[b].at => made'[r] = made[r]
    PROVE  \A d \in Binds \ {b} : Removing(d)' => Window(d)'
<1> SUFFICES ASSUME NEW d \in Binds \ {b}, Removing(d)' PROVE Window(d)'
  OBVIOUS
<1>1. Removing(d) /\ bind'[d] = bind[d] /\ bind[d].pc \in Holding /\ Typed
  BY DEF Removing, Holding, WInv, IInv
<1>2. bind[d].at \in Repos
  BY <1>1 DEF Typed, Places
<1>3. made'[bind[d].at] = made[bind[d].at]
  BY <1>1, <1>2, OtherPlace
<1> QED BY <1>1, <1>3, SameWindow DEF WInv, SameWork, SameBinding

\* The last marker of a removal leaves the window, any other the removal's rest.
LEMMA MarkerGone ==
    ASSUME WInv, NEW b \in Binds, RemoveMarker(b), NEW r, r = bind[b].at, NEW c, c = bind[b].commit
    PROVE  LET rest == bind[b].doomed \ {c}
           IN  /\ r \in Repos /\ c \in Commits
               /\ Ready(r)' = Ready(r) \ {c}
               /\ \A q \in Repos \ {r} : made'[q] = made[q]
               /\ rest \subseteq Ready(r)' \ bind[b].keep[r]
               /\ Cardinality((Ready(r)' \ bind[b].keep[r]) \ rest) = Retain
<1> DEFINE rest == bind[b].doomed \ {c}
<1>1. bind[b].pc = "marker" /\ Typed /\ Window(b)
  BY DEF RemoveMarker, At, WInv, IInv, Removing
<1>2. r \in Repos /\ c \in Commits
  BY <1>1 DEF Typed, Places, Commitments, Holding
<1>3. c \in bind[b].doomed
  BY <1>1 DEF WInv, IInv, Spared
<1>4. made' = [made EXCEPT ![r][c] = 0] /\ made \in [Repos -> [Commits -> Nat]]
  BY <1>1 DEF RemoveMarker, Typed, TypeOK
<1>5. made'[r] = [made[r] EXCEPT ![c] = 0] /\ made[r] \in [Commits -> Nat]
  BY <1>2, <1>4
<1>6. Ready(r)' = Ready(r) \ {c}
  BY <1>2, <1>5 DEF Ready
<1>7. \A q \in Repos \ {r} : made'[q] = made[q]
  BY <1>4
<1>8. (Ready(r)' \ bind[b].keep[r]) \ rest = Loose(b, r) \ bind[b].doomed
  BY <1>3, <1>6 DEF Loose
<1>9. rest \subseteq Ready(r)' \ bind[b].keep[r]
  BY <1>1, <1>6 DEF Window, Loose
<1> QED BY <1>1, <1>2, <1>6, <1>7, <1>8, <1>9 DEF Window

\* How a collection and a removal move, with what the order of a repository says.
LEMMA CollectMoves == ASSUME Typed, NEW b \in Binds, Collect(b)
    PROVE \/ Moved(b, "collect")
          \/ \E r \in Repos : /\ Moved(b, "files") /\ SameBinding(b) /\ bind'[b].at = r
                              /\ \E place \in Orders(b, r) : Doomed(place) # {} /\ bind'[b].doomed = Doomed(place)
<1>a. bind \in [Binds -> Request] /\ bind[b] \in Request /\ bind[b].pc = "collect"
  BY DEF Typed, TypeOK, Collect, At
<1> PICK r \in bind[b].todo : \E place \in Orders(b, r) :
       \/ Move(b, [bind[b] EXCEPT !.todo = @ \ {r}])
       \/ Doomed(place) # {} /\ Move(b, [bind[b] EXCEPT !.pc = "files", !.at = r, !.todo = @ \ {r},
                                                        !.doomed = Doomed(place)])
  BY DEF Collect
<1> PICK place \in Orders(b, r) :
       \/ Move(b, [bind[b] EXCEPT !.todo = @ \ {r}])
       \/ Doomed(place) # {} /\ Move(b, [bind[b] EXCEPT !.pc = "files", !.at = r, !.todo = @ \ {r},
                                                        !.doomed = Doomed(place)])
  OBVIOUS
<1>0. r \in Repos
  BY <1>a DEF Request
<1>1. CASE Move(b, [bind[b] EXCEPT !.todo = @ \ {r}])
  BY <1>1, <1>a DEF Move, Moved, Request
<1>2. CASE Doomed(place) # {} /\ Move(b, [bind[b] EXCEPT !.pc = "files", !.at = r, !.todo = @ \ {r},
                                                         !.doomed = Doomed(place)])
  BY <1>0, <1>2, <1>a DEF Move, Moved, SameBinding, Request
<1> QED BY <1>1, <1>2

LEMMA MarkerMoves == ASSUME Typed, NEW b \in Binds, RemoveMarker(b)
    PROVE \/ Moved(b, "collect")
          \/ /\ Moved(b, "files") /\ SameBinding(b) /\ bind'[b].at = bind[b].at
             /\ bind'[b].doomed = bind[b].doomed \ {bind[b].commit}
<1> DEFINE rest == bind[b].doomed \ {bind[b].commit}
<1>a. bind \in [Binds -> Request] /\ bind[b] \in Request
  BY DEF Typed, TypeOK
<1>1. CASE Move(b, [bind[b] EXCEPT !.pc = "collect", !.at = None, !.commit = None, !.doomed = {}])
  BY <1>1, <1>a DEF Move, Moved, Request
<1>2. CASE Move(b, [bind[b] EXCEPT !.pc = "files", !.commit = None, !.doomed = rest])
  BY <1>2, <1>a DEF Move, Moved, SameBinding, Request
<1> QED BY <1>1, <1>2 DEF RemoveMarker

LEMMA WindowStep == WInv /\ IInv' /\ [Next]_vars => WInv'
<1> SUFFICES ASSUME WInv, IInv', [Next]_vars PROVE WInv'
  OBVIOUS
<1> DEFINE Goal == (\A r \in Repos : IsFiniteSet(Ready(r)')) /\ (\A b \in Binds : Removing(b)' => Window(b)')
<1>t. /\ Typed /\ TypeOK
      /\ \A b \in Binds : bind[b] \in Request
  BY DEF WInv, IInv, Typed, TypeOK
<1>s. ASSUME made' = made PROVE \A r \in Repos : IsFiniteSet(Ready(r)')
  BY <1>s DEF WInv, Ready
\* A step of one request that ends outside a removal and leaves the markers alone.
<1>q. ASSUME NEW b \in Binds, NEW pc \in {"refresh", "checkout", "mark", "repos", "failed", "done", "collect"},
             Moved(b, pc), made' = made
      PROVE  Goal
  BY <1>q, <1>s, OtherWindows DEF Moved, Removing
\* One that goes on removing the same.
<1>g. ASSUME NEW b \in Binds, NEW pc, Moved(b, pc), SameWork(b), Removing(b), made' = made
      PROVE  Goal
  <2>1. Window(b)'
    BY <1>g, SameWindow DEF WInv
  <2> QED BY <1>g, <1>s, <2>1, OtherWindows DEF Moved
<1>1. ASSUME NEW b \in Binds, NEW visible \in SUBSET Repos, Open(b, visible) PROVE Goal
  BY <1>1, <1>t, <1>q, Moves DEF Open, store
<1>2. ASSUME NEW b \in Binds, LockRepo(b) PROVE Goal
  BY <1>2, <1>t, <1>q, Moves DEF LockRepo, store
<1>3. ASSUME NEW b \in Binds, Refuse(b) PROVE Goal
  BY <1>3, <1>t, <1>q, Moves DEF Refuse, store
<1>4. ASSUME NEW b \in Binds, Refresh(b) \/ RefreshFails(b) PROVE Goal
  <2>1. Moved(b, "failed") \/ Moved(b, "checkout")
    BY <1>4, <1>t, Moves DEF RefreshFails
  <2>2. made' = made
    BY <1>4 DEF Refresh, RefreshFails, store
  <2> QED BY <2>1, <2>2, <1>q
<1>h. ASSUME NEW b \in Binds, bind[b].pc \in {"checkout", "mark"}
      PROVE  /\ bind[b].pc \in Holding /\ bind[b].at \in Repos /\ bind[b].commit \in Commits
  BY <1>h, <1>t DEF Typed, Places, Commitments, Holding
<1>5. ASSUME NEW b \in Binds, Reuse(b) PROVE Goal
  <2>1. Moved(b, "repos")
    BY <1>5, <1>t, <1>h, Moves DEF Reuse, At
  <2> QED BY <1>5, <2>1, <1>q DEF Reuse, store
<1>6. ASSUME NEW b \in Binds, Checkout(b) PROVE Goal
  BY <1>6, <1>t, <1>q, Moves DEF Checkout
<1>7. ASSUME NEW b \in Binds, CheckoutFails(b) PROVE Goal
  BY <1>7, <1>t, <1>q, Moves DEF CheckoutFails
<1>8. ASSUME NEW b \in Binds, Mark(b) PROVE Goal
  <2> DEFINE r == bind[b].at  c == bind[b].commit
  <2>0. r \in Repos /\ c \in Commits /\ bind[b].pc \in Holding
    BY <1>8, <1>h DEF Mark, At
  <2>1. Moved(b, "repos") \/ Moved(b, "failed")
    <3>1. Pin(b, c) \/ Fail(b)
      BY <1>8 DEF Mark
    <3> QED BY <2>0, <3>1, <1>t, Moves
  <2>2. made' = made \/ made' = [made EXCEPT ![r][c] = clock]
    BY <1>8 DEF Mark
  <2>3. \A q \in Repos : q # r => made'[q] = made[q]
    BY <1>t, <2>0, <2>2 DEF TypeOK
  <2>4. \A q \in Repos : Ready(q)' \in {Ready(q), Ready(q) \cup {c}}
    <3> SUFFICES ASSUME NEW q \in Repos PROVE Ready(q)' \in {Ready(q), Ready(q) \cup {c}}
      OBVIOUS
    <3>1. CASE made'[q] = made[q]
      BY <3>1 DEF Ready
    <3>2. CASE q = r /\ made' = [made EXCEPT ![r][c] = clock]
      <4>1. made[r] \in [Commits -> Nat] /\ clock > 0
        BY <1>t, <2>0 DEF TypeOK
      <4>2. made'[r] = [made[r] EXCEPT ![c] = clock]
        BY <1>t, <2>0, <3>2 DEF TypeOK
      <4> QED BY <2>0, <3>2, <4>1, <4>2 DEF Ready
    <3> QED BY <2>2, <2>3, <3>1, <3>2
  <2>5. \A q \in Repos : IsFiniteSet(Ready(q)')
    <3> SUFFICES ASSUME NEW q \in Repos PROVE IsFiniteSet(Ready(q)')
      OBVIOUS
    <3>1. IsFiniteSet(Ready(q))
      BY DEF WInv
    <3>2. IsFiniteSet(Ready(q) \cup {c})
      BY <3>1, FS_AddElement
    <3> QED BY <2>4, <3>1, <3>2
  <2>6. \A d \in Binds \ {b} : Removing(d)' => Window(d)'
    BY <2>0, <2>1, <2>3, OtherWindows DEF Moved
  <2> QED BY <2>1, <2>5, <2>6 DEF Moved, Removing
<1>9. ASSUME NEW b \in Binds, Register(b) PROVE Goal
  BY <1>9, <1>t, <1>q, Moves DEF Register, store
<1>10. ASSUME NEW b \in Binds, Collect(b) PROVE Goal
  <2>0. made' = made
    BY <1>10 DEF Collect, store
  <2>1. CASE Moved(b, "collect")
    BY <2>0, <2>1, <1>q
  <2>2. CASE \E r \in Repos : /\ Moved(b, "files") /\ SameBinding(b) /\ bind'[b].at = r
                              /\ \E place \in Orders(b, r) : Doomed(place) # {} /\ bind'[b].doomed = Doomed(place)
    <3> PICK r \in Repos : /\ Moved(b, "files") /\ SameBinding(b) /\ bind'[b].at = r
                           /\ \E place \in Orders(b, r) : Doomed(place) # {} /\ bind'[b].doomed = Doomed(place)
      BY <2>2
    <3> PICK place \in Orders(b, r) : Doomed(place) # {} /\ bind'[b].doomed = Doomed(place)
      OBVIOUS
    <3>1. Loose(b, r)' = Loose(b, r)
      BY <2>0 DEF Loose, Ready, SameBinding
    <3>2. /\ Doomed(place) \subseteq Loose(b, r)
          /\ Cardinality(Loose(b, r) \ Doomed(place)) = Retain
      BY LeftOver
    <3>3. Window(b)'
      BY <3>1, <3>2 DEF Window, Loose
    <3> QED BY <2>0, <3>3, <1>s, OtherWindows DEF Moved
  <2>3. bind[b].pc = "collect"
    BY <1>10 DEF Collect, At
  <2> QED BY <1>10, <1>t, <2>1, <2>2, CollectMoves
<1>11. ASSUME NEW b \in Binds, RemoveFiles(b) \/ RemoveIndex(b) PROVE Goal
  <2>1. made' = made /\ Removing(b)
    BY <1>11 DEF RemoveFiles, RemoveIndex, At, Removing
  <2>2. \E pc : Moved(b, pc) /\ SameWork(b)
    BY <1>11, <1>t, Moves
  <2> QED BY <2>1, <2>2, <1>g
<1>12. ASSUME NEW b \in Binds, RemoveMarker(b) PROVE Goal
  <2> PICK r, c : r = bind[b].at /\ c = bind[b].commit
    OBVIOUS
  <2> DEFINE rest == bind[b].doomed \ {c}
  <2>1. /\ r \in Repos /\ Ready(r)' = Ready(r) \ {c}
        /\ \A q \in Repos \ {r} : made'[q] = made[q]
        /\ rest \subseteq Ready(r)' \ bind[b].keep[r]
        /\ Cardinality((Ready(r)' \ bind[b].keep[r]) \ rest) = Retain
    BY <1>12, MarkerGone
  <2>2. \A q \in Repos : IsFiniteSet(Ready(q)')
    <3> SUFFICES ASSUME NEW q \in Repos PROVE IsFiniteSet(Ready(q)')
      OBVIOUS
    <3>1. IsFiniteSet(Ready(q)) /\ IsFiniteSet(Ready(q) \ {c})
      BY FS_RemoveElement DEF WInv
    <3>2. q # r => Ready(q)' = Ready(q)
      BY <2>1 DEF Ready
    <3>3. Ready(q)' = Ready(q) \/ Ready(q)' = Ready(q) \ {c}
      BY <2>1, <3>2
    <3> QED BY <3>1, <3>3
  <2>3. bind[b].pc \in Holding
    BY <1>12 DEF RemoveMarker, At, Holding
  <2>4. CASE Moved(b, "collect")
    BY <2>1, <2>2, <2>3, <2>4, OtherWindows DEF Moved, Removing
  <2>5. CASE Moved(b, "files") /\ SameBinding(b) /\ bind'[b].at = r /\ bind'[b].doomed = rest
    <3>1. Window(b)'
      BY <2>1, <2>5 DEF Window, Loose, SameBinding
    <3> QED BY <2>1, <2>2, <2>3, <2>5, <3>1, OtherWindows DEF Moved
  <2> QED BY <1>12, <1>t, <2>4, <2>5, MarkerMoves
<1>13. ASSUME NEW b \in Binds, RemoveFails(b) \/ Answer(b) PROVE Goal
  <2>1. Moved(b, "done")
    BY <1>13, <1>t, Moves DEF RemoveFails, Answer
  <2> QED BY <1>13, <2>1, <1>q DEF RemoveFails, Answer, store
<1>14. ASSUME Look \/ (\E b \in Binds : HourPasses(b)) \/ (\E r \in Repos, c \in Commits : Push(r, c))
              \/ UNCHANGED vars
       PROVE  Goal
  <2>1. made' = made /\ bind' = bind
    BY <1>14 DEF Look, HourPasses, Push, vars, store
  <2> QED BY <2>1, <1>s DEF WInv, Removing, Window, Loose, Ready
<1>15. ASSUME Restart PROVE Goal
  <2>1. \A d \in Binds : bind'[d].pc \in {"idle", "done", "failed"}
    BY <1>15, <1>t, FailedType DEF Restart, TypeOK, Request
  <2> QED BY <1>15, <2>1, <1>s DEF Restart, Removing
<1>16. Goal
  BY <1>1, <1>2, <1>3, <1>4, <1>5, <1>6, <1>7, <1>8, <1>9, <1>10, <1>11, <1>12, <1>13, <1>14, <1>15
     DEF Next, Serve
<1> QED BY <1>16 DEF WInv

LEMMA WindowAlways == Spec => []WInv
<1>1. Init => WInv
  <2> SUFFICES ASSUME Init PROVE WInv
    OBVIOUS
  <2>1. IInv
    BY SafeInit
  <2>2. \A r \in Repos : Ready(r) = {c \in Commits : Stored[c] > 0}
    BY DEF Init, Ready
  <2>3. \A r \in Repos : IsFiniteSet(Ready(r))
    BY <2>2, SnapshotsAssumption
  <2>4. \A b \in Binds : ~Removing(b)
    BY DEF Init, Idle, Removing
  <2> QED BY <2>1, <2>3, <2>4 DEF WInv
<1>2. WInv /\ [Next]_vars => WInv'
  BY SafeStep, WindowStep DEF WInv
<1> QED BY <1>1, <1>2, PTL DEF Spec

\* gcRepoSnapshots: whatever is bound, marked or collected in between, a
\* collection that ends leaves at most SnapshotRetain markers that it did not
\* protect, and exactly as many if it removed any.
THEOREM Retention == Spec => RetentionWindow
<1> DEFINE LooseAfter(b, r) == Cardinality(Ready(r)' \ bind[b].keep[r])
           Done(b, r) ==
             /\ Collect(b) /\ r \in bind[b].todo \ bind'[b].todo /\ ~At(b, "files")' => LooseAfter(b, r) <= Retain
             /\ RemoveMarker(b) /\ r = bind[b].at /\ At(b, "collect")' => LooseAfter(b, r) = Retain
<1>1. ASSUME WInv, NEW b \in Binds, NEW r \in Repos PROVE Done(b, r)
  <2>t. Typed /\ bind \in [Binds -> Request] /\ bind[b] \in Request
    BY <1>1 DEF WInv, IInv, Typed, TypeOK
  <2>1. ASSUME Collect(b), r \in bind[b].todo \ bind'[b].todo, bind'[b].pc # "files"
        PROVE  LooseAfter(b, r) <= Retain
    <3> PICK q \in bind[b].todo : \E place \in Orders(b, q) :
           IF Doomed(place) = {}
           THEN Move(b, [bind[b] EXCEPT !.todo = @ \ {q}])
           ELSE Move(b, [bind[b] EXCEPT !.pc = "files", !.at = q, !.todo = @ \ {q}, !.doomed = Doomed(place)])
      BY <2>1 DEF Collect
    <3> PICK place \in Orders(b, q) :
           IF Doomed(place) = {}
           THEN Move(b, [bind[b] EXCEPT !.todo = @ \ {q}])
           ELSE Move(b, [bind[b] EXCEPT !.pc = "files", !.at = q, !.todo = @ \ {q}, !.doomed = Doomed(place)])
      OBVIOUS
    <3>1. Doomed(place) = {}
      <4> SUFFICES ASSUME Doomed(place) # {} PROVE bind'[b].pc = "files"
        BY <2>1
      <4> DEFINE rest == bind[b].todo \ {q}  doomed == Doomed(place)
      <4>1. Move(b, [bind[b] EXCEPT !.pc = "files", !.at = q, !.todo = rest, !.doomed = doomed])
        OBVIOUS
      <4> HIDE DEF rest, doomed
      <4> QED BY <4>1, <2>t DEF Move, Request
    <3>2. bind'[b].todo = bind[b].todo \ {q}
      BY <2>t, <3>1 DEF Move, Request
    <3>3. r = q
      BY <2>1, <3>2
    <3>4. Cardinality(Loose(b, r)) <= Retain
      BY <1>1, <3>1, <3>3, LeftOver
    <3>5. Ready(r)' = Ready(r)
      BY <2>1 DEF Collect, store, Ready
    <3> QED BY <3>4, <3>5 DEF Loose
  <2>2. ASSUME RemoveMarker(b), r = bind[b].at, bind'[b].pc = "collect"
        PROVE  LooseAfter(b, r) = Retain
    <3> PICK c : c = bind[b].commit
      OBVIOUS
    <3> DEFINE rest == bind[b].doomed \ {c}
    <3>1. Cardinality((Ready(r)' \ bind[b].keep[r]) \ rest) = Retain
      BY <1>1, <2>2, MarkerGone
    <3>2. rest = {}
      <4> SUFFICES ASSUME rest # {} PROVE bind'[b].pc = "files"
        BY <2>2
      <4>1. Move(b, [bind[b] EXCEPT !.pc = "files", !.commit = None, !.doomed = rest])
        BY <2>2 DEF RemoveMarker
      <4> HIDE DEF rest
      <4> QED BY <4>1, <2>t DEF Move, Request
    <3>3. (Ready(r)' \ bind[b].keep[r]) \ rest = Ready(r)' \ bind[b].keep[r]
      BY <3>2
    <3> QED BY <3>1, <3>3
  <2> QED BY <2>1, <2>2 DEF At
<1>2. WInv => [\A b \in Binds : \A r \in Repos : Done(b, r)]_vars
  BY <1>1
<1>3. Spec => [][\A b \in Binds : \A r \in Repos : Done(b, r)]_vars
  BY <1>2, WindowAlways, PTL
<1> QED BY <1>3 DEF RetentionWindow
=============================================================================
