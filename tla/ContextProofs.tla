--------------------------- MODULE ContextProofs ---------------------------
(***************************************************************************)
(* What truncateText does to a text of any length; which files of a diff   *)
(* selectDiff keeps, and how much of its limit they use, for every diff    *)
(* and every limit; and which gaps of a finished context are not told.     *)
(***************************************************************************)
EXTENDS ContextBudget, SequenceTheorems, FiniteSetTheorems, WellFoundedInduction, TLAPS

\* The sort's order as a set of pairs, once by score and once by index.
ByScore == {p \in Chunk \X Chunk : Better(p[1], p[2])}
ByIndex == {p \in Chunk \X Chunk : Earlier(p[1], p[2])}

\* Positions before i hold what comes first, in order; position i comes before
\* those it has been compared with.
Progress(s, i, j, R) ==
    /\ \A k, l \in 1..Len(s) : k < i /\ k < l => <<s[k], s[l]>> \in R
    /\ \A l \in 1..Len(s) : i < l /\ l < j => <<s[i], s[l]>> \in R

InOrder(s, R) == \A k, l \in 1..Len(s) : k < l => <<s[k], s[l]>> \in R

Distinct(s) == \A k, l \in 1..Len(s) : k # l => s[k].index # s[l].index

Transitive(R) == \A a, b, c \in Chunk : <<a, b>> \in R /\ <<b, c>> \in R => <<a, c>> \in R

Total(s, R) == \A k, l \in 1..Len(s) : k # l => <<s[k], s[l]>> \in R \/ <<s[l], s[k]>> \in R

Loop(s) == at.i \in 1..Len(s) /\ at.j \in (at.i + 1)..(Len(s) + 1) /\ (at.i < Len(s) => at.j <= Len(s))

DiffLimit == opts.limit["diff"]
FullShare == Larger(2400, DiffLimit \div 4) + 2

\* t is what one step of the sort makes of s, and next the loop's next indices.
Stepped(s, t, next, R) ==
    /\ t \in Seq(Chunk) /\ Len(t) = Len(s)
    /\ Progress(t, next.i, next.j, R)
    /\ next \in [i: Nat \ {0}, j: Nat \ {0}]
    /\ next.i \in 1..Len(s) /\ next.j \in (next.i + 1)..(Len(s) + 1)
    /\ next.i < Len(s) => next.j <= Len(s)
    /\ \A k \in 1..Len(s) : \E l \in 1..Len(s) : t[k] = s[l]
    /\ \A k \in 1..Len(s) : \E l \in 1..Len(s) : s[k] = t[l]
    /\ Distinct(s) => Distinct(t)

\* The list holds each chunk of the diff once, as it was scored.
ListIsDiff ==
    /\ Distinct(list)
    /\ \A k \in 1..Len(list) : list[k].index \in DOMAIN diff /\ list[k].score = diff[list[k].index].score
    /\ \A c \in DOMAIN diff : \E k \in 1..Len(list) : list[k].index = c
    /\ Len(list) = Len(diff)

\* What is chosen are the first chunks of the list, in some order.
ChosenIsPrefix ==
    /\ Distinct(chosen)
    /\ Len(chosen) <= Len(list)
    /\ \A k \in 1..Len(chosen) : \E l \in 1..Len(chosen) : chosen[k].index = list[l].index
    /\ \A l \in 1..Len(chosen) : \E k \in 1..Len(chosen) : chosen[k].index = list[l].index

Types ==
    /\ opts \in [include: SUBSET Parts, limit: [Parts -> Nat \ {0}]]
    /\ pc \in Pcs
    /\ diff \in Diffs
    /\ list \in Seq(Chunk) /\ chosen \in Seq(Chunk)
    /\ at \in [i: Nat \ {0}, j: Nat \ {0}]
    /\ used \in Nat

Budget ==
    /\ used <= DiffLimit + 57
    /\ used <= Len(chosen) * FullShare

Untouched == pc \in {"item", "comments", "files", "diff", "unavailable"} =>
    list = <<>> /\ chosen = <<>> /\ used = 0 /\ at = Start /\ diff = <<>>

Ranking == pc = "rank" =>
    list # <<>> /\ chosen = <<>> /\ used = 0 /\ Loop(list) /\ Progress(list, at.i, at.j, ByScore)

Choosing == pc = "choose" =>
    /\ at.i = Len(chosen) + 1 /\ at.i <= Len(list) + 1
    /\ \A k \in 1..Len(chosen) : chosen[k].index = list[k].index

Selected == pc \in {"restore", "render", "done"} /\ Len(chosen) < Len(list) => used >= DiffLimit

Restoring == pc = "restore" => chosen # <<>> /\ Loop(chosen) /\ Progress(chosen, at.i, at.j, ByIndex)

IInv ==
    /\ Types /\ Budget /\ Untouched
    /\ list # <<>> => ListIsDiff
    /\ Ranking
    /\ pc # "rank" => InOrder(list, ByScore)
    /\ pc = "choose" => list # <<>>
    /\ ChosenIsPrefix
    /\ Choosing /\ Selected /\ Restoring
    /\ pc \in {"render", "done"} => InOrder(chosen, ByIndex)
-----------------------------------------------------------------------------
(* A text that is cut *)

\* Head and tail stay within the limit, and so never overlap in the text.
LEMMA PartsWithinLimit == ASSUME NEW max \in Nat
    PROVE /\ HeadSize(max) \in Nat /\ TailSize(max) \in Nat
          /\ HeadSize(max) + TailSize(max) <= max
          /\ max >= 400 => HeadSize(max) + TailSize(max) = max - 120
BY SMT DEF HeadSize, TailSize

LEMMA DigitsBound == ASSUME NEW n \in Nat PROVE Digits(n) \in 1..9
BY DEF Digits

\* A text is cut only if it is longer than its limit; then the number of
\* characters the marker names is positive and is what the text has lost.
THEOREM MarkerIsTrue == ASSUME NEW length \in Nat, NEW max \in Nat, ~Fits(length, max)
    PROVE /\ Omitted(length, max) \in Nat \ {0}
          /\ HeadSize(max) + Omitted(length, max) + TailSize(max) = length
BY PartsWithinLimit DEF Fits, Omitted

\* Of a text shorter than 10^9 bytes: with a limit of 400 or more the result is
\* within the limit, for labels up to 74 bytes; with a smaller one it is longer by
\* less than the marker.
THEOREM CutBound == ASSUME NEW length \in Nat, NEW max \in Nat \ {0}, NEW label \in Nat
    PROVE /\ CutLength(length, max, label) \in Nat
          /\ CutLength(length, max, label) <= max + 46 + label
          /\ max >= 400 /\ label <= 74 => CutLength(length, max, label) <= max
<1>1. CASE Fits(length, max)
  BY <1>1 DEF Fits, CutLength
<1>2. CASE ~Fits(length, max)
  <2>1. Omitted(length, max) \in Nat
    BY <1>2, MarkerIsTrue
  <2>2. Digits(Omitted(length, max)) \in 1..9
    BY <2>1, DigitsBound
  <2> DEFINE d == Digits(Omitted(length, max))
  <2>3. CutLength(length, max, label) = HeadSize(max) + (37 + label + d) + TailSize(max)
    BY <1>2 DEF CutLength, MarkerLength
  <2> HIDE DEF d
  <2>4. d \in 1..9
    BY <2>2 DEF d
  <2> QED BY <2>3, <2>4, PartsWithinLimit
<1> QED BY <1>1, <1>2
-----------------------------------------------------------------------------
(* Sums *)

\* What SumFunctionOnSet does with the sums of the smaller sets, and its table
\* of the sums of all subsets of I.
Element(s) == CHOOSE x \in s : TRUE
Step(fun, g, s) == IF s = {} THEN 0 ELSE fun[Element(s)] + g[s \ {Element(s)}]
Table(fun, I) == CHOOSE g : g = [s \in SUBSET I |-> Step(fun, g, s)]

LEMMA SumIsTable == ASSUME NEW fun, NEW I PROVE SumFunctionOnSet(fun, I) = Table(fun, I)[I]
BY DEF SumFunctionOnSet, FoldFunctionOnSet, MapThenFoldSet, Table, Step, Element

\* Induction, for a set of numbers.
LEMMA SetInduction == ASSUME NEW T, 0 \in T, \A n \in Nat : n \in T => n + 1 \in T PROVE Nat \subseteq T
<1> DEFINE R == {ss \in Nat \X Nat : ss[1] < ss[2]}
           Rest == Nat \ T
<1>1. SUFFICES ASSUME Rest # {} PROVE FALSE
  OBVIOUS
<1>2. IsWellFoundedOn(R, Nat)
  BY NatLessThanWellFounded DEF OpToRel
<1> HIDE DEF R
<1>3. PICK n \in Rest : \A m \in Rest : <<m, n>> \notin R
  BY <1>1, <1>2, WFMin
<1>4. n \in Nat /\ n # 0
  BY <1>3
<1>5. n - 1 \in Nat /\ n - 1 < n
  BY <1>4
<1>6. n - 1 \notin Rest
  BY <1>3, <1>4, <1>5 DEF R
<1>7. n - 1 \in T /\ (n - 1) + 1 = n
  BY <1>5, <1>6
<1> QED BY <1>3, <1>5, <1>7

\* The smaller set of a sum.
Less(s) == s \ {Element(s)}

LEMMA LessIsSmaller == ASSUME NEW I, IsFiniteSet(I), NEW s \in SUBSET I
    PROVE /\ IsFiniteSet(s) /\ Cardinality(s) \in Nat /\ Cardinality(s) <= Cardinality(I)
          /\ Cardinality(s) = 0 => s = {}
          /\ s # {} => /\ Element(s) \in s /\ Element(s) \in I /\ Less(s) \in SUBSET I
                      /\ Cardinality(Less(s)) + 1 = Cardinality(s)
<1>1. IsFiniteSet(s) /\ Cardinality(s) \in Nat /\ Cardinality(s) <= Cardinality(I)
  BY FS_Subset, FS_CardinalityType
<1>2. Cardinality(s) = 0 => s = {}
  BY <1>1, FS_EmptySet
<1>3. ASSUME s # {}
      PROVE Element(s) \in s /\ Element(s) \in I /\ Less(s) \in SUBSET I /\ Cardinality(Less(s)) + 1 = Cardinality(s)
  <2>1. Element(s) \in s
    BY <1>3 DEF Element
  <2>2. Cardinality(Less(s)) = Cardinality(s) - 1
    BY <1>1, <2>1, FS_RemoveElement DEF Less
  <2> QED BY <1>1, <2>1, <2>2 DEF Less
<1> QED BY <1>1, <1>2, <1>3

\* A table of sums of I exists, so that Table is one.
LEMMA TableExists ==
    ASSUME NEW fun, NEW I, IsFiniteSet(I), \A k \in I : fun[k] \in Nat
    PROVE  /\ Table(fun, I) \in [SUBSET I -> Nat]
           /\ \A s \in SUBSET I : Table(fun, I)[s] = Step(fun, Table(fun, I), s)
<1> DEFINE Good(n, g) == \A s \in SUBSET I : Cardinality(s) <= n => g[s] = Step(fun, g, s)
           T == {n \in Nat : \E g \in [SUBSET I -> Nat] : Good(n, g)}
<1>f. /\ \A s \in SUBSET I : /\ Cardinality(s) \in Nat /\ Cardinality(s) <= Cardinality(I)
                             /\ Cardinality(s) = 0 => s = {}
      /\ Cardinality(I) \in Nat
  BY LessIsSmaller, FS_CardinalityType
<1>g. \A s \in (SUBSET I) \ {{}} : Element(s) \in I /\ Less(s) \in SUBSET I /\ Cardinality(Less(s)) + 1 = Cardinality(s)
  BY LessIsSmaller
<1>1. 0 \in T
  <2> DEFINE g == [s \in SUBSET I |-> 0]
  <2>1. ASSUME NEW s \in SUBSET I, Cardinality(s) <= 0 PROVE g[s] = Step(fun, g, s)
    <3>1. s = {}
      BY <1>f, <2>1
    <3> QED BY <3>1 DEF Step
  <2>2. g \in [SUBSET I -> Nat]
    OBVIOUS
  <2> QED BY <2>1, <2>2
<1>2. ASSUME NEW n \in Nat, n \in T PROVE n + 1 \in T
  <2>1. PICK g \in [SUBSET I -> Nat] : Good(n, g)
    BY <1>2
  <2> DEFINE h == [s \in SUBSET I |-> IF Cardinality(s) <= n THEN g[s] ELSE Step(fun, g, s)]
  <2>3. ASSUME NEW s \in SUBSET I PROVE Step(fun, g, s) \in Nat
    <3>1. CASE s = {}
      BY <3>1 DEF Step
    <3>2. CASE s # {}
      <4>1. fun[Element(s)] \in Nat /\ g[Less(s)] \in Nat
        BY <1>g, <3>2
      <4> QED BY <3>2, <4>1 DEF Step, Less
    <3> QED BY <3>1, <3>2
  <2>4. h \in [SUBSET I -> Nat]
    BY <2>1, <2>3
  <2>5. ASSUME NEW s \in SUBSET I, Cardinality(s) <= n + 1 PROVE h[s] = Step(fun, h, s)
    <3>1. h[s] = Step(fun, g, s)
      BY <2>1
    <3>2. CASE s = {}
      BY <3>1, <3>2 DEF Step
    <3>3. CASE s # {}
      <4>1. Less(s) \in SUBSET I /\ Cardinality(Less(s)) <= n
        BY <1>f, <1>g, <2>5, <3>3
      <4>2. h[Less(s)] = g[Less(s)]
        BY <4>1
      <4> QED BY <3>1, <3>3, <4>2 DEF Step, Less
    <3> QED BY <3>2, <3>3
  <2>6. Good(n + 1, h)
    BY <2>5
  <2> HIDE DEF Good, h
  <2> QED BY <2>4, <2>6
<1> HIDE DEF T
<1>3. Cardinality(I) \in T
  BY <1>1, <1>2, <1>f, SetInduction
<1>4. PICK g \in [SUBSET I -> Nat] : Good(Cardinality(I), g)
  BY <1>3 DEF T
<1>5. g = [s \in SUBSET I |-> Step(fun, g, s)]
  BY <1>4, <1>f
<1> DEFINE t == Table(fun, I)
<1>6. t = [s \in SUBSET I |-> Step(fun, t, s)]
  BY <1>5 DEF Table
<1> HIDE DEF t
<1>7. \A s \in SUBSET I : t[s] = Step(fun, t, s)
  BY <1>6
<1>e. ASSUME NEW s \in SUBSET I, s = {} PROVE t[s] \in Nat
  <2>1. t[{}] = Step(fun, t, {})
    BY <1>7
  <2>2. Step(fun, t, {}) = 0
    BY DEF Step
  <2> QED BY <1>e, <2>1, <2>2
<1> DEFINE U == {n \in Nat : \A s \in SUBSET I : Cardinality(s) <= n => t[s] \in Nat}
<1>8. 0 \in U
  BY <1>e, <1>f
<1>9. ASSUME NEW n \in Nat, n \in U PROVE n + 1 \in U
  <2> SUFFICES ASSUME NEW s \in SUBSET I, Cardinality(s) <= n + 1, s # {} PROVE t[s] \in Nat
    BY <1>e
  <2>1. Less(s) \in SUBSET I /\ Cardinality(Less(s)) <= n /\ fun[Element(s)] \in Nat
    BY <1>f, <1>g
  <2>2. t[Less(s)] \in Nat
    BY <1>9, <2>1
  <2>3. t[s] = fun[Element(s)] + t[Less(s)]
    BY <1>7 DEF Step, Less
  <2> QED BY <2>1, <2>2, <2>3
<1> HIDE DEF U
<1>10. Cardinality(I) \in U
  BY <1>8, <1>9, <1>f, SetInduction
<1>11. \A s \in SUBSET I : t[s] \in Nat
  BY <1>10, <1>f DEF U
<1>12. t \in [SUBSET I -> Nat]
  BY <1>6, <1>11
<1> QED BY <1>7, <1>12 DEF t

\* Tables of functions that agree, agree.
LEMMA TablesAgree ==
    ASSUME NEW f, NEW I, IsFiniteSet(I), \A k \in I : f[k] \in Nat,
           NEW g, NEW J \in SUBSET I, \A k \in J : g[k] = f[k]
    PROVE  \A s \in SUBSET J : Table(g, J)[s] = Table(f, I)[s]
<1> DEFINE t == Table(f, I)
           u == Table(g, J)
<1>1. IsFiniteSet(J) /\ Cardinality(J) \in Nat /\ \A k \in J : g[k] \in Nat
  BY FS_Subset, FS_CardinalityType
<1>2. /\ \A s \in SUBSET I : t[s] = Step(f, t, s)
      /\ \A s \in SUBSET J : u[s] = Step(g, u, s)
  BY <1>1, TableExists
<1>3. /\ \A s \in SUBSET J : /\ Cardinality(s) \in Nat /\ Cardinality(s) <= Cardinality(J)
                             /\ Cardinality(s) = 0 => s = {}
      /\ \A s \in (SUBSET J) \ {{}} : Element(s) \in J /\ Less(s) \in SUBSET J /\ Cardinality(Less(s)) + 1 = Cardinality(s)
  BY <1>1, LessIsSmaller
<1> HIDE DEF t, u
<1> DEFINE U == {n \in Nat : \A s \in SUBSET J : Cardinality(s) <= n => u[s] = t[s]}
<1>4. ASSUME NEW s \in SUBSET J, s = {} PROVE u[s] = t[s]
  BY <1>2, <1>4 DEF Step
<1>5. 0 \in U
  BY <1>3, <1>4
<1>6. ASSUME NEW n \in Nat, n \in U PROVE n + 1 \in U
  <2> SUFFICES ASSUME NEW s \in SUBSET J, Cardinality(s) <= n + 1, s # {} PROVE u[s] = t[s]
    BY <1>4
  <2>1. Less(s) \in SUBSET J /\ Cardinality(Less(s)) <= n /\ g[Element(s)] = f[Element(s)]
    BY <1>3
  <2>2. u[Less(s)] = t[Less(s)]
    BY <1>6, <2>1
  <2>3. t[s] = f[Element(s)] + t[Less(s)] /\ u[s] = g[Element(s)] + u[Less(s)]
    BY <1>2 DEF Step, Less
  <2> QED BY <2>1, <2>2, <2>3
<1> HIDE DEF U
<1>7. Cardinality(J) \in U
  BY <1>1, <1>5, <1>6, SetInduction
<1> QED BY <1>3, <1>7 DEF U, t, u

\* A sum does not depend on the order in which its terms are added.
LEMMA TableTakesAny ==
    ASSUME NEW f, NEW I, IsFiniteSet(I), \A k \in I : f[k] \in Nat
    PROVE  \A s \in SUBSET I : \A k \in s : Table(f, I)[s] = f[k] + Table(f, I)[s \ {k}]
<1> DEFINE t == Table(f, I)
<1>1. Cardinality(I) \in Nat
  BY FS_CardinalityType
<1>2. t \in [SUBSET I -> Nat] /\ \A s \in SUBSET I : t[s] = Step(f, t, s)
  BY TableExists
<1>3. /\ \A s \in SUBSET I : /\ Cardinality(s) \in Nat /\ Cardinality(s) <= Cardinality(I)
                             /\ Cardinality(s) = 0 => s = {}
      /\ \A s \in (SUBSET I) \ {{}} : Element(s) \in I /\ Element(s) \in s /\ Less(s) \in SUBSET I /\ Cardinality(Less(s)) + 1 = Cardinality(s)
  BY LessIsSmaller
<1> HIDE DEF t
<1> DEFINE U == {n \in Nat : \A s \in SUBSET I : Cardinality(s) <= n => \A k \in s : t[s] = f[k] + t[s \ {k}]}
<1>4. 0 \in U
  BY <1>3
<1>5. ASSUME NEW n \in Nat, n \in U PROVE n + 1 \in U
  <2> SUFFICES ASSUME NEW s \in SUBSET I, Cardinality(s) <= n + 1, NEW k \in s PROVE t[s] = f[k] + t[s \ {k}]
    OBVIOUS
  <2> DEFINE e == Element(s)
  <2>1. e \in s /\ Less(s) = s \ {e} /\ Cardinality(s \ {e}) <= n /\ t[s] = f[e] + t[s \ {e}]
    BY <1>2, <1>3 DEF Step, Less
  <2> HIDE DEF e
  <2>2. CASE k = e
    BY <2>1, <2>2
  <2>3. CASE k # e
    <3>1. t[s \ {e}] = f[k] + t[(s \ {e}) \ {k}]
      BY <1>5, <2>1, <2>3
    <3>2. Cardinality(s \ {k}) <= n
      <4>1. IsFiniteSet(s)
        BY FS_Subset
      <4>2. Cardinality(s \ {k}) = Cardinality(s) - 1
        BY <4>1, FS_RemoveElement
      <4> QED BY <1>3, <4>2
    <3>3. t[s \ {k}] = f[e] + t[(s \ {k}) \ {e}]
      BY <1>5, <2>1, <2>3, <3>2
    <3> DEFINE rest == t[(s \ {k}) \ {e}]
    <3>4. t[s] = f[e] + (f[k] + rest) /\ t[s \ {k}] = f[e] + rest
      <4>1. (s \ {e}) \ {k} = (s \ {k}) \ {e}
        OBVIOUS
      <4> QED BY <2>1, <3>1, <3>3, <4>1
    <3>5. f[k] \in Nat /\ f[e] \in Nat /\ rest \in Nat
      BY <1>2, <2>1
    <3> HIDE DEF rest
    <3> QED BY <3>4, <3>5
  <2> QED BY <2>2, <2>3
<1> HIDE DEF U
<1>6. Cardinality(I) \in U
  BY <1>1, <1>4, <1>5, SetInduction
<1> QED BY <1>3, <1>6 DEF U, t

\* The sum of a function over a finite set: of nothing it is 0, and any term can
\* be taken out; functions that agree have the same sum.
LEMMA Sums ==
    ASSUME NEW f, NEW I, IsFiniteSet(I), \A k \in I : f[k] \in Nat
    PROVE  /\ SumFunctionOnSet(f, I) \in Nat
           /\ SumFunctionOnSet(f, {}) = 0
           /\ \A k \in I : SumFunctionOnSet(f, I) = f[k] + SumFunctionOnSet(f, I \ {k})
           /\ \A g : (\A k \in I : g[k] = f[k]) => SumFunctionOnSet(g, I) = SumFunctionOnSet(f, I)
<1> DEFINE t == Table(f, I)
<1>1. \A J \in SUBSET I : SumFunctionOnSet(f, J) = t[J]
  <2> SUFFICES ASSUME NEW J \in SUBSET I PROVE SumFunctionOnSet(f, J) = t[J]
    OBVIOUS
  <2>1. Table(f, J)[J] = t[J]
    BY TablesAgree
  <2> QED BY <2>1, SumIsTable
<1>2. t \in [SUBSET I -> Nat] /\ t[{}] = 0
  <2>1. t[{}] = Step(f, t, {})
    BY TableExists
  <2> QED BY <2>1, TableExists DEF Step
<1>3. \A k \in I : t[I] = f[k] + t[I \ {k}]
  BY TableTakesAny
<1>4. ASSUME NEW g, \A k \in I : g[k] = f[k] PROVE SumFunctionOnSet(g, I) = t[I]
  <2>1. Table(g, I)[I] = t[I]
    BY <1>4, TablesAgree
  <2> QED BY <2>1, SumIsTable
<1> HIDE DEF t
<1> QED BY <1>1, <1>2, <1>3, <1>4

\* Exchanging two elements of a sequence.
LEMMA ExchangedSeq == ASSUME NEW S, NEW s \in Seq(S), NEW i \in 1..Len(s), NEW j \in 1..Len(s)
    PROVE /\ Exchanged(s, i, j) \in Seq(S)
          /\ Len(Exchanged(s, i, j)) = Len(s)
          /\ \A k \in 1..Len(s) : Exchanged(s, i, j)[k] = IF k = j THEN s[i] ELSE IF k = i THEN s[j] ELSE s[k]
<1> DEFINE t == [s EXCEPT ![i] = s[j]]
<1>1. s[i] \in S /\ s[j] \in S
  BY ElementOfSeq
<1>2. t \in Seq(S) /\ Len(t) = Len(s) /\ \A k \in 1..Len(s) : t[k] = IF k = i THEN s[j] ELSE s[k]
  BY <1>1, ExceptSeq
<1> HIDE DEF t
<1>3. Exchanged(s, i, j) = [t EXCEPT ![j] = s[i]]
  BY DEF Exchanged, t
<1> QED BY <1>1, <1>2, <1>3, ExceptSeq

\* The first places are finitely many.
LEMMA FirstAreFinite == ASSUME NEW n \in Nat PROVE IsFiniteSet(1..n)
<1>1. 1 \in Int /\ n \in Int
  OBVIOUS
<1> QED BY <1>1, FS_Interval

\* The bytes of some chunks together.
SizeOf(s) == SumFunction([k \in DOMAIN s |-> s[k].length])

LEMMA SizeType == ASSUME NEW n \in Nat, NEW s, DOMAIN s = 1..n, \A k \in 1..n : s[k].length \in Nat
    PROVE /\ SizeOf(s) \in Nat
          /\ n = 0 => SizeOf(s) = 0
          /\ \A k \in 1..n : SizeOf(s) >= s[k].length
<1> DEFINE f == [k \in 1..n |-> s[k].length]
<1>0. IsFiniteSet(1..n)
  BY FirstAreFinite
<1>1. IsFiniteSet(1..n) /\ \A k \in 1..n : f[k] \in Nat
  BY <1>0
<1>2. SizeOf(s) = SumFunctionOnSet(f, 1..n)
  BY DEF SizeOf, SumFunction
<1> HIDE DEF f
<1>3. SumFunctionOnSet(f, 1..n) \in Nat /\ SumFunctionOnSet(f, {}) = 0
  BY <1>1, Sums
<1>4. n = 0 => 1..n = {}
  OBVIOUS
<1>5. ASSUME NEW k \in 1..n PROVE SumFunctionOnSet(f, 1..n) >= f[k]
  <2>1. SumFunctionOnSet(f, 1..n) = f[k] + SumFunctionOnSet(f, (1..n) \ {k})
    BY <1>1, Sums
  <2>2. IsFiniteSet((1..n) \ {k})
    BY <1>1, FS_Subset
  <2>3. SumFunctionOnSet(f, (1..n) \ {k}) \in Nat
    BY <1>1, <2>2, Sums
  <2> QED BY <1>1, <2>1, <2>3
<1> QED BY <1>2, <1>3, <1>4, <1>5 DEF f

\* A chunk that is appended adds its bytes.
LEMMA SizeAppend == ASSUME NEW s \in Seq(Chunk), NEW c \in Chunk
    PROVE SizeOf(Append(s, c)) = SizeOf(s) + c.length /\ SizeOf(s) \in Nat
<1> DEFINE n == Len(s)
           t == Append(s, c)
           f == [k \in 1..n |-> s[k].length]
           g == [k \in 1..(n + 1) |-> t[k].length]
<1>1. n \in Nat /\ DOMAIN s = 1..n /\ \A k \in 1..n : s[k] \in Chunk
  BY LenProperties, ElementOfSeq
<1>2. t \in Seq(Chunk) /\ Len(t) = n + 1 /\ t[n + 1] = c /\ \A k \in 1..n : t[k] = s[k]
  BY AppendProperties
<1>3. DOMAIN t = 1..(n + 1) /\ \A k \in 1..(n + 1) : t[k] \in Chunk
  BY <1>1, <1>2, LenProperties, ElementOfSeq
<1> HIDE DEF n, t
<1>4. SizeOf(s) = SumFunctionOnSet(f, 1..n) /\ SizeOf(t) = SumFunctionOnSet(g, 1..(n + 1))
  BY <1>1, <1>3 DEF SizeOf, SumFunction
<1>5. /\ \A k \in 1..n : f[k] \in Nat /\ g[k] = f[k]
      /\ \A k \in 1..(n + 1) : g[k] \in Nat
      /\ g[n + 1] = c.length /\ c.length \in Nat
  BY <1>1, <1>2, <1>3 DEF Chunk
<1> HIDE DEF f, g
<1>f. IsFiniteSet(1..n) /\ IsFiniteSet(1..(n + 1))
  <2>1. n + 1 \in Nat
    BY <1>1
  <2> QED BY <1>1, <2>1, FirstAreFinite
<1>6. SumFunctionOnSet(g, 1..(n + 1)) = g[n + 1] + SumFunctionOnSet(g, (1..(n + 1)) \ {n + 1})
  <2>1. n + 1 \in 1..(n + 1)
    BY <1>1
  <2> QED BY <1>5, <1>f, <2>1, Sums
<1>7. (1..(n + 1)) \ {n + 1} = 1..n
  BY <1>1
<1>8. SumFunctionOnSet(g, 1..n) = SumFunctionOnSet(f, 1..n) /\ SumFunctionOnSet(f, 1..n) \in Nat
  BY <1>5, <1>f, Sums
<1>9. SizeOf(s) \in Nat
  BY <1>4, <1>8
<1>10. SizeOf(t) = c.length + SizeOf(s)
  BY <1>4, <1>5, <1>6, <1>7, <1>8
<1>11. SizeOf(t) = SizeOf(s) + c.length
  BY <1>5, <1>9, <1>10
<1> QED BY <1>9, <1>11 DEF t

\* Chunks in another order have as many bytes.
LEMMA SizeExchanged ==
    ASSUME NEW s \in Seq(Chunk), NEW i \in 1..Len(s), NEW j \in 1..Len(s), i # j
    PROVE SizeOf(Exchanged(s, i, j)) = SizeOf(s)
<1> DEFINE n == Len(s)
           t == Exchanged(s, i, j)
           f == [k \in 1..n |-> s[k].length]
           g == [k \in 1..n |-> t[k].length]
           rest == ((1..n) \ {i}) \ {j}
<1>1. n \in Nat /\ DOMAIN s = 1..n /\ \A k \in 1..n : s[k] \in Chunk
  BY LenProperties, ElementOfSeq
<1>2. /\ t \in Seq(Chunk) /\ Len(t) = n
      /\ \A k \in 1..n : t[k] = IF k = j THEN s[i] ELSE IF k = i THEN s[j] ELSE s[k]
  BY ExchangedSeq
<1>3. DOMAIN t = 1..n
  BY <1>2, LenProperties
<1>a. i \in 1..n /\ j \in 1..n
  OBVIOUS
<1> HIDE DEF n, t
<1>4. SizeOf(s) = SumFunctionOnSet(f, 1..n) /\ SizeOf(t) = SumFunctionOnSet(g, 1..n)
  BY <1>1, <1>3 DEF SizeOf, SumFunction
<1>5. /\ \A k \in 1..n : f[k] \in Nat /\ g[k] \in Nat
      /\ \A k \in rest : g[k] = f[k]
      /\ g[i] = f[j] /\ g[j] = f[i]
  BY <1>1, <1>2, <1>a DEF Chunk
<1> HIDE DEF f, g
<1>6. IsFiniteSet(1..n) /\ IsFiniteSet((1..n) \ {i}) /\ IsFiniteSet(rest)
  <2>1. IsFiniteSet(1..n)
    BY <1>1, FirstAreFinite
  <2> QED BY <2>1, FS_Subset
<1>7. ASSUME NEW h, \A k \in 1..n : h[k] \in Nat
      PROVE  /\ SumFunctionOnSet(h, 1..n) = h[i] + (h[j] + SumFunctionOnSet(h, rest))
             /\ SumFunctionOnSet(h, rest) \in Nat
  <2>1. SumFunctionOnSet(h, 1..n) = h[i] + SumFunctionOnSet(h, (1..n) \ {i})
    BY <1>6, <1>7, <1>a, Sums
  <2>2. SumFunctionOnSet(h, (1..n) \ {i}) = h[j] + SumFunctionOnSet(h, rest)
    BY <1>6, <1>7, <1>a, Sums
  <2>3. SumFunctionOnSet(h, rest) \in Nat
    BY <1>6, <1>7, Sums
  <2> QED BY <2>1, <2>2, <2>3
<1>8. SumFunctionOnSet(g, rest) = SumFunctionOnSet(f, rest)
  <2>1. \A k \in rest : f[k] \in Nat /\ g[k] = f[k]
    BY <1>5
  <2> QED BY <1>6, <2>1, Sums
<1>9. SumFunctionOnSet(f, 1..n) = SumFunctionOnSet(g, 1..n)
  <2>1. /\ SumFunctionOnSet(f, 1..n) = f[i] + (f[j] + SumFunctionOnSet(f, rest))
        /\ SumFunctionOnSet(g, 1..n) = f[j] + (f[i] + SumFunctionOnSet(f, rest))
        /\ SumFunctionOnSet(f, rest) \in Nat /\ f[i] \in Nat /\ f[j] \in Nat
    BY <1>5, <1>7, <1>8, <1>a
  <2> QED BY <2>1
<1> QED BY <1>4, <1>9 DEF t
-----------------------------------------------------------------------------
(* Lemmas about the selection *)

\* A quotient that is rounded up.
LEMMA RoundedUp == ASSUME NEW x \in Nat, NEW S \in Nat \ {0}, NEW m \in Nat, x <= m * S
    PROVE (x + S - 1) \div S <= m
<1> DEFINE q == (x + S - 1) \div S
<1>1. q \in Int /\ S * q <= x + S - 1
  BY SMT
<1> HIDE DEF q
<1>2. SUFFICES ASSUME q >= m + 1 PROVE FALSE
  BY <1>1 DEF q
<1>3. S * q >= S * (m + 1)
  BY <1>1, <1>2, SMT
<1>4. S * (m + 1) = m * S + S
  BY SMT
<1> QED BY <1>1, <1>3, <1>4, SMT

LEMMA OneMore == ASSUME NEW S \in Nat, NEW m \in Nat PROVE (m + 1) * S = m * S + S /\ m * S \in Nat
BY SMT

\* One comparison of the exchange sort, for any order R of the elements.
LEMMA Comparison ==
    ASSUME NEW S, NEW R, NEW s \in Seq(S), NEW i \in 1..Len(s), NEW j \in (i + 1)..Len(s),
           \A a, b, c \in S : <<a, b>> \in R /\ <<b, c>> \in R => <<a, c>> \in R,
           \A k, l \in 1..Len(s) : k # l => <<s[k], s[l]>> \in R \/ <<s[l], s[k]>> \in R,
           Progress(s, i, j, R),
           NEW t, t = IF <<s[j], s[i]>> \in R THEN Exchanged(s, i, j) ELSE s
    PROVE  Progress(t, i, j + 1, R)
<1>0. i \in Nat /\ j \in Nat /\ i < j /\ j \in 1..Len(s) /\ Len(s) \in Nat
  BY LenProperties
<1>1. CASE <<s[j], s[i]>> \notin R
  <2>1. t = s /\ <<s[i], s[j]>> \in R
    BY <1>0, <1>1
  <2>2. ASSUME NEW l \in 1..Len(s), i < l, l < j + 1 PROVE <<s[i], s[l]>> \in R
    <3>1. l = j \/ l < j
      BY <1>0, <2>2
    <3> QED BY <2>1, <2>2, <3>1 DEF Progress
  <2> QED BY <2>1, <2>2 DEF Progress
<1>2. CASE <<s[j], s[i]>> \in R
  <2>1. Len(t) = Len(s) /\ \A k \in 1..Len(s) : t[k] = IF k = j THEN s[i] ELSE IF k = i THEN s[j] ELSE s[k]
    <3>1. t = Exchanged(s, i, j)
      BY <1>2
    <3>2. /\ Len(Exchanged(s, i, j)) = Len(s)
          /\ \A k \in 1..Len(s) : Exchanged(s, i, j)[k] = IF k = j THEN s[i] ELSE IF k = i THEN s[j] ELSE s[k]
      BY <1>0, ExchangedSeq
    <3> QED BY <3>1, <3>2
  <2>2. \A k \in 1..Len(s) : s[k] \in S
    BY ElementOfSeq
  <2>3. ASSUME NEW k \in 1..Len(s), NEW l \in 1..Len(s), k < i, k < l PROVE <<t[k], t[l]>> \in R
    <3>1. t[k] = s[k]
      BY <1>0, <2>1, <2>3
    <3>2. \A m \in 1..Len(s) : k < m => <<s[k], s[m]>> \in R
      BY <2>3 DEF Progress
    <3>3. k < j /\ k < i
      BY <1>0, <2>3
    <3> QED BY <1>0, <2>1, <2>3, <3>1, <3>2, <3>3
  <2>4. ASSUME NEW l \in 1..Len(s), i < l, l < j + 1 PROVE <<t[i], t[l]>> \in R
    <3>1. t[i] = s[j]
      BY <1>0, <2>1
    <3>2. CASE l = j
      BY <1>0, <1>2, <2>1, <3>1, <3>2
    <3>3. CASE l < j
      <4>1. t[l] = s[l] /\ <<s[i], s[l]>> \in R
        BY <1>0, <2>1, <2>4, <3>3 DEF Progress
      <4> QED BY <1>0, <1>2, <2>2, <3>1, <4>1
    <3> QED BY <1>0, <2>4, <3>2, <3>3
  <2> QED BY <2>1, <2>3, <2>4 DEF Progress
<1> QED BY <1>1, <1>2

\* One step of either sort: comparing the pair at the loop's indices, and going
\* on to the next pair, keeps the elements and extends the progress.
LEMMA SortStep ==
    ASSUME NEW R, NEW s \in Seq(Chunk), at \in [i: Nat \ {0}, j: Nat \ {0}], Loop(s), ~Sorted(s),
           Transitive(R), Total(s, R),
           Progress(s, at.i, at.j, R),
           NEW t, t = IF <<s[at.j], s[at.i]>> \in R THEN Exchanged(s, at.i, at.j) ELSE s,
           NEW next, next = Following(Len(s))
    PROVE  Stepped(s, t, next, R)
<1> DEFINE i == at.i
           j == at.j
<1>0. Len(s) \in Nat
  BY LenProperties
<1>1. i \in 1..Len(s) /\ i < Len(s) /\ j \in (i + 1)..Len(s) /\ j \in 1..Len(s) /\ i \in Nat /\ j \in Nat
  BY <1>0 DEF Loop, Sorted
<1> HIDE DEF i, j
<1>2. Progress(t, i, j + 1, R)
  <2>1. Progress(s, i, j, R) /\ t = IF <<s[j], s[i]>> \in R THEN Exchanged(s, i, j) ELSE s
    BY DEF i, j
  <2>2. /\ \A a, b, c \in Chunk : <<a, b>> \in R /\ <<b, c>> \in R => <<a, c>> \in R
        /\ \A k, l \in 1..Len(s) : k # l => <<s[k], s[l]>> \in R \/ <<s[l], s[k]>> \in R
    BY DEF Transitive, Total
  <2> QED BY <1>1, <2>1, <2>2, Comparison
<1>3. /\ t \in Seq(Chunk) /\ Len(t) = Len(s)
      /\ \/ t = s
         \/ \A k \in 1..Len(s) : t[k] = IF k = j THEN s[i] ELSE IF k = i THEN s[j] ELSE s[k]
  <2>1. t = s \/ t = Exchanged(s, i, j)
    BY DEF i, j
  <2>2. /\ Exchanged(s, i, j) \in Seq(Chunk) /\ Len(Exchanged(s, i, j)) = Len(s)
        /\ \A k \in 1..Len(s) : Exchanged(s, i, j)[k] = IF k = j THEN s[i] ELSE IF k = i THEN s[j] ELSE s[k]
    BY <1>1, ExchangedSeq
  <2> QED BY <2>1, <2>2
<1>4. next = IF j < Len(s) THEN [i |-> i, j |-> j + 1] ELSE [i |-> i + 1, j |-> i + 2]
  BY DEF Following, i, j
<1>5. /\ next \in [i: Nat \ {0}, j: Nat \ {0}]
      /\ next.i \in 1..Len(s) /\ next.j \in (next.i + 1)..(Len(s) + 1)
      /\ next.i < Len(s) => next.j <= Len(s)
  BY <1>0, <1>1, <1>4
<1>6. Progress(t, next.i, next.j, R)
  <2>1. CASE j < Len(s)
    <3>1. next.i = i /\ next.j = j + 1
      BY <1>4, <2>1
    <3>2. Progress(t, i, j + 1, R) = Progress(t, next.i, next.j, R)
      BY <3>1, Zenon
    <3> QED BY <1>2, <3>2
  <2>2. CASE j = Len(s)
    <3>1. next.i = i + 1 /\ next.j = i + 2
      BY <1>0, <1>1, <1>4, <2>2
    <3>2. ASSUME NEW k \in 1..Len(t), NEW l \in 1..Len(t), k < i + 1, k < l PROVE <<t[k], t[l]>> \in R
      <4>1. k = i \/ k < i
        BY <1>1, <3>2
      <4>2. l < j + 1
        BY <1>0, <1>3, <2>2
      <4> QED BY <1>2, <3>2, <4>1, <4>2 DEF Progress
    <3>3. \A l \in 1..Len(t) : ~(i + 1 < l /\ l < i + 2)
      BY <1>1
    <3>4. Progress(t, i + 1, i + 2, R)
      BY <3>2, <3>3 DEF Progress
    <3>5. Progress(t, i + 1, i + 2, R) = Progress(t, next.i, next.j, R)
      BY <3>1, Zenon
    <3> QED BY <3>4, <3>5
  <2> QED BY <1>0, <1>1, <2>1, <2>2
<1>7. \A k \in 1..Len(s) : \E l \in 1..Len(s) : t[k] = s[l]
  BY <1>1, <1>3
<1>8. \A k \in 1..Len(s) : \E l \in 1..Len(s) : s[k] = t[l]
  <2> SUFFICES ASSUME NEW k \in 1..Len(s) PROVE \E l \in 1..Len(s) : s[k] = t[l]
    OBVIOUS
  <2>1. s[k] = t[k] \/ s[k] = t[i] \/ s[k] = t[j]
    BY <1>1, <1>3
  <2> QED BY <1>1, <2>1
<1>9. ASSUME Distinct(s) PROVE Distinct(t)
  <2>1. \A k, l \in 1..Len(s) : k # l => s[k].index # s[l].index
    BY <1>9 DEF Distinct
  <2>2. ASSUME NEW k \in 1..Len(s), NEW l \in 1..Len(s), k # l PROVE t[k].index # t[l].index
    <3> DEFINE p(m) == IF m = j THEN i ELSE IF m = i THEN j ELSE m
    <3>1. CASE t = s
      BY <2>1, <2>2, <3>1
    <3>2. CASE \A m \in 1..Len(s) : t[m] = IF m = j THEN s[i] ELSE IF m = i THEN s[j] ELSE s[m]
      <4>1. k \in 1..Len(s) /\ l \in 1..Len(s)
        OBVIOUS
      <4>2. p(k) \in 1..Len(s) /\ p(l) \in 1..Len(s) /\ p(k) # p(l)
        BY <1>1, <2>2, <4>1
      <4>3. t[k] = s[p(k)] /\ t[l] = s[p(l)]
        BY <3>2, <4>1
      <4> HIDE DEF p
      <4> QED BY <2>1, <4>2, <4>3
    <3> QED BY <1>3, <3>1, <3>2
  <2> QED BY <1>3, <2>2 DEF Distinct
<1> QED BY <1>3, <1>5, <1>6, <1>7, <1>8, <1>9 DEF Stepped

\* A loop that has come to the last position leaves a sorted sequence.
LEMMA SortEnds ==
    ASSUME NEW R, NEW s \in Seq(Chunk), at \in [i: Nat \ {0}, j: Nat \ {0}], Sorted(s), Progress(s, at.i, at.j, R)
    PROVE  InOrder(s, R)
<1>1. Len(s) \in Nat
  BY LenProperties
<1> SUFFICES ASSUME NEW k \in 1..Len(s), NEW l \in 1..Len(s), k < l PROVE <<s[k], s[l]>> \in R
  BY DEF InOrder
<1>2. k < at.i
  BY <1>1 DEF Sorted
<1> QED BY <1>2 DEF Progress

LEMMA ScoreIsOrder ==
    /\ Transitive(ByScore)
    /\ \A a, b \in Chunk : <<a, b>> \in ByScore <=> Better(a, b)
    /\ \A a, b \in Chunk : a.index # b.index => <<a, b>> \in ByScore \/ <<b, a>> \in ByScore
BY DEF Transitive, ByScore, Better, Chunk

LEMMA IndexIsOrder ==
    /\ Transitive(ByIndex)
    /\ \A a, b \in Chunk : <<a, b>> \in ByIndex <=> Earlier(a, b)
    /\ \A a, b \in Chunk : a.index # b.index => <<a, b>> \in ByIndex \/ <<b, a>> \in ByIndex
BY DEF Transitive, ByIndex, Earlier, Chunk

\* What one more file may use.
LEMMA TakenBound ==
    ASSUME NEW limit \in Nat \ {0}, NEW before \in Nat, before < limit, NEW length \in Nat,
           NEW size, size = CutLength(length, Share(limit, limit - before), 9)
    PROVE  /\ size \in Nat
           /\ before + size + 2 <= limit + 57
           /\ size <= Larger(2400, limit \div 4)
<1> DEFINE share == Share(limit, limit - before)
<1>1. share \in Nat \ {0} /\ share <= limit - before /\ share <= Larger(2400, limit \div 4) /\ Larger(2400, limit \div 4) >= 2400
  BY DEF Share, Smaller, Larger
<1> HIDE DEF share
<1>2. /\ CutLength(length, share, 9) \in Nat
      /\ CutLength(length, share, 9) <= share + 55
      /\ share >= 400 => CutLength(length, share, 9) <= share
  BY <1>1, CutBound
<1>3. size = CutLength(length, share, 9)
  BY DEF share
<1>4. Larger(2400, limit \div 4) \in Nat
  BY DEF Larger
<1> QED BY <1>1, <1>2, <1>3, <1>4
-----------------------------------------------------------------------------
(* The invariant *)

LEMMA InitInv == Init => IInv
<1> SUFFICES ASSUME Init PROVE IInv
  OBVIOUS
<1>1. PICK o \in Options : opts = Normalized(o)
  BY DEF Init
<1>2. o \in [include: SUBSET Parts, limit: [Parts -> Int]]
  BY ContextAssumption
<1>3. \A p \in Parts : Defaults[p] \in Nat \ {0}
  BY DEF Parts, Defaults
<1>4. opts \in [include: SUBSET Parts, limit: [Parts -> Nat \ {0}]]
  <2>1. opts = [include |-> o.include, limit |-> [p \in Parts |-> IF o.limit[p] <= 0 THEN Defaults[p] ELSE o.limit[p]]]
    BY <1>1, <1>2 DEF Normalized
  <2>2. \A p \in Parts : (IF o.limit[p] <= 0 THEN Defaults[p] ELSE o.limit[p]) \in Nat \ {0}
    BY <1>2, <1>3
  <2> QED BY <1>2, <2>1, <2>2
<1>5. DiffLimit \in Nat /\ FullShare \in Nat
  BY <1>4 DEF DiffLimit, FullShare, Larger, Parts
<1>6. diff \in Diffs
  <2>1. diff = <<>> /\ 0 \in 0..MaxChunks
    BY ContextAssumption DEF Init
  <2>2. <<>> \in [1..0 -> [length: ChunkLengths, score: Scores]]
    OBVIOUS
  <2> QED BY <2>1, <2>2 DEF Diffs
<1>7. list = <<>> /\ chosen = <<>> /\ used = 0 /\ at = Start /\ Len(list) = 0 /\ Len(chosen) = 0
  BY DEF Init
<1>8. Types
  BY <1>4, <1>6, <1>7 DEF Types, Init, Pcs, Start
<1>9. Budget
  BY <1>5, <1>7 DEF Budget
<1>10. InOrder(list, ByScore) /\ ChosenIsPrefix
  BY <1>7 DEF InOrder, ChosenIsPrefix, Distinct
<1> QED BY <1>7, <1>8, <1>9, <1>10 DEF IInv, Untouched, Ranking, Choosing, Selected, Restoring, Init

\* The steps that leave the selection alone.
LEMMA FetchInv == ASSUME IInv, FetchItem \/ FetchComments \/ FetchFiles \/ Render \/ UNCHANGED vars PROVE IInv'
<1>1. UNCHANGED <<opts, diff, list, chosen, at, used>>
  BY DEF FetchItem, FetchComments, FetchFiles, Fetch, Render, vars, selection
<1>2. \/ pc \in {"item", "comments", "files"} /\ pc' \in {"comments", "files", "diff", "unavailable"}
      \/ pc = "render" /\ pc' = "done"
      \/ pc' = pc
  BY DEF FetchItem, FetchComments, FetchFiles, Fetch, Render, vars
<1>3. Types'
  BY <1>1, <1>2 DEF IInv, Types, Pcs
<1>4. Budget' /\ ChosenIsPrefix'
  BY <1>1 DEF IInv, Budget, DiffLimit, FullShare, ChosenIsPrefix, Distinct
<1>5. Untouched' /\ Choosing' /\ Selected'
  BY <1>1, <1>2 DEF IInv, Untouched, Choosing, Selected, DiffLimit
<1>6. (list # <<>> => ListIsDiff)'
  BY <1>1 DEF IInv, ListIsDiff, Distinct
<1>7. Ranking' /\ Restoring'
  BY <1>1, <1>2 DEF IInv, Ranking, Restoring, Loop, Progress
<1>8. InOrder(list, ByScore)' <=> InOrder(list, ByScore)
  BY <1>1 DEF InOrder
<1>9. InOrder(chosen, ByIndex)' <=> InOrder(chosen, ByIndex)
  BY <1>1 DEF InOrder
<1>10. /\ (pc # "rank" => InOrder(list, ByScore))'
       /\ (pc \in {"render", "done"} => InOrder(chosen, ByIndex))'
       /\ (pc = "choose" => list # <<>>)'
  BY <1>1, <1>2, <1>8, <1>9 DEF IInv
<1> QED BY <1>3, <1>4, <1>5, <1>6, <1>7, <1>10 DEF IInv

LEMMA FetchDiffInv == ASSUME IInv, FetchDiff PROVE IInv'
<1>1. pc = "diff" /\ UNCHANGED <<opts, chosen, at, used>>
  BY DEF FetchDiff, selection
<1>2. list = <<>> /\ chosen = <<>> /\ used = 0 /\ at = Start /\ Len(list) = 0 /\ Len(chosen) = 0
  BY <1>1 DEF IInv, Untouched
<1>3. Types /\ Budget /\ ChosenIsPrefix
  BY DEF IInv
<1>4. CASE pc' = "render" /\ list' = <<>> /\ diff' \in Diffs
  BY <1>1, <1>2, <1>3, <1>4 DEF IInv, Types, Budget, DiffLimit, FullShare, Untouched, Ranking, InOrder,
      ChosenIsPrefix, Distinct, Choosing, Selected, Restoring, Pcs
<1>5. ASSUME NEW d \in Diffs, diff' = d, list' = Scored(d), pc' = "rank", ~Fits(DiffLength(d), opts.limit["diff"])
      PROVE IInv'
  <2>1. PICK n \in 0..MaxChunks : d \in [1..n -> [length: ChunkLengths, score: Scores]]
    BY DEF Diffs
  <2>2. n \in Nat /\ DOMAIN d = 1..n /\ Len(d) = n
    BY <2>1, ContextAssumption
  <2>3. d # <<>>
    <3>1. opts.limit["diff"] \in Nat \ {0}
      BY <1>3 DEF Types, Parts
    <3>2. d = <<>> => DiffLength(d) = 0
      BY DEF DiffLength
    <3> QED BY <1>5, <3>1, <3>2 DEF Fits
  <2>4. n >= 1
    <3>1. n = 0 => d = <<>>
      BY <2>1
    <3> QED BY <2>2, <2>3, <3>1
  <2>5. \A k \in 1..n : d[k].length \in Nat /\ d[k].score \in Nat
    BY <2>1, ContextAssumption
  <2>6. /\ list' \in Seq(Chunk) /\ Len(list') = n
        /\ \A k \in 1..n : list'[k].index = k /\ list'[k].score = d[k].score
    <3>1. list' = [k \in 1..n |-> [index |-> k, length |-> d[k].length, score |-> d[k].score]]
      BY <1>5, <2>2 DEF Scored
    <3>2. \A k \in 1..n : [index |-> k, length |-> d[k].length, score |-> d[k].score] \in Chunk
      BY <2>2, <2>5 DEF Chunk
    <3>3. list' \in [1..n -> Chunk]
      BY <3>1, <3>2
    <3>4. list' \in Seq(Chunk) /\ Len(list') = n
      BY <2>2, <3>3
    <3> QED BY <3>1, <3>4
  <2>7. ListIsDiff' /\ list' # <<>>
    <3>1. DOMAIN diff' = 1..n /\ Len(diff') = n
      BY <1>5, <2>2
    <3>2. diff' = d
      BY <1>5
    <3> QED BY <2>2, <2>4, <2>6, <3>1, <3>2 DEF ListIsDiff, Distinct
  <2>8. Ranking'
    <3>1. at' = [i |-> 1, j |-> 2]
      BY <1>1, <1>2 DEF Start
    <3>2. Loop(list)'
      BY <2>2, <2>4, <2>6, <3>1 DEF Loop
    <3>3. Progress(list, at.i, at.j, ByScore)'
      BY <2>2, <2>6, <3>1 DEF Progress
    <3> QED BY <1>1, <1>2, <2>7, <3>2, <3>3 DEF Ranking
  <2>9. Types' /\ Budget'
    BY <1>1, <1>2, <1>3, <1>5, <2>6 DEF Types, Budget, DiffLimit, FullShare, Pcs
  <2>10. ChosenIsPrefix'
    BY <1>1, <1>2, <2>2, <2>6 DEF ChosenIsPrefix, Distinct
  <2> QED BY <1>5, <2>7, <2>8, <2>9, <2>10 DEF IInv, Untouched, Choosing, Selected, Restoring
<1>6. \/ pc' = "render" /\ list' = <<>> /\ diff' \in Diffs
      \/ \E d \in Diffs : /\ diff' = d /\ list' = Scored(d) /\ pc' = "rank"
                          /\ ~Fits(DiffLength(d), opts.limit["diff"])
  BY <1>2, <1>3 DEF FetchDiff, selection, Types
<1> QED BY <1>4, <1>5, <1>6

LEMMA RankInv == ASSUME IInv, Rank PROVE IInv'
<1>1. /\ pc = "rank" /\ pc' = "rank" /\ UNCHANGED <<opts, diff, chosen, used>>
      /\ ~Sorted(list) /\ at' = Following(Len(list))
      /\ list' = IF Better(list[at.j], list[at.i]) THEN Exchanged(list, at.i, at.j) ELSE list
  BY DEF Rank
<1>2. Types /\ Budget /\ ChosenIsPrefix /\ list # <<>> /\ ListIsDiff /\ chosen = <<>> /\ used = 0
      /\ Loop(list) /\ Progress(list, at.i, at.j, ByScore)
  BY <1>1 DEF IInv, Ranking
<1>3. \A k \in 1..Len(list) : list[k] \in Chunk
  BY <1>2, ElementOfSeq DEF Types
<1>4. Total(list, ByScore)
  BY <1>2, <1>3, ScoreIsOrder DEF ListIsDiff, Distinct, Total
<1>5. list' = IF <<list[at.j], list[at.i]>> \in ByScore THEN Exchanged(list, at.i, at.j) ELSE list
  <2>1. at.i \in 1..Len(list) /\ at.j \in 1..Len(list)
    BY <1>1, <1>2, LenProperties DEF Types, Loop, Sorted
  <2>2. <<list[at.j], list[at.i]>> \in ByScore <=> Better(list[at.j], list[at.i])
    BY <1>3, <2>1, ScoreIsOrder
  <2> QED BY <1>1, <2>2
<1>6. Stepped(list, list', at', ByScore)
  <2>1. list \in Seq(Chunk) /\ at \in [i: Nat \ {0}, j: Nat \ {0}]
    BY <1>2 DEF Types
  <2> QED BY <1>1, <1>2, <1>4, <1>5, <2>1, ScoreIsOrder, SortStep
<1>61. /\ list' \in Seq(Chunk) /\ Len(list') = Len(list) /\ Distinct(list')
       /\ \A k \in 1..Len(list) : \E l \in 1..Len(list) : list'[k] = list[l]
       /\ \A k \in 1..Len(list) : \E l \in 1..Len(list) : list[k] = list'[l]
  BY <1>2, <1>6 DEF Stepped, ListIsDiff
<1>62. /\ at' \in [i: Nat \ {0}, j: Nat \ {0}]
       /\ at'.i \in 1..Len(list) /\ at'.j \in (at'.i + 1)..(Len(list) + 1)
       /\ at'.i < Len(list) => at'.j <= Len(list)
       /\ Progress(list', at'.i, at'.j, ByScore)
  BY <1>6 DEF Stepped
<1>7. Types' /\ Budget'
  <2>1. Types'
    BY <1>1, <1>2, <1>61, <1>62 DEF Types
  <2>2. Budget'
    BY <1>1, <1>2 DEF Budget, DiffLimit, FullShare
  <2> QED BY <2>1, <2>2
<1>8. (list # <<>>)' /\ ListIsDiff'
  <2>1. list' # <<>>
    BY <1>2, <1>61, EmptySeq, LenProperties DEF Types
  <2>2. \A k \in 1..Len(list') : list'[k].index \in DOMAIN diff /\ list'[k].score = diff[list'[k].index].score
    <3> SUFFICES ASSUME NEW k \in 1..Len(list') PROVE list'[k].index \in DOMAIN diff /\ list'[k].score = diff[list'[k].index].score
      OBVIOUS
    <3>1. PICK l \in 1..Len(list) : list'[k] = list[l]
      BY <1>61
    <3> QED BY <1>2, <3>1 DEF ListIsDiff
  <2>3. \A c \in DOMAIN diff : \E k \in 1..Len(list') : list'[k].index = c
    <3> SUFFICES ASSUME NEW c \in DOMAIN diff PROVE \E k \in 1..Len(list') : list'[k].index = c
      OBVIOUS
    <3>1. PICK k \in 1..Len(list) : list[k].index = c
      BY <1>2 DEF ListIsDiff
    <3>2. PICK l \in 1..Len(list) : list[k] = list'[l]
      BY <1>61
    <3> QED BY <1>61, <3>1, <3>2
  <2>4. Len(list') = Len(diff) /\ diff' = diff
    BY <1>1, <1>2, <1>61 DEF ListIsDiff
  <2> QED BY <1>61, <2>1, <2>2, <2>3, <2>4 DEF ListIsDiff, Distinct
<1>9. Ranking'
  <2>1. Loop(list)'
    BY <1>61, <1>62 DEF Loop
  <2>2. Progress(list, at.i, at.j, ByScore)'
    BY <1>62 DEF Progress
  <2> QED BY <1>1, <1>2, <1>8, <2>1, <2>2 DEF Ranking
<1>10. ChosenIsPrefix'
  <2>1. Len(chosen) = 0 /\ chosen' = <<>> /\ Len(list') \in Nat
    BY <1>1, <1>2, <1>61, LenProperties
  <2> QED BY <2>1 DEF ChosenIsPrefix, Distinct
<1> QED BY <1>1, <1>7, <1>8, <1>9, <1>10 DEF IInv, Untouched, Choosing, Selected, Restoring

LEMMA RankedInv == ASSUME IInv, Ranked PROVE IInv'
<1>1. pc = "rank" /\ pc' = "choose" /\ Sorted(list) /\ at' = Start /\ UNCHANGED <<opts, diff, list, chosen, used>>
  BY DEF Ranked
<1>2. Types /\ Budget /\ ChosenIsPrefix /\ list # <<>> /\ ListIsDiff /\ chosen = <<>>
      /\ Progress(list, at.i, at.j, ByScore)
  BY <1>1 DEF IInv, Ranking
<1>3. InOrder(list, ByScore)
  BY <1>1, <1>2, SortEnds DEF Types
<1>4. Types' /\ Budget' /\ ChosenIsPrefix' /\ ListIsDiff'
  BY <1>1, <1>2 DEF Types, Budget, DiffLimit, FullShare, ChosenIsPrefix, ListIsDiff, Distinct, Pcs, Start
<1>5. Choosing'
  <2>1. Len(chosen') = 0 /\ at'.i = 1 /\ Len(list) \in Nat
    BY <1>1, <1>2, LenProperties DEF Start, Types
  <2> QED BY <1>1, <2>1 DEF Choosing
<1>6. InOrder(list, ByScore)'
  BY <1>1, <1>3 DEF InOrder
<1> QED BY <1>1, <1>2, <1>4, <1>5, <1>6 DEF IInv, Untouched, Ranking, Selected, Restoring

LEMMA ChooseInv == ASSUME IInv, Choose PROVE IInv'
<1> DEFINE k == at.i
           size == Taken(list[at.i])
           more == [list[at.i] EXCEPT !.length = size]
<1>1. /\ pc = "choose" /\ pc' = "choose" /\ UNCHANGED <<opts, diff, list>>
      /\ k <= Len(list) /\ used < DiffLimit
      /\ chosen' = Append(chosen, more) /\ used' = used + size + 2 /\ at' = [at EXCEPT !.i = @ + 1]
  BY DEF Choose, Room, DiffLimit
<1>2. /\ Types /\ Budget /\ ChosenIsPrefix /\ list # <<>> /\ ListIsDiff /\ InOrder(list, ByScore)
      /\ k = Len(chosen) + 1 /\ \A m \in 1..Len(chosen) : chosen[m].index = list[m].index
  BY <1>1 DEF IInv, Choosing
<1>3. Len(chosen) \in Nat /\ Len(list) \in Nat /\ k \in 1..Len(list)
  BY <1>1, <1>2, LenProperties DEF Types
<1>4. list[k] \in Chunk
  BY <1>2, <1>3, ElementOfSeq DEF Types
<1>5. DiffLimit \in Nat \ {0} /\ used \in Nat /\ FullShare \in Nat /\ FullShare = Larger(2400, DiffLimit \div 4) + 2
  BY <1>2 DEF Types, DiffLimit, FullShare, Larger, Parts
<1>6. size \in Nat /\ used + size + 2 <= DiffLimit + 57 /\ size + 2 <= FullShare
  <2>1. size = CutLength(list[k].length, Share(DiffLimit, DiffLimit - used), 9)
    BY DEF Taken, Label, DiffLimit
  <2>2. list[k].length \in Nat
    BY <1>4 DEF Chunk
  <2> HIDE DEF size, k
  <2>3. Larger(2400, DiffLimit \div 4) \in Nat
    BY <1>5 DEF Larger
  <2>4. size \in Nat /\ used + size + 2 <= DiffLimit + 57 /\ size <= Larger(2400, DiffLimit \div 4)
    BY <1>1, <1>5, <2>1, <2>2, TakenBound
  <2> QED BY <1>5, <2>3, <2>4
<1> HIDE DEF size
<1>7. more \in Chunk /\ more.index = list[k].index
  BY <1>4, <1>6 DEF Chunk
<1> HIDE DEF k, more
<1>8. /\ chosen' \in Seq(Chunk) /\ Len(chosen') = Len(chosen) + 1
      /\ \A m \in 1..Len(chosen) : chosen'[m] = chosen[m]
      /\ chosen'[Len(chosen) + 1] = more
  <2>1. chosen \in Seq(Chunk)
    BY <1>2 DEF Types
  <2> QED BY <1>1, <1>7, <2>1, AppendProperties
<1>9. at' \in [i: Nat \ {0}, j: Nat \ {0}] /\ at'.i = k + 1
  BY <1>1, <1>2 DEF Types, k
<1>10. Types'
  <2>1. used' \in Nat
    BY <1>1, <1>5, <1>6
  <2>2. UNCHANGED <<opts, diff, list, pc>> /\ Types
    BY <1>1, <1>2
  <2> QED BY <1>8, <1>9, <2>1, <2>2 DEF Types
<1>11. Budget'
  <2>1. (Len(chosen) + 1) * FullShare = Len(chosen) * FullShare + FullShare /\ Len(chosen) * FullShare \in Nat
    BY <1>3, <1>5, OneMore
  <2>2. used' <= (Len(chosen) + 1) * FullShare
    <3> DEFINE full == Len(chosen) * FullShare
    <3>1. used <= full
      BY <1>2 DEF Budget
    <3>2. full \in Nat /\ (Len(chosen) + 1) * FullShare = full + FullShare
      BY <2>1
    <3>3. used' = used + size + 2
      BY <1>1
    <3>4. size \in Nat /\ size + 2 <= FullShare /\ used \in Nat /\ FullShare \in Nat
      BY <1>5, <1>6
    <3> HIDE DEF full, FullShare, DiffLimit
    <3>5. used' <= full + FullShare
      BY <3>1, <3>2, <3>3, <3>4
    <3> QED BY <3>2, <3>5
  <2>3. FullShare' = FullShare /\ DiffLimit' = DiffLimit
    BY <1>1 DEF FullShare, DiffLimit
  <2> HIDE DEF FullShare, DiffLimit
  <2> QED BY <1>1, <1>6, <1>8, <2>2, <2>3 DEF Budget
<1>12. \A m \in 1..Len(chosen') : chosen'[m].index = list[m].index
  <2> SUFFICES ASSUME NEW m \in 1..Len(chosen') PROVE chosen'[m].index = list[m].index
    OBVIOUS
  <2>1. m \in 1..Len(chosen) \/ m = Len(chosen) + 1
    BY <1>3, <1>8
  <2> QED BY <1>2, <1>7, <1>8, <2>1
<1>13. Len(chosen') <= Len(list) /\ Len(chosen') = k
  BY <1>1, <1>2, <1>3, <1>8
<1>14. ChosenIsPrefix'
  <2>1. Distinct(chosen')
    <3> SUFFICES ASSUME NEW m \in 1..Len(chosen'), NEW l \in 1..Len(chosen'), m # l
                 PROVE chosen'[m].index # chosen'[l].index
      BY DEF Distinct
    <3>1. m \in 1..Len(list) /\ l \in 1..Len(list)
      BY <1>3, <1>13
    <3> QED BY <1>2, <1>12, <3>1 DEF ListIsDiff, Distinct
  <2> QED BY <1>1, <1>12, <1>13, <2>1 DEF ChosenIsPrefix, Distinct
<1>15. Choosing'
  BY <1>1, <1>3, <1>9, <1>12, <1>13 DEF Choosing
<1>16. ListIsDiff' /\ InOrder(list, ByScore)'
  BY <1>1, <1>2 DEF ListIsDiff, Distinct, InOrder
<1> QED BY <1>1, <1>2, <1>10, <1>11, <1>14, <1>15, <1>16 DEF IInv, Untouched, Ranking, Selected, Restoring

LEMMA ChosenInv == ASSUME IInv, Chosen PROVE IInv'
<1>1. pc = "choose" /\ pc' = "restore" /\ ~Room /\ at' = Start /\ UNCHANGED <<opts, diff, list, chosen, used>>
  BY DEF Chosen
<1>2. /\ Types /\ Budget /\ ChosenIsPrefix /\ list # <<>> /\ ListIsDiff /\ InOrder(list, ByScore)
      /\ at.i = Len(chosen) + 1 /\ at.i <= Len(list) + 1
  BY <1>1 DEF IInv, Choosing
<1>3. Len(chosen) \in Nat /\ Len(list) \in Nat \ {0} /\ DiffLimit \in Nat \ {0}
  BY <1>2, LenProperties, EmptySeq DEF Types, DiffLimit, Parts
<1>4. Len(chosen) < Len(list) => used >= DiffLimit
  BY <1>1, <1>2, <1>3 DEF Room, DiffLimit, Types
<1>5. chosen # <<>> /\ Len(chosen) \in Nat \ {0}
  <2>1. used = 0 \/ chosen # <<>>
    <3>1. chosen = <<>> => Len(chosen) * FullShare = 0
      BY <1>2 DEF FullShare, DiffLimit, Types, Parts, Larger
    <3>2. used <= Len(chosen) * FullShare /\ used \in Nat
      BY <1>2 DEF Budget, Types
    <3> QED BY <3>1, <3>2
  <2>2. chosen # <<>>
    <3>1. chosen = <<>> => Len(chosen) = 0
      OBVIOUS
    <3> QED BY <1>3, <1>4, <2>1, <3>1
  <2> QED BY <1>2, <2>2, EmptySeq DEF Types
<1>6. Types' /\ Budget' /\ ChosenIsPrefix' /\ ListIsDiff' /\ InOrder(list, ByScore)'
  BY <1>1, <1>2 DEF Types, Budget, DiffLimit, FullShare, ChosenIsPrefix, ListIsDiff, Distinct, InOrder, Pcs, Start
<1>7. Selected'
  BY <1>1, <1>4 DEF Selected, DiffLimit
<1>8. Restoring'
  <2>1. at' = [i |-> 1, j |-> 2]
    BY <1>1 DEF Start
  <2>2. Loop(chosen)'
    BY <1>1, <1>5, <2>1 DEF Loop
  <2>3. Progress(chosen, at.i, at.j, ByIndex)'
    BY <1>1, <1>5, <2>1 DEF Progress
  <2> QED BY <1>1, <1>5, <2>2, <2>3 DEF Restoring
<1> QED BY <1>1, <1>2, <1>6, <1>7, <1>8 DEF IInv, Untouched, Ranking, Choosing

LEMMA RestoreInv == ASSUME IInv, Restore PROVE IInv'
<1>1. /\ pc = "restore" /\ pc' = "restore" /\ UNCHANGED <<opts, diff, list, used>>
      /\ ~Sorted(chosen) /\ at' = Following(Len(chosen))
      /\ chosen' = IF Earlier(chosen[at.j], chosen[at.i]) THEN Exchanged(chosen, at.i, at.j) ELSE chosen
  BY DEF Restore
<1>2. /\ Types /\ Budget /\ ChosenIsPrefix /\ (list # <<>> => ListIsDiff) /\ InOrder(list, ByScore)
      /\ Selected /\ chosen # <<>> /\ Loop(chosen) /\ Progress(chosen, at.i, at.j, ByIndex)
  BY <1>1 DEF IInv, Restoring
<1>3. \A k \in 1..Len(chosen) : chosen[k] \in Chunk
  BY <1>2, ElementOfSeq DEF Types
<1>4. Total(chosen, ByIndex)
  BY <1>2, <1>3, IndexIsOrder DEF ChosenIsPrefix, Distinct, Total
<1>5. chosen' = IF <<chosen[at.j], chosen[at.i]>> \in ByIndex THEN Exchanged(chosen, at.i, at.j) ELSE chosen
  <2>1. at.i \in 1..Len(chosen) /\ at.j \in 1..Len(chosen)
    BY <1>1, <1>2, LenProperties DEF Types, Loop, Sorted
  <2>2. <<chosen[at.j], chosen[at.i]>> \in ByIndex <=> Earlier(chosen[at.j], chosen[at.i])
    BY <1>3, <2>1, IndexIsOrder
  <2> QED BY <1>1, <2>2
<1>6. Stepped(chosen, chosen', at', ByIndex)
  <2>1. chosen \in Seq(Chunk) /\ at \in [i: Nat \ {0}, j: Nat \ {0}]
    BY <1>2 DEF Types
  <2> QED BY <1>1, <1>2, <1>4, <1>5, <2>1, IndexIsOrder, SortStep
<1>7. /\ chosen' \in Seq(Chunk) /\ Len(chosen') = Len(chosen) /\ Distinct(chosen')
      /\ \A k \in 1..Len(chosen) : \E l \in 1..Len(chosen) : chosen'[k] = chosen[l]
      /\ \A k \in 1..Len(chosen) : \E l \in 1..Len(chosen) : chosen[k] = chosen'[l]
  BY <1>2, <1>6 DEF Stepped, ChosenIsPrefix
<1>8. /\ at' \in [i: Nat \ {0}, j: Nat \ {0}]
      /\ at'.i \in 1..Len(chosen) /\ at'.j \in (at'.i + 1)..(Len(chosen) + 1)
      /\ at'.i < Len(chosen) => at'.j <= Len(chosen)
      /\ Progress(chosen', at'.i, at'.j, ByIndex)
  BY <1>6 DEF Stepped
<1>9. Types' /\ Budget'
  <2>1. Types'
    BY <1>1, <1>2, <1>7, <1>8 DEF Types
  <2>2. Budget'
    BY <1>1, <1>2, <1>7 DEF Budget, DiffLimit, FullShare
  <2> QED BY <2>1, <2>2
<1>10. ChosenIsPrefix'
  <2>1. ASSUME NEW k \in 1..Len(chosen) PROVE \E l \in 1..Len(chosen) : chosen'[k].index = list[l].index
    <3>1. PICK m \in 1..Len(chosen) : chosen'[k] = chosen[m]
      BY <1>7
    <3> QED BY <1>2, <3>1 DEF ChosenIsPrefix
  <2>2. ASSUME NEW l \in 1..Len(chosen) PROVE \E k \in 1..Len(chosen) : chosen'[k].index = list[l].index
    <3>1. PICK m \in 1..Len(chosen) : chosen[m].index = list[l].index
      BY <1>2 DEF ChosenIsPrefix
    <3>2. PICK k \in 1..Len(chosen) : chosen[m] = chosen'[k]
      BY <1>7
    <3> QED BY <3>1, <3>2
  <2> QED BY <1>1, <1>2, <1>7, <2>1, <2>2 DEF ChosenIsPrefix, Distinct
<1>11. Restoring'
  <2>1. chosen' # <<>>
    BY <1>2, <1>7, EmptySeq DEF Types
  <2>2. Loop(chosen)'
    BY <1>7, <1>8 DEF Loop
  <2>3. Progress(chosen, at.i, at.j, ByIndex)'
    BY <1>8 DEF Progress
  <2> QED BY <2>1, <2>2, <2>3 DEF Restoring
<1>12. Selected' /\ (list # <<>> => ListIsDiff)' /\ InOrder(list, ByScore)'
  <2>1. Selected'
    BY <1>1, <1>2, <1>7 DEF Selected, DiffLimit
  <2>2. (list # <<>> => ListIsDiff)' /\ InOrder(list, ByScore)'
    BY <1>1, <1>2 DEF ListIsDiff, Distinct, InOrder
  <2> QED BY <2>1, <2>2
<1> QED BY <1>1, <1>9, <1>10, <1>11, <1>12 DEF IInv, Untouched, Ranking, Choosing

LEMMA AssembleInv == ASSUME IInv, Assemble PROVE IInv'
<1>1. pc = "restore" /\ pc' = "render" /\ Sorted(chosen) /\ UNCHANGED <<opts, diff, list, chosen, at, used>>
  BY DEF Assemble, selection
<1>2. /\ Types /\ Budget /\ ChosenIsPrefix /\ (list # <<>> => ListIsDiff) /\ InOrder(list, ByScore)
      /\ Selected /\ Progress(chosen, at.i, at.j, ByIndex)
  BY <1>1 DEF IInv, Restoring
<1>3. InOrder(chosen, ByIndex)
  BY <1>1, <1>2, SortEnds DEF Types
<1>4. Types' /\ Budget' /\ ChosenIsPrefix' /\ Selected'
  <2>1. Types'
    BY <1>1, <1>2 DEF Types, Pcs
  <2>2. DiffLimit' = DiffLimit /\ FullShare' = FullShare
    BY <1>1 DEF DiffLimit, FullShare
  <2>3. Budget'
    BY <1>1, <1>2, <2>2 DEF Budget
  <2>4. ChosenIsPrefix'
    BY <1>1, <1>2 DEF ChosenIsPrefix, Distinct
  <2>5. Selected'
    BY <1>1, <1>2 DEF Selected, DiffLimit
  <2> QED BY <2>1, <2>3, <2>4, <2>5
<1>5. (list # <<>> => ListIsDiff)' /\ InOrder(list, ByScore)' /\ InOrder(chosen, ByIndex)'
  BY <1>1, <1>2, <1>3 DEF ListIsDiff, Distinct, InOrder
<1> QED BY <1>1, <1>4, <1>5 DEF IInv, Untouched, Ranking, Choosing, Restoring

LEMMA NextInv == ASSUME IInv, [Next]_vars PROVE IInv'
<1>1. CASE Ended
  BY <1>1, FetchInv DEF Ended
<1>2. CASE UNCHANGED vars
  BY <1>2, FetchInv
<1> QED BY <1>1, <1>2, FetchInv, FetchDiffInv, RankInv, RankedInv, ChooseInv, ChosenInv, RestoreInv, AssembleInv DEF Next

THEOREM Invariance == Spec => []IInv
<1>1. Init => IInv
  BY InitInv
<1>2. IInv /\ [Next]_vars => IInv'
  BY NextInv
<1> QED BY <1>1, <1>2, PTL DEF Spec

\* What selectDiff shows of a diff that is too long: the files of the highest
\* scores, in the diff's order, for every diff, every scores and every limit.
THEOREM BestFiles == Spec => []BestFilesShown
<1>1. IInv => BestFilesShown
  <2> SUFFICES ASSUME IInv, pc = "render", chosen # <<>> PROVE
        /\ \A k, l \in DOMAIN chosen : k < l => chosen[k].index < chosen[l].index
        /\ \A c \in DOMAIN diff \ Indices(chosen) :
             /\ used >= DiffLimit
             /\ \A b \in Indices(chosen) :
                  diff[b].score > diff[c].score \/ (diff[b].score = diff[c].score /\ b < c)
    BY DEF BestFilesShown, DiffLimit
  <2>1. /\ Types /\ ChosenIsPrefix /\ Selected /\ InOrder(list, ByScore) /\ InOrder(chosen, ByIndex)
        /\ list # <<>> => ListIsDiff
    BY DEF IInv
  <2>2. DOMAIN chosen = 1..Len(chosen) /\ Len(chosen) \in Nat \ {0} /\ Len(list) \in Nat
    BY <2>1, LenProperties, EmptySeq DEF Types
  <2>3. list # <<>> /\ ListIsDiff
    <3>1. Len(chosen) <= Len(list)
      BY <2>1 DEF ChosenIsPrefix
    <3>2. list = <<>> => Len(list) = 0
      OBVIOUS
    <3> QED BY <2>1, <2>2, <3>1, <3>2
  <2>4. \A k, l \in DOMAIN chosen : k < l => chosen[k].index < chosen[l].index
    BY <2>1, <2>2 DEF InOrder, ByIndex, Earlier
  <2>5. ASSUME NEW c \in DOMAIN diff \ Indices(chosen), NEW b \in Indices(chosen) PROVE
         /\ used >= DiffLimit
         /\ diff[b].score > diff[c].score \/ (diff[b].score = diff[c].score /\ b < c)
    <3>1. PICK k \in 1..Len(chosen) : chosen[k].index = b
      BY <2>2 DEF Indices
    <3>2. PICK l \in 1..Len(chosen) : list[l].index = b
      BY <2>1, <3>1 DEF ChosenIsPrefix
    <3>3. PICK m \in 1..Len(list) : list[m].index = c
      BY <2>3 DEF ListIsDiff
    <3>4. ~(m \in 1..Len(chosen))
      <4> SUFFICES ASSUME m \in 1..Len(chosen) PROVE FALSE
        OBVIOUS
      <4>1. PICK n \in 1..Len(chosen) : chosen[n].index = list[m].index
        BY <2>1 DEF ChosenIsPrefix
      <4>2. c \in Indices(chosen)
        BY <2>2, <3>3, <4>1 DEF Indices
      <4> QED BY <4>2
    <3>5. l < m /\ l \in 1..Len(list) /\ Len(chosen) < Len(list)
      BY <2>2, <3>4
    <3>6. Better(list[l], list[m])
      BY <2>1, <3>5 DEF InOrder, ByScore
    <3>7. list[l].score = diff[b].score /\ list[m].score = diff[c].score
      BY <2>3, <3>2, <3>3, <3>5 DEF ListIsDiff
    <3>8. used >= DiffLimit
      BY <2>1, <3>5 DEF Selected
    <3> QED BY <3>2, <3>3, <3>6, <3>7, <3>8 DEF Better
  <2>6. Indices(chosen) # {}
    <3>1. 1 \in DOMAIN chosen
      BY <2>2
    <3> QED BY <3>1 DEF Indices
  <2> QED BY <2>4, <2>5, <2>6
<1> QED BY <1>1, Invariance, PTL

\* How many files it shows at least.
THEOREM ManyFiles == Spec => []ManyFilesShown
<1>1. IInv => ManyFilesShown
  <2> SUFFICES ASSUME IInv, pc = "render", chosen # <<>>
               PROVE Len(chosen) >= Smaller(Len(diff), (DiffLimit + FullShare - 1) \div FullShare)
    BY DEF ManyFilesShown, DiffLimit, FullShare
  <2>1. Types /\ Budget /\ ChosenIsPrefix /\ Selected /\ (list # <<>> => ListIsDiff)
    BY DEF IInv
  <2>2. Len(chosen) \in Nat \ {0} /\ Len(list) \in Nat /\ Len(chosen) <= Len(list)
    BY <2>1, LenProperties, EmptySeq DEF Types, ChosenIsPrefix
  <2>3. Len(list) = Len(diff)
    <3>1. list = <<>> => Len(list) = 0
      OBVIOUS
    <3> QED BY <2>1, <2>2, <3>1 DEF ListIsDiff
  <2>4. DiffLimit \in Nat \ {0} /\ FullShare \in Nat \ {0}
    BY <2>1 DEF Types, DiffLimit, FullShare, Larger, Parts
  <2>5. CASE Len(chosen) = Len(list)
    <3> DEFINE q == (DiffLimit + FullShare - 1) \div FullShare
    <3>1. q \in Int
      BY <2>4
    <3> HIDE DEF q
    <3>2. Smaller(Len(diff), q) <= Len(diff)
      BY <2>2, <2>3, <3>1 DEF Smaller
    <3> QED BY <2>2, <2>3, <2>5, <3>1, <3>2 DEF q, Smaller
  <2>6. CASE Len(chosen) < Len(list)
    <3> DEFINE q == (DiffLimit + FullShare - 1) \div FullShare
    <3>1. used >= DiffLimit /\ used <= Len(chosen) * FullShare /\ used \in Nat
      BY <2>1, <2>6 DEF Selected, Budget, Types
    <3>2. Len(chosen) * FullShare \in Nat
      BY <2>2, <2>4, OneMore
    <3> HIDE DEF DiffLimit, FullShare
    <3>3. DiffLimit <= Len(chosen) * FullShare
      BY <2>4, <3>1, <3>2
    <3>4. q <= Len(chosen) /\ q \in Int
      BY <2>2, <2>4, <3>3, RoundedUp
    <3> HIDE DEF q
    <3>5. Smaller(Len(diff), q) <= q
      BY <2>2, <2>3, <3>4 DEF Smaller
    <3> QED BY <2>2, <2>3, <3>4, <3>5 DEF q, Smaller
  <2> QED BY <2>2, <2>5, <2>6
<1> QED BY <1>1, Invariance, PTL

\* The excerpts of a diff never exceed its limit by more than 57 bytes.
THEOREM SelectionBound == Spec => [](used <= opts.limit["diff"] + 57)
<1>1. IInv => used <= opts.limit["diff"] + 57
  BY DEF IInv, Budget, DiffLimit
<1> QED BY <1>1, Invariance, PTL
-----------------------------------------------------------------------------
(* What has become of each part that GitHub is asked for.                  *)

\* The part's turn has not come.
Awaited(p) ==
    \/ pc \in {"item", "comments", "unavailable"}
    \/ pc = "files" /\ p \in {"files", "diff"}
    \/ pc = "diff" /\ p = "diff"

Paged == {"comments", "files"}

Selecting == pc \in {"rank", "choose", "restore"}

Absent(p) == p \notin caveats /\ text[p].size = 0 /\ (Asks(p) => Awaited(p))

Excused(p) == p \in caveats /\ Asks(p) /\ answered[p] = Failed /\ text[p].size = 0

Given(p) ==
    /\ p \notin caveats /\ Asks(p) /\ answered[p] \in Nat
    /\ text[p].size > 0 <=> answered[p] > 0
    /\ text[p].cut \/ text[p].size = answered[p]

\* Only of comments and files is there a page that was not read, and then the
\* page before it is there.
Unread == \A p \in unread : p \in Paged /\ Given(p) /\ answered[p] > 0

\* The diff is too long, and its excerpts are being selected.
InHand(p) == p \notin caveats /\ Asks(p) /\ answered[p] \in Nat \ {0}

Fetched == Parts \ {"body"}

PartKnown(p) == Absent(p) \/ Excused(p) \/ Given(p) \/ (p = "diff" /\ Selecting /\ InHand(p))

Sections ==
    /\ shown = (opts.include \cap {"body"}) \cup {p \in Fetched : text[p].size > 0}
    /\ "body" \in opts.include => text["body"].cut \/ text["body"].size = item.body

Accounted ==
    /\ item \in Item /\ text \in [Parts -> Part] /\ caveats \subseteq Fetched
    /\ answered \in [Parts -> Int]
    /\ \A p \in Fetched : PartKnown(p) /\ (Awaited(p) => Absent(p))
    /\ Unread
    /\ Selecting => InHand("diff")
    /\ pc = "done" => Sections

\* How long a text that is cut may be.
Excess(p) == opts.limit[p] + (IF opts.limit[p] < 400 THEN 62 ELSE 0)

\* The chunks chosen use what they are said to use, with the line feeds between
\* them, and the text they make has its bound.
Filled ==
    /\ used = SizeOf(chosen) + 2 * Len(chosen)
    /\ pc \in {"render", "done"} => text["diff"].size <= DiffLimit + 129
    /\ \A p \in Parts \ {"diff"} : text[p].size <= Excess(p)

\* What truncateText makes of a text: something of something, nothing of
\* nothing, and the text itself where it fits.
LEMMA CutKeeps == ASSUME NEW n \in Nat, NEW max \in Nat \ {0}, NEW label \in Nat
    PROVE /\ CutLength(n, max, label) \in Nat
          /\ CutLength(n, max, label) > 0 <=> n > 0
          /\ Fits(n, max) => CutLength(n, max, label) = n
<1>1. CASE Fits(n, max)
  BY <1>1 DEF CutLength
<1>2. CASE ~Fits(n, max)
  <2>1. n > 0
    BY <1>2 DEF Fits
  <2>2. Omitted(n, max) \in Nat
    BY <1>2, MarkerIsTrue
  <2> DEFINE d == Digits(Omitted(n, max))
  <2>3. d \in 1..9
    BY <2>2, DigitsBound
  <2>4. CutLength(n, max, label) = HeadSize(max) + (37 + label + d) + TailSize(max)
    BY <1>2 DEF CutLength, MarkerLength
  <2> HIDE DEF d
  <2> QED BY <1>2, <2>1, <2>3, <2>4, PartsWithinLimit
<1> QED BY <1>1, <1>2

LEMMA PartCut == ASSUME Types, NEW p \in Parts, NEW n \in Nat
    PROVE /\ Cut(p, n) \in Part
          /\ Cut(p, n).size <= Excess(p)
          /\ Cut(p, n).size > 0 <=> n > 0
          /\ Cut(p, n).cut \/ Cut(p, n).size = n
<1>1. opts.limit[p] \in Nat \ {0} /\ Label(p) \in Nat /\ Label(p) <= 16
  BY DEF Types, Label
<1>3. /\ CutLength(n, opts.limit[p], Label(p)) <= opts.limit[p] + 46 + Label(p)
      /\ opts.limit[p] >= 400 => CutLength(n, opts.limit[p], Label(p)) <= opts.limit[p]
  <2> DEFINE max == opts.limit[p]
             label == Label(p)
  <2>1. max \in Nat \ {0} /\ label \in Nat /\ label <= 74
    BY <1>1
  <2> HIDE DEF max, label
  <2>2. /\ CutLength(n, max, label) <= max + 46 + label
        /\ max >= 400 => CutLength(n, max, label) <= max
    BY <2>1, CutBound
  <2> QED BY <2>2 DEF max, label
<1>4. CutLength(n, opts.limit[p], Label(p)) \in Nat
  BY <1>1, CutBound
<1>5. CutLength(n, opts.limit[p], Label(p)) <= Excess(p)
  BY <1>1, <1>3, <1>4 DEF Excess
<1>2. /\ CutLength(n, opts.limit[p], Label(p)) \in Nat
      /\ CutLength(n, opts.limit[p], Label(p)) > 0 <=> n > 0
      /\ Fits(n, opts.limit[p]) => CutLength(n, opts.limit[p], Label(p)) = n
  BY <1>1, CutKeeps
<1> QED BY <1>2, <1>5 DEF Cut, Part, Fits

\* The length of a diff: 0 only without a file.
LEMMA DiffSize == ASSUME NEW d \in Diffs
    PROVE DiffLength(d) \in Nat /\ (d # <<>> => DiffLength(d) > 0) /\ (d = <<>> => DiffLength(d) = 0)
<1>1. PICK n \in 0..MaxChunks : d \in [1..n -> [length: ChunkLengths, score: Scores]]
  BY DEF Diffs
<1>2. n \in Nat /\ DOMAIN d = 1..n /\ Len(d) = n
  BY <1>1, ContextAssumption
<1>3. \A k \in 1..n : d[k].length \in Nat \ {0}
  BY <1>1, ContextAssumption
<1>4. n = 0 => d = <<>>
  BY <1>1
<1>5. SizeOf(d) \in Nat /\ \A k \in 1..n : SizeOf(d) >= d[k].length
  BY <1>2, <1>3, SizeType
<1>6. d # <<>> => DiffLength(d) = SizeOf(d) + n - 1
  BY <1>2 DEF DiffLength, SizeOf
<1>7. d = <<>> => DiffLength(d) = 0
  BY DEF DiffLength
<1>8. d # <<>> => n >= 1 /\ SizeOf(d) >= d[1].length /\ d[1].length > 0 /\ d[1].length \in Nat
  BY <1>2, <1>3, <1>4, <1>5
<1> QED BY <1>2, <1>5, <1>6, <1>7, <1>8

LEMMA AccountedInit == Init => Accounted /\ Filled
<1> SUFFICES ASSUME Init PROVE Accounted /\ Filled
  OBVIOUS
<1>1. item \in Item /\ pc \in {"item", "comments"} /\ text = [p \in Parts |-> Nothing] /\ caveats = {}
      /\ answered = [p \in Parts |-> Unasked] /\ chosen = <<>> /\ used = 0 /\ unread = {}
  BY DEF Init
<1>2. \A p \in Fetched : Absent(p)
  BY <1>1 DEF Absent, Awaited, Fetched, Nothing
<1>3. text \in [Parts -> Part] /\ answered \in [Parts -> Int]
  BY <1>1 DEF Part, Nothing, Unasked
<1>4. Accounted
  BY <1>1, <1>2, <1>3 DEF Accounted, PartKnown, Selecting, Unread
<1>5. SizeOf(chosen) = 0 /\ Len(chosen) = 0
  BY <1>1, SizeType
<1>6. Types
  BY InitInv DEF IInv
<1>7. ASSUME NEW p \in Parts PROVE text[p].size <= Excess(p)
  <2>1. text[p].size = 0
    BY <1>1 DEF Nothing
  <2>2. opts.limit[p] \in Nat
    BY <1>6 DEF Types
  <2> QED BY <2>1, <2>2 DEF Excess
<1> QED BY <1>1, <1>4, <1>5, <1>7 DEF Filled

\* A part that a step leaves alone, and whose turn neither comes nor goes.
LEMMA PartStays ==
    ASSUME NEW p \in Parts, UNCHANGED <<opts, item>>, text'[p] = text[p], answered'[p] = answered[p],
           p \in caveats' <=> p \in caveats, Awaited(p)' = Awaited(p)
    PROVE  /\ Absent(p)' = Absent(p) /\ Excused(p)' = Excused(p) /\ Given(p)' = Given(p) /\ InHand(p)' = InHand(p)
<1>1. Asks(p)' = Asks(p)
  BY DEF Asks
<1> QED BY <1>1 DEF Absent, Excused, Given, InHand

\* The requests for comments and for files.
LEMMA FetchAccounted ==
    ASSUME Types, Accounted, NEW p \in {"comments", "files"}, NEW next,
           next = IF p = "comments" THEN "files" ELSE "diff", Fetch(p, next)
    PROVE  Accounted'
<1>1. /\ pc = p /\ pc' = next /\ UNCHANGED <<opts, item, selection, shown>>
      /\ \/ ~Asks(p) /\ UNCHANGED <<text, caveats, answered, unread>>
         \/ Unavailable(p) /\ UNCHANGED unread
         \/ \E n \in Lengths : /\ Answered(p, n) /\ text' = [text EXCEPT ![p] = Cut(p, n)]
                               /\ unread' = unread \/ (n > 0 /\ unread' = unread \cup {p})
  BY DEF Fetch
<1>2. /\ item \in Item /\ text \in [Parts -> Part] /\ caveats \subseteq Fetched /\ answered \in [Parts -> Int]
      /\ \A q \in Fetched : PartKnown(q) /\ (Awaited(q) => Absent(q))
      /\ p \in Fetched /\ Fetched \subseteq Parts
  BY DEF Accounted, Fetched, Parts
<1>3. Awaited(p) /\ ~Awaited(p)' /\ ~Selecting /\ ~Selecting'
  BY <1>1 DEF Awaited, Selecting
<1>4. Absent(p) /\ (Asks(p)' <=> Asks(p))
  BY <1>1, <1>2, <1>3 DEF Asks
<1>5. \A q \in Fetched \ {p} : Awaited(q)' = Awaited(q)
  BY <1>1 DEF Awaited, Fetched, Parts
<1>6. ASSUME PartKnown(p)', text' \in [Parts -> Part], answered' \in [Parts -> Int],
             \A q \in Parts \ {p} : text'[q] = text[q] /\ answered'[q] = answered[q],
             caveats' \in {caveats, caveats \cup {p}},
             unread' = unread \/ (unread' = unread \cup {p} /\ (Given(p) /\ answered[p] > 0)')
      PROVE  Accounted'
  <2>1. ASSUME NEW q \in Fetched PROVE PartKnown(q)' /\ (Awaited(q)' => Absent(q)')
    <3>1. CASE q = p
      BY <1>3, <1>6, <3>1
    <3>2. CASE q # p
      <4>1. Absent(q)' = Absent(q) /\ Excused(q)' = Excused(q) /\ Given(q)' = Given(q) /\ InHand(q)' = InHand(q)
        BY <1>1, <1>2, <1>5, <1>6, <3>2, PartStays
      <4>2. PartKnown(q) /\ (Awaited(q) => Absent(q)) /\ Awaited(q)' = Awaited(q)
        BY <1>2, <1>5, <3>2
      <4> QED BY <1>3, <4>1, <4>2 DEF PartKnown
    <3> QED BY <3>1, <3>2
  <2>2. item' \in Item /\ caveats' \subseteq Fetched /\ pc' # "done"
    BY <1>1, <1>2, <1>6
  <2>3. ASSUME NEW q \in unread PROVE (q \in Paged /\ Given(q) /\ answered[q] > 0)'
    <3>1. q \in Paged /\ Given(q) /\ answered[q] > 0 /\ q \in Fetched
      BY DEF Accounted, Unread, Paged, Fetched, Parts
    <3>2. q # p
      BY <1>4, <3>1 DEF Given, Absent
    <3>3. Given(q)' = Given(q)
      BY <1>1, <1>2, <1>5, <1>6, <3>1, <3>2, PartStays
    <3>4. answered'[q] = answered[q]
      BY <1>2, <1>6, <3>1, <3>2
    <3> QED BY <3>1, <3>3, <3>4 DEF Paged
  <2>4. Unread'
    BY <1>6, <2>3 DEF Unread, Paged
  <2> QED BY <1>3, <1>6, <2>1, <2>2, <2>4 DEF Accounted
<1>7. CASE ~Asks(p) /\ UNCHANGED <<text, caveats, answered, unread>>
  <2>1. Absent(p)'
    BY <1>4, <1>7 DEF Absent
  <2> QED BY <1>2, <1>6, <1>7, <2>1 DEF PartKnown
<1>8. CASE Unavailable(p) /\ UNCHANGED unread
  <2>1. Asks(p) /\ text' = text /\ answered' = [answered EXCEPT ![p] = Failed] /\ caveats' = caveats \cup {p}
    BY <1>8 DEF Unavailable
  <2>2. Excused(p)'
    BY <1>2, <1>4, <2>1 DEF Absent, Excused
  <2> QED BY <1>2, <1>6, <1>8, <2>1, <2>2 DEF PartKnown, Failed
<1>9. ASSUME NEW n \in Lengths, Answered(p, n), text' = [text EXCEPT ![p] = Cut(p, n)],
             unread' = unread \/ (n > 0 /\ unread' = unread \cup {p})
      PROVE  Accounted'
  <2>1. Asks(p) /\ answered' = [answered EXCEPT ![p] = n] /\ caveats' = caveats /\ n \in Nat
    BY <1>9, ContextAssumption DEF Answered
  <2>2. /\ Cut(p, n) \in Part
        /\ Cut(p, n).size > 0 <=> n > 0
        /\ Cut(p, n).cut \/ Cut(p, n).size = n
    BY <1>2, <2>1, PartCut
  <2>3. text'[p] = Cut(p, n) /\ answered'[p] = n
    BY <1>2, <1>9, <2>1
  <2>4. Given(p)'
    BY <1>4, <2>1, <2>2, <2>3 DEF Absent, Given
  <2>5. text' \in [Parts -> Part] /\ answered' \in [Parts -> Int]
    BY <1>2, <1>9, <2>1, <2>2
  <2>6. unread' = unread \/ (unread' = unread \cup {p} /\ (Given(p) /\ answered[p] > 0)')
    BY <1>9, <2>3, <2>4
  <2> QED BY <1>2, <1>6, <1>9, <2>1, <2>4, <2>5, <2>6 DEF PartKnown
<1> QED BY <1>1, <1>7, <1>8, <1>9

\* The request for the diff.
LEMMA DiffAccounted == ASSUME Types, Accounted, FetchDiff PROVE Accounted'
<1> DEFINE p == "diff"
<1>1. /\ pc = "diff" /\ pc' \in {"render", "rank"} /\ UNCHANGED <<opts, item, shown, unread>>
      /\ \/ ~Asks(p) /\ UNCHANGED <<text, caveats, answered>> /\ pc' = "render"
         \/ Unavailable(p) /\ pc' = "render"
         \/ \E d \in Diffs :
              /\ Answered(p, DiffLength(d))
              /\ \/ text' = [text EXCEPT !["diff"] = [size |-> DiffLength(d), cut |-> FALSE]] /\ pc' = "render"
                 \/ ~Fits(DiffLength(d), opts.limit["diff"]) /\ UNCHANGED text /\ pc' = "rank"
  BY DEF FetchDiff
<1>2. /\ item \in Item /\ text \in [Parts -> Part] /\ caveats \subseteq Fetched /\ answered \in [Parts -> Int]
      /\ \A q \in Fetched : PartKnown(q) /\ (Awaited(q) => Absent(q))
      /\ p \in Fetched /\ Fetched \subseteq Parts
  BY DEF Accounted, Fetched, Parts
<1>3. Awaited(p) /\ ~Awaited(p)' /\ ~Selecting /\ (Selecting' <=> pc' = "rank")
  BY <1>1 DEF Awaited, Selecting
<1>4. Absent(p) /\ (Asks(p)' <=> Asks(p))
  BY <1>1, <1>2, <1>3 DEF Asks
<1>5. \A q \in Fetched \ {p} : Awaited(q)' = Awaited(q)
  BY <1>1 DEF Awaited, Fetched, Parts
<1>6. ASSUME PartKnown(p)', pc' = "rank" => InHand(p)', text' \in [Parts -> Part], answered' \in [Parts -> Int],
             \A q \in Parts \ {p} : text'[q] = text[q] /\ answered'[q] = answered[q],
             caveats' \in {caveats, caveats \cup {p}}
      PROVE  Accounted'
  <2>1. ASSUME NEW q \in Fetched PROVE PartKnown(q)' /\ (Awaited(q)' => Absent(q)')
    <3>1. CASE q = p
      BY <1>3, <1>6, <3>1
    <3>2. CASE q # p
      <4>1. Absent(q)' = Absent(q) /\ Excused(q)' = Excused(q) /\ Given(q)' = Given(q) /\ InHand(q)' = InHand(q)
        BY <1>1, <1>2, <1>5, <1>6, <3>2, PartStays
      <4>2. PartKnown(q) /\ (Awaited(q) => Absent(q)) /\ Awaited(q)' = Awaited(q)
        BY <1>2, <1>5, <3>2
      <4> QED BY <3>2, <4>1, <4>2 DEF PartKnown
    <3> QED BY <3>1, <3>2
  <2>2. item' \in Item /\ caveats' \subseteq Fetched /\ pc' # "done"
    BY <1>1, <1>2, <1>6
  <2>3. ASSUME NEW q \in unread PROVE (q \in Paged /\ Given(q) /\ answered[q] > 0)'
    <3>1. q \in Paged /\ Given(q) /\ answered[q] > 0 /\ q \in Fetched \ {p}
      BY DEF Accounted, Unread, Paged, Fetched, Parts
    <3>2. Given(q)' = Given(q) /\ answered'[q] = answered[q]
      BY <1>1, <1>2, <1>5, <1>6, <3>1, PartStays
    <3> QED BY <3>1, <3>2 DEF Paged
  <2>4. Unread'
    BY <1>1, <2>3 DEF Unread, Paged
  <2> QED BY <1>3, <1>6, <2>1, <2>2, <2>4 DEF Accounted
<1>7. CASE ~Asks(p) /\ UNCHANGED <<text, caveats, answered>> /\ pc' = "render"
  <2>1. Absent(p)'
    BY <1>4, <1>7 DEF Absent
  <2> QED BY <1>2, <1>6, <1>7, <2>1 DEF PartKnown
<1>8. CASE Unavailable(p) /\ pc' = "render"
  <2>1. Asks(p) /\ text' = text /\ answered' = [answered EXCEPT ![p] = Failed] /\ caveats' = caveats \cup {p}
    BY <1>8 DEF Unavailable
  <2>2. Excused(p)'
    BY <1>2, <1>4, <2>1 DEF Absent, Excused
  <2> QED BY <1>2, <1>6, <1>8, <2>1, <2>2 DEF PartKnown, Failed
<1>9. ASSUME NEW d \in Diffs, Answered(p, DiffLength(d)),
             \/ text' = [text EXCEPT !["diff"] = [size |-> DiffLength(d), cut |-> FALSE]] /\ pc' = "render"
             \/ ~Fits(DiffLength(d), opts.limit["diff"]) /\ UNCHANGED text /\ pc' = "rank"
      PROVE Accounted'
  <2> DEFINE n == DiffLength(d)
  <2>1. n \in Nat
    BY DiffSize
  <2> HIDE DEF n
  <2>2. Asks(p) /\ answered' = [answered EXCEPT ![p] = n] /\ caveats' = caveats /\ p \notin caveats
    BY <1>4, <1>9 DEF Answered, Absent, n
  <2>3. answered' \in [Parts -> Int] /\ answered'[p] = n
    BY <1>2, <2>1, <2>2
  <2>4. CASE text' = [text EXCEPT !["diff"] = [size |-> n, cut |-> FALSE]] /\ pc' = "render"
    <3>1. text' \in [Parts -> Part] /\ text'[p].size = n
      BY <1>2, <2>1, <2>4 DEF Part
    <3>2. Given(p)'
      BY <1>4, <2>1, <2>2, <2>3, <3>1 DEF Given
    <3> QED BY <1>2, <1>6, <2>2, <2>3, <2>4, <3>1, <3>2 DEF PartKnown
  <2>5. CASE ~Fits(n, opts.limit["diff"]) /\ UNCHANGED text /\ pc' = "rank"
    <3>1. opts.limit["diff"] \in Nat
      BY DEF Types, Parts
    <3>2. n > 0
      BY <2>1, <2>5, <3>1 DEF Fits
    <3>3. InHand(p)'
      BY <1>4, <2>1, <2>2, <2>3, <3>2 DEF InHand
    <3> QED BY <1>2, <1>3, <1>6, <2>2, <2>3, <2>5, <3>3 DEF PartKnown
  <2> QED BY <1>9, <2>4, <2>5 DEF n
<1> QED BY <1>1, <1>7, <1>8, <1>9

\* The selection of files, and the item itself, change nothing of the parts.
LEMMA SelectAccounted ==
    ASSUME Accounted, FetchItem \/ Rank \/ Ranked \/ Choose \/ Chosen \/ Restore \/ UNCHANGED vars
    PROVE  Accounted'
<1>1. UNCHANGED <<opts, item, text, caveats, shown, answered, unread>>
  BY DEF FetchItem, Rank, Ranked, Choose, Chosen, Restore, vars
<1>2. \/ pc = "item" /\ pc' \in {"comments", "unavailable"}
      \/ pc \in {"rank", "choose", "restore"} /\ pc' \in {"rank", "choose", "restore"}
      \/ pc' = pc
  BY DEF FetchItem, Rank, Ranked, Choose, Chosen, Restore, vars
<1>3. Selecting' = Selecting /\ (pc' = "done" => pc = "done")
  BY <1>2 DEF Selecting
<1>4. ASSUME NEW p \in Parts PROVE Awaited(p)' = Awaited(p)
  BY <1>2 DEF Awaited
<1>5. \A p \in Parts : Absent(p)' = Absent(p) /\ Excused(p)' = Excused(p) /\ Given(p)' = Given(p) /\ InHand(p)' = InHand(p)
  BY <1>1, <1>4, PartStays
<1>6. \A p \in Fetched : (PartKnown(p) /\ (Awaited(p) => Absent(p)))'
  BY <1>3, <1>4, <1>5 DEF Accounted, PartKnown, Fetched
<1>7. (Selecting => InHand("diff"))'
  BY <1>3, <1>5 DEF Accounted, Parts
<1>8. (pc = "done" => Sections)'
  BY <1>1, <1>3 DEF Accounted, Sections
<1>9. Unread'
  <2> SUFFICES ASSUME NEW q \in unread PROVE (q \in Paged /\ Given(q) /\ answered[q] > 0)'
    BY <1>1 DEF Unread
  <2>1. q \in Paged /\ Given(q) /\ answered[q] > 0 /\ q \in Parts
    BY DEF Accounted, Unread, Paged, Parts
  <2> QED BY <1>1, <1>5, <2>1 DEF Paged
<1> QED BY <1>1, <1>6, <1>7, <1>8, <1>9 DEF Accounted

\* The excerpts and the line that names the length of the diff.
LEMMA AssembledSize == ASSUME Types, Filled, used <= DiffLimit + 57
    PROVE /\ Joined(chosen) + 65 + Digits(DiffLength(diff)) \in Nat \ {0}
          /\ Joined(chosen) + 65 + Digits(DiffLength(diff)) <= DiffLimit + 129
<1>1. Len(chosen) \in Nat /\ DOMAIN chosen = 1..Len(chosen) /\ \A k \in 1..Len(chosen) : chosen[k] \in Chunk
  BY LenProperties, ElementOfSeq DEF Types
<1>2. SizeOf(chosen) \in Nat
  BY <1>1, SizeType DEF Chunk
<1>3. Digits(DiffLength(diff)) \in 1..9
  BY DiffSize, DigitsBound DEF Types
<1>4. Joined(chosen) = SizeOf(chosen) + 2 * (Len(chosen) - 1)
  BY DEF Joined, SizeOf
<1>5. DiffLimit \in Nat
  BY DEF Types, DiffLimit, Parts
<1> DEFINE digits == Digits(DiffLength(diff))
<1> HIDE DEF digits, DiffLimit
<1>6. used = SizeOf(chosen) + 2 * Len(chosen) /\ used <= DiffLimit + 57
  BY DEF Filled
<1>7. digits \in 1..9
  BY <1>3 DEF digits
<1>8. Joined(chosen) + 65 + digits \in Nat \ {0} /\ Joined(chosen) + 65 + digits <= DiffLimit + 129
  BY <1>1, <1>2, <1>4, <1>5, <1>6, <1>7
<1> QED BY <1>8 DEF digits

\* The excerpts are put together.
LEMMA AssembleAccounted == ASSUME Types, Accounted, Filled, used <= DiffLimit + 57, Assemble PROVE Accounted'
<1> DEFINE n == Joined(chosen) + 65 + Digits(DiffLength(diff))
<1>1. /\ pc = "restore" /\ pc' = "render" /\ UNCHANGED <<opts, item, caveats, shown, answered, unread>>
      /\ text' = [text EXCEPT !["diff"] = [size |-> n, cut |-> TRUE]]
  BY DEF Assemble
<1>2. n \in Nat \ {0}
  BY AssembledSize
<1> HIDE DEF n
<1>3. text \in [Parts -> Part] /\ "diff" \in Fetched /\ Fetched \subseteq Parts
  BY DEF Accounted, Fetched, Parts
<1>4. text' \in [Parts -> Part] /\ text'["diff"] = [size |-> n, cut |-> TRUE]
      /\ \A p \in Parts \ {"diff"} : text'[p] = text[p]
  BY <1>1, <1>2, <1>3 DEF Part
<1>5. Selecting /\ ~Selecting' /\ \A p \in Parts : ~Awaited(p) /\ ~Awaited(p)' /\ Awaited(p)' = Awaited(p)
  BY <1>1 DEF Selecting, Awaited
<1>6. InHand("diff")
  BY <1>5 DEF Accounted
<1>7. Given("diff")'
  BY <1>1, <1>2, <1>4, <1>6 DEF Given, InHand, Asks
<1>8. ASSUME NEW p \in Fetched PROVE PartKnown(p)'
  <2>1. CASE p = "diff"
    BY <1>7, <2>1 DEF PartKnown
  <2>2. CASE p # "diff"
    <3>1. Absent(p)' = Absent(p) /\ Excused(p)' = Excused(p) /\ Given(p)' = Given(p)
      BY <1>1, <1>3, <1>4, <1>5, <2>2, PartStays
    <3>2. PartKnown(p)
      BY DEF Accounted
    <3> QED BY <2>2, <3>1, <3>2 DEF PartKnown
  <2> QED BY <2>1, <2>2
<1>9. item' \in Item /\ caveats' \subseteq Fetched /\ answered' \in [Parts -> Int] /\ pc' # "done"
  BY <1>1 DEF Accounted
<1>10. Unread'
  <2> SUFFICES ASSUME NEW q \in unread PROVE (q \in Paged /\ Given(q) /\ answered[q] > 0)'
    BY <1>1 DEF Unread
  <2>1. q \in Paged /\ Given(q) /\ answered[q] > 0 /\ q \in Parts \ {"diff"}
    BY DEF Accounted, Unread, Paged, Parts
  <2>2. Given(q)' = Given(q)
    BY <1>1, <1>4, <1>5, <2>1, PartStays
  <2> QED BY <1>1, <2>1, <2>2 DEF Paged
<1> QED BY <1>3, <1>4, <1>5, <1>8, <1>9, <1>10 DEF Accounted

\* The body is cut and the sections are written.
LEMMA RenderAccounted == ASSUME Types, Accounted, Render PROVE Accounted'
<1>1. /\ pc = "render" /\ pc' = "done" /\ UNCHANGED <<opts, item, caveats, answered, unread>>
      /\ text' = IF "body" \in opts.include THEN [text EXCEPT !["body"] = Cut("body", item.body)] ELSE text
      /\ shown' = (opts.include \cap {"body"}) \cup {p \in Fetched : text[p].size > 0}
  BY DEF Render, Fetched
<1>2. text \in [Parts -> Part] /\ "body" \in Parts /\ Fetched \subseteq Parts \ {"body"} /\ item.body \in Nat
  BY ContextAssumption DEF Accounted, Fetched, Parts, Item
<1>3. Cut("body", item.body) \in Part /\ (Cut("body", item.body).cut \/ Cut("body", item.body).size = item.body)
  BY <1>2, PartCut
<1>4. text' \in [Parts -> Part] /\ (\A p \in Fetched : text'[p] = text[p])
      /\ ("body" \in opts.include => text'["body"] = Cut("body", item.body))
  BY <1>1, <1>2, <1>3
<1>5. Sections'
  <2>1. {p \in Fetched : text[p].size > 0} = {p \in Fetched : text'[p].size > 0}
    BY <1>4
  <2> QED BY <1>1, <1>3, <1>4, <2>1 DEF Sections
<1>6. ~Selecting /\ ~Selecting' /\ \A p \in Fetched : ~Awaited(p) /\ ~Awaited(p)' /\ Awaited(p)' = Awaited(p)
  BY <1>1 DEF Selecting, Awaited
<1>7. ASSUME NEW p \in Fetched PROVE PartKnown(p)'
  <2>1. Absent(p)' = Absent(p) /\ Excused(p)' = Excused(p) /\ Given(p)' = Given(p)
    BY <1>1, <1>2, <1>4, <1>6, PartStays
  <2>2. PartKnown(p)
    BY DEF Accounted
  <2> QED BY <1>6, <2>1, <2>2 DEF PartKnown
<1>8. item' \in Item /\ caveats' \subseteq Fetched /\ answered' \in [Parts -> Int]
  BY <1>1 DEF Accounted
<1>9. Unread'
  <2> SUFFICES ASSUME NEW q \in unread PROVE (q \in Paged /\ Given(q) /\ answered[q] > 0)'
    BY <1>1 DEF Unread
  <2>1. q \in Paged /\ Given(q) /\ answered[q] > 0 /\ q \in Fetched
    BY DEF Accounted, Unread, Paged, Fetched, Parts
  <2>2. Given(q)' = Given(q)
    BY <1>1, <1>2, <1>4, <1>6, <2>1, PartStays
  <2> QED BY <1>1, <2>1, <2>2 DEF Paged
<1> QED BY <1>4, <1>5, <1>6, <1>7, <1>8, <1>9 DEF Accounted

LEMMA TakenType == ASSUME Types, used < DiffLimit, NEW chunk \in Chunk PROVE Taken(chunk) \in Nat
<1> DEFINE share == Share(DiffLimit, DiffLimit - used)
<1>1. DiffLimit \in Nat \ {0} /\ used \in Nat /\ chunk.length \in Nat
  BY DEF Types, DiffLimit, Parts, Chunk
<1> HIDE DEF DiffLimit
<1>2. share \in Nat \ {0}
  BY <1>1 DEF Share, Smaller, Larger
<1>3. Taken(chunk) = CutLength(chunk.length, share, 9)
  BY DEF Taken, Label, DiffLimit
<1> HIDE DEF share
<1> QED BY <1>1, <1>2, <1>3, CutKeeps

\* What the chosen chunks use, and the length of the diff's text.
LEMMA FilledStep == ASSUME IInv, Accounted, Filled, [Next]_vars PROVE Filled'
<1>1. /\ Types /\ used <= DiffLimit + 57 /\ DiffLimit \in Nat \ {0}
      /\ used = SizeOf(chosen) + 2 * Len(chosen)
      /\ pc \in {"render", "done"} => text["diff"].size <= DiffLimit + 129
      /\ text \in [Parts -> Part]
      /\ \A p \in Parts \ {"diff"} : text[p].size <= Excess(p)
  BY DEF IInv, Budget, Types, DiffLimit, Parts, Filled, Accounted
<1>2. UNCHANGED opts /\ DiffLimit' = DiffLimit /\ \A p \in Parts : Excess(p)' = Excess(p)
  BY DEF Next, FetchItem, FetchComments, FetchFiles, Fetch, FetchDiff, Rank, Ranked, Choose, Chosen, Restore,
         Assemble, Render, Ended, vars, DiffLimit, Excess
<1>3. ASSUME UNCHANGED <<chosen, used>>, pc' \in {"render", "done"} => text'["diff"].size <= DiffLimit + 129,
             \A p \in Parts \ {"diff"} : text'[p] = text[p] \/ text'[p].size <= Excess(p)
      PROVE Filled'
  BY <1>1, <1>2, <1>3 DEF Filled
<1>0. ASSUME FetchComments \/ FetchFiles PROVE Filled'
  <2>1. PICK p \in {"comments", "files"} :
          /\ UNCHANGED <<chosen, used>> /\ pc' \in {"files", "diff"}
          /\ text' = text \/ \E n \in Lengths : text' = [text EXCEPT ![p] = Cut(p, n)]
    BY <1>0 DEF FetchComments, FetchFiles, Fetch, Unavailable, selection
  <2>2. ASSUME NEW n \in Lengths, text' = [text EXCEPT ![p] = Cut(p, n)], NEW q \in Parts
        PROVE  text'[q] = text[q] \/ text'[q].size <= Excess(q)
    <3>1. p \in Parts /\ n \in Nat
      BY ContextAssumption DEF Parts
    <3>2. Cut(p, n).size <= Excess(p)
      BY <1>1, <3>1, PartCut
    <3>3. text'[p] = Cut(p, n) /\ (q # p => text'[q] = text[q])
      BY <1>1, <2>2, <3>1
    <3> QED BY <3>2, <3>3
  <2> QED BY <1>3, <2>1, <2>2
<1>4. ASSUME FetchItem \/ Rank \/ Ranked \/ Chosen \/ Ended \/ UNCHANGED vars PROVE Filled'
  <2>1. UNCHANGED <<chosen, used, text>> /\ (pc' \in {"render", "done"} => pc' = pc)
    BY <1>4 DEF FetchItem, Rank, Ranked, Chosen, Ended, vars, selection
  <2> QED BY <1>1, <1>3, <2>1
<1>5. CASE FetchDiff
  <2>1. /\ UNCHANGED <<chosen, used>> /\ pc = "diff"
        /\ \/ UNCHANGED text
           \/ \E d \in Diffs : /\ Fits(DiffLength(d), DiffLimit)
                               /\ text' = [text EXCEPT !["diff"] = [size |-> DiffLength(d), cut |-> FALSE]]
    BY <1>5 DEF FetchDiff, Unavailable, selection, DiffLimit
  <2>2. text["diff"].size = 0
    BY <2>1 DEF Accounted, Awaited, Absent, Fetched, Parts
  <2>3. CASE UNCHANGED text
    BY <1>1, <1>3, <2>1, <2>2, <2>3
  <2>4. ASSUME NEW d \in Diffs, Fits(DiffLength(d), DiffLimit),
               text' = [text EXCEPT !["diff"] = [size |-> DiffLength(d), cut |-> FALSE]]
        PROVE  Filled'
    <3>1. text'["diff"].size = DiffLength(d)
      BY <1>1, <2>4 DEF Parts
    <3>2. DiffLength(d) \in Nat /\ DiffLength(d) <= DiffLimit
      BY <1>1, <2>4, DiffSize DEF Fits
    <3> HIDE DEF DiffLimit
    <3>3. text'["diff"].size <= DiffLimit + 129
      BY <1>1, <3>1, <3>2
    <3>4. \A p \in Parts \ {"diff"} : text'[p] = text[p]
      BY <1>1, <2>4
    <3> QED BY <1>3, <2>1, <3>3, <3>4
  <2> QED BY <2>1, <2>3, <2>4
<1>6. CASE Choose
  <2> DEFINE size == Taken(list[at.i])
             more == [list[at.i] EXCEPT !.length = size]
  <2>1. /\ pc' = "choose" /\ UNCHANGED text /\ chosen' = Append(chosen, more) /\ used' = used + size + 2
        /\ at.i <= Len(list) /\ used < DiffLimit
    BY <1>6 DEF Choose, Room, DiffLimit
  <2>2. at.i \in 1..Len(list)
    BY <1>1, <2>1, LenProperties DEF Types
  <2>3. list[at.i] \in Chunk /\ chosen \in Seq(Chunk)
    BY <1>1, <2>2, ElementOfSeq DEF Types
  <2>4. size \in Nat
    BY <1>1, <2>1, <2>3, TakenType
  <2> HIDE DEF size
  <2>5. more \in Chunk /\ more.length = size
    BY <2>3, <2>4 DEF Chunk
  <2> HIDE DEF more
  <2>6. SizeOf(chosen') = SizeOf(chosen) + size /\ SizeOf(chosen) \in Nat
    BY <2>1, <2>3, <2>5, SizeAppend
  <2>7. Len(chosen') = Len(chosen) + 1 /\ Len(chosen) \in Nat
    BY <2>1, <2>3, <2>5, AppendProperties, LenProperties
  <2>8. used' = SizeOf(chosen') + 2 * Len(chosen')
    BY <1>1, <2>1, <2>4, <2>6, <2>7
  <2> QED BY <1>1, <1>2, <2>1, <2>8 DEF Filled
<1>7. CASE Restore
  <2>1. /\ pc = "restore" /\ pc' = "restore" /\ ~Sorted(chosen) /\ UNCHANGED <<used, text>>
        /\ chosen' = chosen \/ chosen' = Exchanged(chosen, at.i, at.j)
    BY <1>7 DEF Restore
  <2>2. chosen \in Seq(Chunk) /\ at.i \in 1..Len(chosen) /\ at.j \in 1..Len(chosen) /\ at.i # at.j
    <3>1. Loop(chosen) /\ Len(chosen) \in Nat /\ chosen \in Seq(Chunk)
      BY <1>1, <2>1, LenProperties DEF IInv, Restoring, Types
    <3> QED BY <2>1, <3>1 DEF Loop, Sorted
  <2>3. SizeOf(chosen') = SizeOf(chosen) /\ Len(chosen') = Len(chosen)
    BY <2>1, <2>2, SizeExchanged, ExchangedSeq
  <2> QED BY <1>1, <1>2, <2>1, <2>3 DEF Filled
<1>8. CASE Assemble
  <2>1. /\ UNCHANGED <<chosen, used>>
        /\ text' = [text EXCEPT !["diff"] = [size |-> Joined(chosen) + 65 + Digits(DiffLength(diff)), cut |-> TRUE]]
    BY <1>8 DEF Assemble, selection
  <2>2. text'["diff"].size = Joined(chosen) + 65 + Digits(DiffLength(diff))
    BY <1>1, <2>1 DEF Parts
  <2>3. \A p \in Parts \ {"diff"} : text'[p] = text[p]
    BY <1>1, <2>1
  <2> QED BY <1>1, <1>3, <2>1, <2>2, <2>3, AssembledSize
<1>9. CASE Render
  <2>1. /\ UNCHANGED <<chosen, used>> /\ pc = "render"
        /\ text' = text \/ text' = [text EXCEPT !["body"] = Cut("body", item.body)]
    BY <1>9 DEF Render, selection
  <2>2. text'["diff"] = text["diff"]
    BY <1>1, <2>1 DEF Parts
  <2>3. item.body \in Nat /\ "body" \in Parts
    BY ContextAssumption DEF Accounted, Item, Parts
  <2>4. Cut("body", item.body).size <= Excess("body")
    BY <1>1, <2>3, PartCut
  <2>5. ASSUME NEW p \in Parts PROVE text'[p] = text[p] \/ text'[p].size <= Excess(p)
    BY <1>1, <2>1, <2>3, <2>4
  <2> QED BY <1>1, <1>3, <2>1, <2>2, <2>5
<1> QED BY <1>0, <1>4, <1>5, <1>6, <1>7, <1>8, <1>9 DEF Next

LEMMA AccountedStep == ASSUME IInv, Accounted, Filled, [Next]_vars PROVE Accounted'
<1>1. Types /\ used <= DiffLimit + 57
  BY DEF IInv, Budget
<1>2. CASE FetchComments
  BY <1>1, <1>2, FetchAccounted DEF FetchComments
<1>3. CASE FetchFiles
  BY <1>1, <1>3, FetchAccounted DEF FetchFiles
<1>4. CASE FetchItem \/ Rank \/ Ranked \/ Choose \/ Chosen \/ Restore \/ Ended \/ UNCHANGED vars
  BY <1>4, SelectAccounted DEF Ended
<1> QED BY <1>1, <1>2, <1>3, <1>4, DiffAccounted, AssembleAccounted, RenderAccounted DEF Next

LEMMA Accounting == Spec => [](IInv /\ Accounted /\ Filled)
<1>1. Init => IInv /\ Accounted /\ Filled
  BY InitInv, AccountedInit
<1>2. IInv /\ Accounted /\ Filled /\ [Next]_vars => (IInv /\ Accounted /\ Filled)'
  BY NextInv, AccountedStep, FilledStep
<1> QED BY <1>1, <1>2, PTL DEF Spec

\* Whatever GitHub answers and whatever fails: the context is silent only about
\* the comments and files beyond the page that is read.
THEOREM OneSilentGap == Spec => []OnlyLaterPagesUnsaid
<1>1. IInv /\ Accounted => OnlyLaterPagesUnsaid
  <2> SUFFICES ASSUME IInv, Accounted, pc = "done" PROVE OnlyLaterPagesUnsaid
    BY DEF OnlyLaterPagesUnsaid
  <2>1. Sections /\ caveats \subseteq Fetched /\ text \in [Parts -> Part] /\ opts.include \subseteq Parts
    BY DEF Accounted, IInv, Types
  <2>2. ASSUME NEW p \in Fetched PROVE (Absent(p) /\ ~Asks(p)) \/ Excused(p) \/ Given(p)
    BY DEF Accounted, PartKnown, Absent, Awaited, Selecting
  <2>3. ASSUME NEW p \in opts.include \ {"body"}, item.known, item.pr \/ p = "comments"
        PROVE  \/ answered[p] = Failed /\ p \in caveats /\ p \notin shown
               \/ answered[p] = 0 /\ p \notin shown
               \/ /\ answered[p] > 0 /\ p \in shown /\ p \notin caveats
                  /\ text[p].cut \/ text[p].size = answered[p]
    <3>1. p \in Fetched /\ Asks(p)
      BY <2>1, <2>3 DEF Fetched, Asks
    <3>2. p \in shown <=> text[p].size > 0
      BY <2>1, <3>1 DEF Sections, Fetched
    <3>3. CASE Excused(p)
      BY <3>2, <3>3 DEF Excused
    <3>4. CASE Given(p)
      BY <3>2, <3>4 DEF Given
    <3> QED BY <2>2, <3>1, <3>3, <3>4
  <2>4. "body" \in opts.include => "body" \in shown /\ (text["body"].cut \/ text["body"].size = item.body)
    BY <2>1 DEF Sections
  <2>5. shown \cup caveats \subseteq opts.include
    <3>1. ASSUME NEW p \in Fetched, p \in caveats \/ text[p].size > 0 PROVE p \in opts.include
      <4>1. ~Absent(p)
        BY <3>1 DEF Absent
      <4>2. Asks(p)
        BY <2>2, <4>1 DEF Excused, Given
      <4> QED BY <4>2 DEF Asks
    <3> QED BY <2>1, <3>1 DEF Sections
  <2>6. unread \subseteq {"comments", "files"} \cap shown
    <3>1. ASSUME NEW p \in unread PROVE p \in Paged /\ p \in Fetched /\ text[p].size > 0
      BY DEF Accounted, Unread, Given, Paged, Fetched, Parts
    <3> QED BY <2>1, <3>1 DEF Sections, Paged
  <2> QED BY <2>3, <2>4, <2>5, <2>6 DEF OnlyLaterPagesUnsaid
<1> QED BY <1>1, Accounting, PTL

\* How far each text of the context may exceed its limit: those that are cut as
\* a whole, the excerpts of a diff, and the diff's text with its closing line.
THEOREM OverrunBound == Spec => []OverrunIsBounded
<1>1. IInv /\ Filled => OverrunIsBounded
  BY DEF IInv, Budget, Filled, OverrunIsBounded, DiffLimit, Excess
<1> QED BY <1>1, Accounting, PTL
=============================================================================
