---------------------------- MODULE ContextBudget ----------------------------
(***************************************************************************)
(* The context of an item that localpager writes into the classifier's     *)
(* prompt (internal/localpager/context.go): what GitHub is asked for, what *)
(* happens when it does not answer, and how each text is cut to its limit. *)
(* A text is its length in bytes; of a diff, the length and the score of   *)
(* every file's part are kept.  GitHub is external.                        *)
(***************************************************************************)
EXTENDS TextCut, Sequences, FiniteSets, Functions

CONSTANTS
    Options,        \* the parts asked for and their limits, as configured
    Lengths,        \* lengths of bodies, joined comments and lists of files
    ChunkLengths,   \* lengths of one file's part of a diff
    Scores,         \* scores of one file's part of a diff
    MaxChunks       \* bound on the files of a diff

Parts == {"body", "comments", "files", "diff"}

ASSUME ContextAssumption ==
    /\ Options \subseteq [include: SUBSET Parts, limit: [Parts -> Int]]
    /\ Lengths \subseteq Nat
    /\ ChunkLengths \subseteq Nat \ {0}
    /\ Scores \subseteq Nat
    /\ MaxChunks \in Nat

VARIABLES
    opts,       \* the normalized options
    item,       \* the item's type, whether repository and number are known, its body
    pc,         \* how far renderClassifierContext has come
    text,       \* each part's text as it goes into the context
    caveats,    \* the parts that could not be fetched
    diff,       \* the diff GitHub returned, one chunk for each file
    list,       \* the scored chunks: sorted, then taken from the front
    chosen,     \* the chunks selected for the context
    at,         \* indices of the loop that runs
    used,       \* bytes of the diff's limit that are used
    shown,      \* the parts that have a section in the finished context
    answered,   \* history: the length GitHub gave of each part
    unread      \* history: the parts of which GitHub has pages that were not read

vars == <<opts, item, pc, text, caveats, diff, list, chosen, at, used, shown, answered, unread>>
selection == <<diff, list, chosen, at, used>>
-----------------------------------------------------------------------------
Failed == -1
Unasked == -2

Pcs == {"item", "comments", "files", "diff", "rank", "choose", "restore", "render", "done", "unavailable"}

Item == [pr: BOOLEAN, known: BOOLEAN, body: Lengths]
Part == [size: Nat, cut: BOOLEAN]
Chunk == [index: Nat \ {0}, length: Nat, score: Nat]
Diffs == UNION {[1..n -> [length: ChunkLengths, score: Scores]] : n \in 0..MaxChunks}

Nothing == [size |-> 0, cut |-> FALSE]
Start == [i |-> 1, j |-> 2]

\* The file parts of a diff are separated by one line feed.
DiffLength(d) == IF d = <<>> THEN 0
                 ELSE SumFunction([k \in DOMAIN d |-> d[k].length]) + Len(d) - 1

Defaults == [body |-> 2500, comments |-> 1500, files |-> 2000, diff |-> 5000]

\* A limit that is not positive means the default one.
Normalized(o) == [o EXCEPT !.limit = [p \in Parts |-> IF @[p] <= 0 THEN Defaults[p] ELSE @[p]]]

\* The worker has the item; the render-context command fetches it first.
Init ==
    /\ opts \in {Normalized(o) : o \in Options}
    /\ item \in Item
    /\ pc \in {"item", "comments"}
    /\ pc = "item" => item.known
    /\ text = [p \in Parts |-> Nothing]
    /\ caveats = {}
    /\ diff = <<>> /\ list = <<>> /\ chosen = <<>>
    /\ at = Start /\ used = 0
    /\ shown = {}
    /\ answered = [p \in Parts |-> Unasked]
    /\ unread = {}
-----------------------------------------------------------------------------
(* What GitHub is asked for *)

Asks(p) ==
    /\ p \in opts.include
    /\ item.known
    /\ p \in {"files", "diff"} => item.pr

Label(p) == CASE p = "body" -> 4 [] p = "comments" -> 16 [] p = "files" -> 13 [] OTHER -> 9

Cut(p, length) == [size |-> CutLength(length, opts.limit[p], Label(p)),
                   cut |-> ~Fits(length, opts.limit[p])]

\* Faulty variant: the error is dropped.
UnavailableUnsaid(p) ==
    /\ Asks(p)
    /\ answered' = [answered EXCEPT ![p] = Failed]
    /\ UNCHANGED <<text, caveats>>

\* Any error becomes a caveat: the context is rendered without the part.
Unavailable(p) ==
    /\ Asks(p)
    /\ answered' = [answered EXCEPT ![p] = Failed]
    /\ caveats' = caveats \cup {p}
    /\ UNCHANGED text

Answered(p, length) ==
    /\ Asks(p)
    /\ answered' = [answered EXCEPT ![p] = length]
    /\ UNCHANGED caveats

\* githubComments and githubChangedFiles: one page of 100 is read, joined and
\* cut.  Whether GitHub has more, nobody asks; a page with a successor is full.
Fetch(p, next) ==
    /\ pc = p
    /\ pc' = next
    /\ \/ ~Asks(p) /\ UNCHANGED <<text, caveats, answered, unread>>
       \/ Unavailable(p) /\ UNCHANGED unread
       \/ \E n \in Lengths :
            /\ Answered(p, n) /\ text' = [text EXCEPT ![p] = Cut(p, n)]
            /\ unread' = unread \/ (n > 0 /\ unread' = unread \cup {p})
    /\ UNCHANGED <<opts, item, selection, shown>>

FetchComments == Fetch("comments", "files")
FetchFiles == Fetch("files", "diff")

\* RenderGitHubTargetContext: without the item there is no context.
FetchItem ==
    /\ pc = "item"
    /\ pc' \in {"comments", "unavailable"}
    /\ UNCHANGED <<opts, item, text, caveats, selection, shown, answered, unread>>
-----------------------------------------------------------------------------
(* githubDiff and selectDiff *)

Scored(d) == [k \in DOMAIN d |-> [index |-> k, length |-> d[k].length, score |-> d[k].score]]

FetchDiff ==
    /\ pc = "diff"
    /\ \/ ~Asks("diff") /\ pc' = "render" /\ UNCHANGED <<text, caveats, answered, selection>>
       \/ Unavailable("diff") /\ pc' = "render" /\ UNCHANGED selection
       \/ \E d \in Diffs :
            /\ Answered("diff", DiffLength(d))
            /\ diff' = d
            /\ \/ /\ Fits(DiffLength(d), opts.limit["diff"])
                  /\ text' = [text EXCEPT !["diff"] = [size |-> DiffLength(d), cut |-> FALSE]]
                  /\ pc' = "render"
                  /\ UNCHANGED list
               \/ /\ ~Fits(DiffLength(d), opts.limit["diff"])
                  /\ list' = Scored(d)
                  /\ pc' = "rank"
                  /\ UNCHANGED text
            /\ UNCHANGED <<chosen, at, used>>
    /\ UNCHANGED <<opts, item, shown, unread>>

\* Faulty variant: equal scores keep no order.
HigherScore(a, b) == a.score > b.score

\* The higher score first, and of equal scores the earlier file.
Better(a, b) == a.score > b.score \/ (a.score = b.score /\ a.index < b.index)

Earlier(a, b) == a.index < b.index

Exchanged(s, i, j) == [s EXCEPT ![i] = s[j], ![j] = s[i]]

\* One comparison of the exchange sort: the next pair, or the next i.
Following(n) == IF at.j < n THEN [at EXCEPT !.j = @ + 1] ELSE [i |-> at.i + 1, j |-> at.i + 2]

Sorted(s) == at.i >= Len(s)

Rank ==
    /\ pc = "rank" /\ ~Sorted(list)
    /\ list' = IF Better(list[at.j], list[at.i]) THEN Exchanged(list, at.i, at.j) ELSE list
    /\ at' = Following(Len(list))
    /\ UNCHANGED <<opts, item, pc, text, caveats, diff, chosen, used, shown, answered, unread>>

Ranked ==
    /\ pc = "rank" /\ Sorted(list)
    /\ pc' = "choose"
    /\ at' = Start
    /\ UNCHANGED <<opts, item, text, caveats, diff, list, chosen, used, shown, answered, unread>>

Smaller(a, b) == IF a < b THEN a ELSE b
Larger(a, b) == IF a > b THEN a ELSE b

\* Faulty variant: one file may take all that remains.
ShareAll(limit, remaining) == remaining

\* A file gets at most a quarter of the limit, but 2400 bytes where they remain.
Share(limit, remaining) == Smaller(remaining, Larger(2400, limit \div 4))

\* Faulty variant: the loop runs over all chunks.
RoomAlways == at.i <= Len(list)

\* There is a chunk left, and room for a part of it.
Room == at.i <= Len(list) /\ used < opts.limit["diff"]

Taken(chunk) == CutLength(chunk.length, Share(opts.limit["diff"], opts.limit["diff"] - used), Label("diff"))

Choose ==
    /\ pc = "choose" /\ Room
    /\ chosen' = Append(chosen, [list[at.i] EXCEPT !.length = Taken(list[at.i])])
    /\ used' = used + Taken(list[at.i]) + 2
    /\ at' = [at EXCEPT !.i = @ + 1]
    /\ UNCHANGED <<opts, item, pc, text, caveats, diff, list, shown, answered, unread>>

Chosen ==
    /\ pc = "choose" /\ ~Room
    /\ pc' = "restore"
    /\ at' = Start
    /\ UNCHANGED <<opts, item, text, caveats, diff, list, chosen, used, shown, answered, unread>>

\* The selected chunks go back into the order of the diff.
Restore ==
    /\ pc = "restore" /\ ~Sorted(chosen)
    /\ chosen' = IF Earlier(chosen[at.j], chosen[at.i]) THEN Exchanged(chosen, at.i, at.j) ELSE chosen
    /\ at' = Following(Len(chosen))
    /\ UNCHANGED <<opts, item, pc, text, caveats, diff, list, used, shown, answered, unread>>

\* "\n\n[diff truncated from <n> characters to selected relevant excerpts]"
Joined(s) == SumFunction([k \in DOMAIN s |-> s[k].length]) + 2 * (Len(s) - 1)

Assemble ==
    /\ pc = "restore" /\ Sorted(chosen)
    /\ text' = [text EXCEPT !["diff"] =
                 [size |-> Joined(chosen) + 65 + Digits(DiffLength(diff)), cut |-> TRUE]]
    /\ pc' = "render"
    /\ UNCHANGED <<opts, item, caveats, selection, shown, answered, unread>>

\* The body is cut, and every part that has a text gets its section.
Render ==
    /\ pc = "render"
    /\ text' = IF "body" \in opts.include THEN [text EXCEPT !["body"] = Cut("body", item.body)] ELSE text
    /\ shown' = (opts.include \cap {"body"}) \cup {p \in Parts \ {"body"} : text[p].size > 0}
    /\ pc' = "done"
    /\ UNCHANGED <<opts, item, caveats, selection, answered, unread>>

Ended == pc \in {"done", "unavailable"} /\ UNCHANGED vars

Next == FetchItem \/ FetchComments \/ FetchFiles \/ FetchDiff \/ Rank \/ Ranked
        \/ Choose \/ Chosen \/ Restore \/ Assemble \/ Render \/ Ended

Spec == Init /\ [][Next]_vars
-----------------------------------------------------------------------------
TypeOK ==
    /\ opts \in [include: SUBSET Parts, limit: [Parts -> Nat \ {0}]]
    /\ item \in Item /\ pc \in Pcs
    /\ text \in [Parts -> Part] /\ caveats \subseteq Parts /\ shown \subseteq Parts
    /\ list \in Seq(Chunk) /\ chosen \in Seq(Chunk)
    /\ at \in [i: Nat \ {0}, j: Nat \ {0}] /\ used \in Nat /\ unread \subseteq Parts

\* A finished context is silent about one gap alone, the comments and files
\* beyond the page that is read.  Each part the options ask for, and this item
\* can have, is shown as GitHub answered, or shown and marked as cut, or was
\* answered with nothing, or its failure is one of the caveats; caveats are
\* never about a part that is there.
OnlyLaterPagesUnsaid == pc = "done" =>
    /\ \A p \in opts.include \ {"body"} : item.known /\ (item.pr \/ p = "comments") =>
         \/ answered[p] = Failed /\ p \in caveats /\ p \notin shown
         \/ answered[p] = 0 /\ p \notin shown
         \/ /\ answered[p] > 0 /\ p \in shown /\ p \notin caveats
            /\ text[p].cut \/ text[p].size = answered[p]
    /\ "body" \in opts.include => "body" \in shown /\ (text["body"].cut \/ text["body"].size = item.body)
    /\ unread \subseteq {"comments", "files"} \cap shown
    /\ shown \cup caveats \subseteq opts.include

Indices(s) == {s[k].index : k \in DOMAIN s}

\* Of a diff that is too long, the files with the highest scores are shown, the
\* earlier file before a later one of equal score; they stand in the order of
\* the diff, and a file is left out only if the limit is used up.
BestFilesShown == pc = "render" /\ chosen # <<>> =>
    /\ \A k, l \in DOMAIN chosen : k < l => chosen[k].index < chosen[l].index
    /\ \A c \in DOMAIN diff \ Indices(chosen) :
         /\ used >= opts.limit["diff"]
         /\ \A b \in Indices(chosen) :
              diff[b].score > diff[c].score \/ (diff[b].score = diff[c].score /\ b < c)

\* No file crowds out the others: of as many files as fit the limit with 2400
\* bytes or a quarter of the limit each, every one is shown.
ManyFilesShown == pc = "render" /\ chosen # <<>> =>
    LET share == Larger(2400, opts.limit["diff"] \div 4) + 2
    IN Len(chosen) >= Smaller(Len(diff), (opts.limit["diff"] + share - 1) \div share)

\* A text that is cut keeps to a limit of 400 bytes or more, and exceeds a
\* smaller one by at most 62.  The excerpts of a diff exceed its limit by at most
\* 57 bytes, and with the line that names the diff's length by at most 129.
OverrunIsBounded ==
    /\ \A p \in Parts \ {"diff"} :
         text[p].size <= opts.limit[p] + (IF opts.limit[p] < 400 THEN 62 ELSE 0)
    /\ used <= opts.limit["diff"] + 57
    /\ pc = "render" => text["diff"].size <= opts.limit["diff"] + 129
=============================================================================
