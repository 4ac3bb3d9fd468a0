---------------------------- MODULE AgentAnswer -----------------------------
(***************************************************************************)
(* How a run of localpager-agent gets its final answer: it launches pi,    *)
(* reads what the final_json tool has written, and when nothing was        *)
(* written looks for an answer in the newest session file and launches pi  *)
(* once more.  Runs meet in the session directory: each has its own under  *)
(* scripts/localpager-classifier, all share one by default.                *)
(***************************************************************************)
EXTENDS Integers

CONSTANTS
    Runs,
    Dirs,       \* session directories
    MaxTime,    \* bound on the clock, in seconds
    NoPayload   \* no JSON object in any text

ASSUME AnswerAssumption ==
    /\ NoPayload \notin Runs
    /\ MaxTime \in Nat

VARIABLES
    now,        \* Date.now(), and the file system's clock
    dir,        \* options.sessionDir of each run
    run,        \* what each run is doing
    file,       \* session files
    output,     \* the file final_json writes, in a directory of the run's own
    wrote,      \* history: when each run's pi last wrote to a session
    submitted   \* history: what each run's pi gave to final_json

vars == <<now, dir, run, file, output, wrote, submitted>>
-----------------------------------------------------------------------------
\* An answer is named for the run whose prompt it answers.
Payloads == Runs \cup {NoPayload}

\* A launch that is not given a session makes a file of its own.
Sessions == Runs \X {1, 2}

DirOf(s) == dir[s[1]]

Times == -1..MaxTime

Never == -1

Live == {"asking", "replaying", "retrying"}

Pcs == Live \cup {"idle", "reading", "searching", "picked", "rereading", "printed", "failed"}

Run == [pc: Pcs, started: Times, session: Sessions, payload: Payloads, answer: Payloads]

\* pi creates a session file when it has something to write; until then the
\* file does not exist (Never).
Init ==
    /\ now = 0
    /\ dir \in [Runs -> Dirs]
    /\ run = [r \in Runs |-> [pc |-> "idle", started |-> Never, session |-> <<r, 1>>,
                              payload |-> NoPayload, answer |-> NoPayload]]
    /\ file = [s \in Sessions |-> [mtime |-> Never, text |-> NoPayload]]
    /\ output = [r \in Runs |-> NoPayload]
    /\ wrote = [r \in Runs |-> Never]
    /\ submitted = [r \in Runs |-> {}]

Unwritten == UNCHANGED <<file, output, wrote, submitted>>

Goes(r, pc) == run' = [run EXCEPT ![r].pc = pc]

\* createFinalSchemaRuntime makes the output's directory; then the first launch.
Begin(r) ==
    /\ run[r].pc = "idle"
    /\ run' = [run EXCEPT ![r].pc = "asking", ![r].started = now]
    /\ UNCHANGED <<now, dir>>
    /\ Unwritten
-----------------------------------------------------------------------------
(* pi and the model behind it, which may write, submit and stop as they like.
   A launch that replays an answer is told to submit exactly that answer. *)

Subject(r) == IF run[r].pc = "replaying" THEN run[r].payload ELSE r

\* The session gains a message; a text with an answer in it is found before
\* older ones, for the search goes from the last line back.
Appended(r, text) ==
    /\ file' = [file EXCEPT ![run[r].session] =
                    [mtime |-> now, text |-> IF text = NoPayload THEN @.text ELSE text]]
    /\ wrote' = [wrote EXCEPT ![r] = now]

Writes(r) ==
    /\ run[r].pc \in Live
    /\ \E text \in {NoPayload, Subject(r)} : Appended(r, text)
    /\ UNCHANGED <<now, dir, run, output, submitted>>

Submits(r) ==
    /\ run[r].pc \in Live
    /\ output' = [output EXCEPT ![r] = Subject(r)]
    /\ submitted' = [submitted EXCEPT ![r] = @ \cup {Subject(r)}]
    /\ Appended(r, NoPayload)
    /\ UNCHANGED <<now, dir, run>>

Exits(r) ==
    /\ run[r].pc \in Live
    /\ Goes(r, IF run[r].pc = "asking" THEN "reading" ELSE "rereading")
    /\ UNCHANGED <<now, dir>>
    /\ Unwritten

\* pi exits with an error or by a signal, a file cannot be read, or the worker
\* kills the whole group when the lease ends: nothing is printed, whatever was
\* submitted.
Fails(r) ==
    /\ run[r].pc \notin {"idle", "printed", "failed"}
    /\ Goes(r, "failed")
    /\ UNCHANGED <<now, dir>>
    /\ Unwritten
-----------------------------------------------------------------------------
(* readFinalSchemaResult and recoverFinalSchemaResult. *)

Printed(r, answer) == run' = [run EXCEPT ![r].pc = "printed", ![r].answer = answer]

ReadOutput(r) ==
    /\ run[r].pc = "reading"
    /\ IF output[r] = NoPayload THEN Goes(r, "searching") ELSE Printed(r, output[r])
    /\ UNCHANGED <<now, dir>>
    /\ Unwritten

\* Faulty variant: any session of the directory, however old.
RecentEver(r, s) == file[s].mtime # Never

\* mtimeMs >= sinceMs - 1000
Recent(r, s) == file[s].mtime # Never /\ file[s].mtime >= run[r].started - 1

Candidates(r) == {s \in Sessions : DirOf(s) = dir[r] /\ Recent(r, s)}

Newest(r) == {s \in Candidates(r) : \A t \in Candidates(r) : file[t].mtime <= file[s].mtime}

Retry(r) == run' = [run EXCEPT ![r].pc = "retrying", ![r].session = <<r, 2>>]

\* newestSessionPath: without a session the prompt is put again.
Pick(r) ==
    /\ run[r].pc = "searching"
    /\ \/ Newest(r) = {} /\ Retry(r)
       \/ \E s \in Newest(r) : run' = [run EXCEPT ![r].pc = "picked", ![r].session = s]
    /\ UNCHANGED <<now, dir>>
    /\ Unwritten

\* readSessionRecoveryPayload: by now the file may say more than when it was
\* picked.
Recover(r) ==
    /\ run[r].pc = "picked"
    /\ LET text == file[run[r].session].text IN
       IF text = NoPayload
       THEN Retry(r)
       ELSE run' = [run EXCEPT ![r].pc = "replaying", ![r].payload = text]
    /\ UNCHANGED <<now, dir>>
    /\ Unwritten

\* Faulty variant: what was found in the session will do.
SecondReadingFromText(r) == IF output[r] = NoPayload THEN run[r].payload ELSE output[r]

\* What the second launch has submitted; there is no third.
SecondReading(r) == output[r]

ReadAgain(r) ==
    /\ run[r].pc = "rereading"
    /\ IF SecondReading(r) = NoPayload THEN Goes(r, "failed") ELSE Printed(r, SecondReading(r))
    /\ UNCHANGED <<now, dir>>
    /\ Unwritten
-----------------------------------------------------------------------------
Tick ==
    /\ now < MaxTime
    /\ now' = now + 1
    /\ UNCHANGED <<dir, run>>
    /\ Unwritten

Next ==
    \/ \E r \in Runs :
        \/ Begin(r) \/ Writes(r) \/ Submits(r) \/ Exits(r) \/ Fails(r)
        \/ ReadOutput(r) \/ Pick(r) \/ Recover(r) \/ ReadAgain(r)
    \/ Tick

Spec == Init /\ [][Next]_vars
-----------------------------------------------------------------------------
TypeOK ==
    /\ now \in Times
    /\ dir \in [Runs -> Dirs]
    /\ run \in [Runs -> Run]
    /\ file \in [Sessions -> [mtime: Times, text: Payloads]]
    /\ output \in [Runs -> Payloads]
    /\ wrote \in [Runs -> Times]
    /\ submitted \in [Runs -> SUBSET Runs]

\* A run prints another run's answer only when the two share a session
\* directory and some other run's pi wrote there since a second before this
\* run began.  Under the classifier's wrapper, where every run has a directory
\* of its own, each answers for itself.
ForeignAnswersHaveCauses ==
    \A r \in Runs :
        run[r].pc = "printed" /\ run[r].answer # r =>
            /\ dir[run[r].answer] = dir[r]
            /\ \E q \in Runs \ {r} :
                /\ dir[q] = dir[r]
                /\ wrote[q] # Never
                /\ wrote[q] >= run[r].started - 1

\* What a run prints went through its own pi's final_json, which checks it
\* against the schema: an answer found in a session is never printed as such.
PrintedWasSubmitted ==
    \A r \in Runs : run[r].pc = "printed" => run[r].answer \in submitted[r]
=============================================================================
