------------------------- MODULE AgentAnswerProofs --------------------------
(***************************************************************************)
(* Whose answer a run of localpager-agent prints, for any number of runs   *)
(* that share session directories in any way.                              *)
(***************************************************************************)
EXTENDS AgentAnswer, TLAPS

\* The clock only moves on.
Clocked ==
    /\ \A r \in Runs : wrote[r] <= now /\ run[r].started <= now
    /\ \A s \in Sessions : file[s].mtime <= now

\* A session holds answers of the run whose launch made it, whoever writes.
Texts == \A s \in Sessions : file[s].text \in {NoPayload, s[1]}

Early == {"idle", "asking", "reading", "searching"}

\* A run stays with its first session until it picks one, in its directory.
Places ==
    \A r \in Runs :
        /\ run[r].pc \in Early => run[r].session = <<r, 1>>
        /\ run[r].pc = "retrying" => run[r].session = <<r, 2>>
        /\ dir[run[r].session[1]] = dir[r]

\* Somebody known wrote last to each session: the run that made it, or one
\* that is launched with it.
LastWriter(x, s) ==
    /\ x = s[1] \/ (run[x].session = s /\ run[x].pc # "picked")
    /\ wrote[x] >= file[s].mtime

Writers == \A s \in Sessions : file[s].mtime # Never => \E x \in Runs : LastWriter(x, s)

Cause(r) ==
    \E q \in Runs \ {r} : dir[q] = dir[r] /\ wrote[q] # Never /\ wrote[q] >= run[r].started - 1

Caused == \A r \in Runs : run[r].session[1] # r => Cause(r)

\* What a run is told to submit, submits and prints is its own answer or that
\* of the run whose session it has picked.
Answers ==
    \A r \in Runs :
        /\ run[r].pc = "replaying" => run[r].payload = run[r].session[1]
        /\ run[r].pc \in {"idle", "searching", "picked"} => output[r] = NoPayload
        /\ output[r] \in {NoPayload, r, run[r].session[1]}
        /\ output[r] # NoPayload => output[r] \in submitted[r]
        /\ run[r].pc = "printed" => run[r].answer = output[r] /\ output[r] # NoPayload

IInv == TypeOK /\ Clocked /\ Texts /\ Places /\ Writers /\ Caused /\ Answers

LEMMA InitInv == Init => IInv
<1> USE AnswerAssumption
<1> SUFFICES ASSUME Init PROVE IInv
    OBVIOUS
<1>1. TypeOK
    BY DEF Init, TypeOK, Times, Run, Sessions, Payloads, Pcs, Live, Never
<1>2. Clocked /\ Texts /\ Places /\ Writers /\ Caused /\ Answers
    BY DEF Init, Clocked, Texts, Places, Writers, Caused, Answers, Early, Sessions, Never
<1> QED
    BY <1>1, <1>2 DEF IInv

-----------------------------------------------------------------------------
(* Steps of the agent, which leave the files alone. *)

\* What must hold of r's new state n for the invariant to survive.
Fits(r, n) ==
    /\ n \in Run
    /\ n.started <= now
    /\ n.pc \in Early => n.session = <<r, 1>>
    /\ n.pc = "retrying" => n.session = <<r, 2>>
    /\ dir[n.session[1]] = dir[r]
    /\ \/ n.session = run[r].session /\ (n.pc = "picked" => run[r].pc = "picked")
       \/ run[r].session[1] = r
       \/ run[r].pc = "picked"
    /\ n.session[1] # r => n.started = run[r].started /\ Cause(r)
    /\ n.pc = "replaying" => n.payload = n.session[1]
    /\ n.pc \in {"idle", "searching", "picked"} => output[r] = NoPayload
    /\ output[r] \in {NoPayload, r, n.session[1]}
    /\ n.pc = "printed" => n.answer = output[r] /\ output[r] # NoPayload

LEMMA RunStep ==
    ASSUME IInv, NEW r \in Runs, NEW n, Fits(r, n), run' = [run EXCEPT ![r] = n],
           UNCHANGED <<now, dir, file, output, wrote, submitted>>
    PROVE  IInv'
<1> USE AnswerAssumption
<1>1. run'[r] = n /\ \A q \in Runs \ {r} : run'[q] = run[q]
    BY DEF IInv, TypeOK
<1>2. TypeOK'
    BY DEF IInv, TypeOK, Fits
<1>3. Clocked' /\ Texts'
    BY <1>1 DEF IInv, Clocked, Texts, Fits
<1>4. Places'
    BY <1>1 DEF IInv, Places, Fits
<1>5. Writers'
    <2>1. SUFFICES ASSUME NEW t \in Sessions, file'[t].mtime # Never
                   PROVE  \E x \in Runs : LastWriter(x, t)'
        BY DEF Writers
    <2>2. PICK x \in Runs : LastWriter(x, t)
        BY <2>1 DEF IInv, Writers
    <2>3. CASE x = t[1]
        BY <2>2, <2>3 DEF LastWriter
    <2>4. CASE x # t[1] /\ x # r
        BY <1>1, <2>2, <2>4 DEF LastWriter
    <2>5. CASE x # t[1] /\ x = r
        <3>1. run[r].session = t /\ run[r].pc # "picked"
            BY <2>2, <2>5 DEF LastWriter
        <3>2. n.session = t /\ n.pc # "picked"
            BY <2>5, <3>1 DEF Fits
        <3>3. LastWriter(r, t)'
            BY <1>1, <2>2, <2>5, <3>2 DEF LastWriter
        <3> QED
            BY <3>3
    <2> QED
        BY <2>3, <2>4, <2>5
<1>6. Caused'
    BY <1>1 DEF IInv, Caused, Cause, Fits
<1>7. Answers'
    BY <1>1 DEF IInv, Answers, Fits
<1> QED
    BY <1>2, <1>3, <1>4, <1>5, <1>6, <1>7 DEF IInv

\* What the invariant says of one run.
LEMMA RunIs ==
    ASSUME IInv, NEW r \in Runs
    PROVE  /\ run[r] \in Run /\ run[r].started <= now /\ now \in Times
           /\ run[r].pc \in Early => run[r].session = <<r, 1>>
           /\ run[r].pc = "retrying" => run[r].session = <<r, 2>>
           /\ dir[run[r].session[1]] = dir[r]
           /\ run[r].session[1] # r => Cause(r)
           /\ run[r].pc = "replaying" => run[r].payload = run[r].session[1]
           /\ run[r].pc \in {"idle", "searching", "picked"} => output[r] = NoPayload
           /\ output[r] \in {NoPayload, r, run[r].session[1]}
           /\ output[r] \in Payloads
<1> QED
    BY DEF IInv, TypeOK, Clocked, Places, Caused, Answers

LEMMA BeginInv ==
    ASSUME IInv, NEW r \in Runs, Begin(r)
    PROVE  IInv'
<1> DEFINE n == [run[r] EXCEPT !.pc = "asking", !.started = now]
<1>1. run' = [run EXCEPT ![r] = n] /\ UNCHANGED <<now, dir, file, output, wrote, submitted>>
    BY DEF Begin, Unwritten
<1>2. n \in Run /\ n.pc = "asking" /\ n.started = now /\ n.session = <<r, 1>>
    BY RunIs DEF Begin, Run, Pcs, Live, Early
<1>3. now <= now
    BY RunIs DEF Times, Never
<1>4. Fits(r, n)
    BY <1>2, <1>3, RunIs DEF Begin, Fits, Early
<1> HIDE DEF n
<1> QED
    BY <1>1, <1>4, RunStep

LEMMA PcInv ==
    ASSUME IInv, NEW r \in Runs, Exits(r) \/ Fails(r)
    PROVE  IInv'
<1>1. PICK pc \in {"reading", "rereading", "failed"} :
        /\ Goes(r, pc)
        /\ pc = "reading" => run[r].pc = "asking"
    BY DEF Exits, Fails
<1> DEFINE n == [run[r] EXCEPT !.pc = pc]
<1>2. run' = [run EXCEPT ![r] = n] /\ UNCHANGED <<now, dir, file, output, wrote, submitted>>
    BY <1>1 DEF Exits, Fails, Goes, Unwritten
<1>3. n \in Run /\ n.pc = pc /\ n.session = run[r].session /\ n.started = run[r].started
    BY RunIs DEF Run, Pcs, Live
<1>4. Fits(r, n)
    BY <1>1, <1>3, RunIs DEF Fits, Early
<1> HIDE DEF n
<1> QED
    BY <1>2, <1>4, RunStep

LEMMA ReadInv ==
    ASSUME IInv, NEW r \in Runs, ReadOutput(r) \/ ReadAgain(r)
    PROVE  IInv'
<1>1. UNCHANGED <<now, dir, file, output, wrote, submitted>>
    BY DEF ReadOutput, ReadAgain, Unwritten
<1>2. CASE output[r] = NoPayload
    <2> DEFINE n == [run[r] EXCEPT !.pc = IF run[r].pc = "reading" THEN "searching" ELSE "failed"]
    <2>1. run' = [run EXCEPT ![r] = n]
        BY <1>2 DEF ReadOutput, ReadAgain, SecondReading, Goes
    <2>2. /\ n \in Run /\ n.session = run[r].session /\ n.started = run[r].started
          /\ n.pc = IF run[r].pc = "reading" THEN "searching" ELSE "failed"
        BY RunIs DEF Run, Pcs, Live
    <2>3. Fits(r, n)
        BY <1>2, <2>2, RunIs DEF Fits, Early
    <2> HIDE DEF n
    <2> QED
        BY <1>1, <2>1, <2>3, RunStep
<1>3. CASE output[r] # NoPayload
    <2> DEFINE n == [run[r] EXCEPT !.pc = "printed", !.answer = output[r]]
    <2>1. run' = [run EXCEPT ![r] = n]
        BY <1>3 DEF ReadOutput, ReadAgain, SecondReading, Printed
    <2>2. /\ n \in Run /\ n.session = run[r].session /\ n.started = run[r].started
          /\ n.pc = "printed" /\ n.answer = output[r]
        BY RunIs DEF Run, Pcs, Live
    <2>3. Fits(r, n)
        BY <1>3, <2>2, RunIs DEF Fits, Early
    <2> HIDE DEF n
    <2> QED
        BY <1>1, <2>1, <2>3, RunStep
<1> QED
    BY <1>2, <1>3

\* A session that is picked, and is not the run's own, was written to by
\* somebody else.
LEMMA PickHasCause ==
    ASSUME IInv, NEW r \in Runs, run[r].pc = "searching", NEW s \in Candidates(r), s[1] # r
    PROVE  Cause(r)
<1>1. s \in Sessions /\ dir[s[1]] = dir[r] /\ file[s].mtime # Never /\ file[s].mtime >= run[r].started - 1
    BY DEF Candidates, DirOf, Recent
<1>2. PICK x \in Runs : LastWriter(x, s)
    BY <1>1 DEF IInv, Writers
<1>3. x # r
    BY <1>1, <1>2 DEF LastWriter, IInv, Places, Early
<1>4. dir[x] = dir[r]
    BY <1>1, <1>2 DEF LastWriter, IInv, Places
<1>5. wrote[x] \in Times /\ file[s].mtime \in Times /\ run[r].started \in Times
    BY <1>1 DEF IInv, TypeOK, Run
<1>6. wrote[x] # Never /\ wrote[x] >= run[r].started - 1
    BY <1>1, <1>2, <1>5, AnswerAssumption DEF LastWriter, Times, Never
<1> QED
    BY <1>3, <1>4, <1>6 DEF Cause

LEMMA RetryFits ==
    ASSUME IInv, NEW r \in Runs, run[r].pc \in {"searching", "picked"}
    PROVE  Fits(r, [run[r] EXCEPT !.pc = "retrying", !.session = <<r, 2>>])
<1> DEFINE n == [run[r] EXCEPT !.pc = "retrying", !.session = <<r, 2>>]
<1>1. n \in Run /\ n.pc = "retrying" /\ n.session = <<r, 2>> /\ n.session[1] = r /\ n.started = run[r].started
    BY RunIs DEF Run, Pcs, Live, Sessions
<1>2. run[r].pc = "searching" => run[r].session[1] = r
    BY RunIs DEF Early
<1>3. Fits(r, n)
    BY <1>1, <1>2, RunIs DEF Fits, Early
<1> QED
    BY <1>3

LEMMA PickInv ==
    ASSUME IInv, NEW r \in Runs, Pick(r)
    PROVE  IInv'
<1>1. run[r].pc = "searching" /\ UNCHANGED <<now, dir, file, output, wrote, submitted>>
    BY DEF Pick, Unwritten
<1>2. CASE Retry(r)
    <2>1. run' = [run EXCEPT ![r] = [run[r] EXCEPT !.pc = "retrying", !.session = <<r, 2>>]]
        BY <1>2 DEF Retry
    <2>2. Fits(r, [run[r] EXCEPT !.pc = "retrying", !.session = <<r, 2>>])
        BY <1>1, RetryFits
    <2> QED
        BY <1>1, <2>1, <2>2, RunStep
<1>3. ASSUME NEW s \in Newest(r), run' = [run EXCEPT ![r].pc = "picked", ![r].session = s]
      PROVE  IInv'
    <2> DEFINE n == [run[r] EXCEPT !.pc = "picked", !.session = s]
    <2>1. run' = [run EXCEPT ![r] = n]
        BY <1>3
    <2>2. s \in Candidates(r) /\ s \in Sessions /\ dir[s[1]] = dir[r]
        BY DEF Newest, Candidates, DirOf
    <2>3. s[1] # r => Cause(r)
        BY <1>1, <2>2, PickHasCause
    <2>4. n \in Run /\ n.pc = "picked" /\ n.session = s /\ n.started = run[r].started
        BY <2>2, RunIs DEF Run, Pcs, Live
    <2>5. run[r].session[1] = r
        BY <1>1, RunIs DEF Early
    <2>6. Fits(r, n)
        BY <1>1, <2>2, <2>3, <2>4, <2>5, RunIs DEF Fits, Early
    <2> HIDE DEF n
    <2> QED
        BY <1>1, <2>1, <2>6, RunStep
<1> QED
    BY <1>2, <1>3 DEF Pick

LEMMA RecoverInv ==
    ASSUME IInv, NEW r \in Runs, Recover(r)
    PROVE  IInv'
<1> DEFINE text == file[run[r].session].text
<1>1. run[r].pc = "picked" /\ UNCHANGED <<now, dir, file, output, wrote, submitted>>
    BY DEF Recover, Unwritten
<1>2. CASE text = NoPayload
    <2>1. run' = [run EXCEPT ![r] = [run[r] EXCEPT !.pc = "retrying", !.session = <<r, 2>>]]
        BY <1>2 DEF Recover, Retry
    <2>2. Fits(r, [run[r] EXCEPT !.pc = "retrying", !.session = <<r, 2>>])
        BY <1>1, RetryFits
    <2> QED
        BY <1>1, <2>1, <2>2, RunStep
<1>3. CASE text # NoPayload
    <2> DEFINE n == [run[r] EXCEPT !.pc = "replaying", !.payload = text]
    <2>1. run' = [run EXCEPT ![r] = n]
        BY <1>3 DEF Recover
    <2>2. run[r].session \in Sessions
        BY RunIs DEF Run
    <2>3. text = run[r].session[1] /\ text \in Payloads
        BY <1>3, <2>2 DEF IInv, Texts, Payloads, Sessions
    <2>4. /\ n \in Run /\ n.pc = "replaying" /\ n.payload = text
          /\ n.session = run[r].session /\ n.started = run[r].started
        BY <2>3, RunIs DEF Run, Pcs, Live
    <2>5. Fits(r, n)
        BY <1>1, <2>3, <2>4, RunIs DEF Fits, Early
    <2> HIDE DEF n
    <2> QED
        BY <1>1, <2>1, <2>5, RunStep
<1> QED
    BY <1>2, <1>3

-----------------------------------------------------------------------------
(* Steps of pi. *)

\* What pi is asked for is the answer of the run that made its session.
LEMMA SubjectIsMaker ==
    ASSUME IInv, NEW r \in Runs, run[r].pc \in Live
    PROVE  /\ Subject(r) = run[r].session[1]
           /\ Subject(r) \in Runs
           /\ Subject(r) # NoPayload
<1>1. run[r].session \in Sessions
    BY DEF IInv, TypeOK, Run
<1>2. Subject(r) = run[r].session[1]
    BY DEF Subject, IInv, Answers, Places, Early, Live
<1> QED
    BY <1>1, <1>2, AnswerAssumption DEF Sessions

\* What a message does to the sessions, whatever it says.
LEMMA AppendedInv ==
    ASSUME IInv, NEW r \in Runs, run[r].pc \in Live, UNCHANGED <<now, dir, run>>,
           NEW text \in {NoPayload, Subject(r)}, Appended(r, text)
    PROVE  /\ file' \in [Sessions -> [mtime: Times, text: Payloads]]
           /\ wrote' \in [Runs -> Times]
           /\ Clocked' /\ Texts' /\ Places' /\ Writers' /\ Caused'
<1> USE AnswerAssumption
<1> DEFINE own == run[r].session
<1>1. own \in Sessions /\ now \in Times
    BY DEF IInv, TypeOK, Run
<1>2. text \in {NoPayload, own[1]} /\ text \in Payloads
    BY SubjectIsMaker DEF Payloads
<1>3. file' \in [Sessions -> [mtime: Times, text: Payloads]] /\ wrote' \in [Runs -> Times]
    BY <1>1, <1>2 DEF Appended, IInv, TypeOK
<1>4. Clocked'
    BY <1>1 DEF Appended, IInv, Clocked, TypeOK, Times, Never
<1>5. Texts'
    BY <1>1, <1>2 DEF Appended, IInv, Texts, TypeOK
<1>6. Places'
    BY DEF IInv, Places
<1>7. \A x \in Runs : wrote[x] \in Int /\ wrote'[x] \in Int /\ wrote[x] <= wrote'[x]
    BY <1>1, <1>3 DEF Appended, IInv, Clocked, TypeOK, Times, Never
<1>8. Writers'
    <2>1. SUFFICES ASSUME NEW t \in Sessions, file'[t].mtime # Never
                   PROVE  \E x \in Runs : LastWriter(x, t)'
        BY DEF Writers
    <2>2. CASE t = own
        <3>1. file'[t].mtime = now /\ wrote'[r] = now
            BY <1>1, <2>2 DEF Appended, IInv, TypeOK
        <3>2. run'[r].session = t /\ run'[r].pc # "picked"
            BY <2>2 DEF Live
        <3> QED
            BY <1>1, <3>1, <3>2 DEF LastWriter, Times, Never
    <2>3. CASE t # own
        <3>1. file'[t] = file[t]
            BY <2>3 DEF Appended, IInv, TypeOK
        <3>2. PICK x \in Runs : LastWriter(x, t)
            BY <2>1, <3>1 DEF IInv, Writers
        <3>3. file[t].mtime \in Int
            BY DEF IInv, TypeOK, Times, Never
        <3>4. wrote'[x] >= file[t].mtime
            BY <1>7, <3>2, <3>3 DEF LastWriter
        <3> QED
            BY <3>1, <3>2, <3>4 DEF LastWriter
    <2> QED
        BY <2>2, <2>3
<1>9. Caused'
    <2>1. SUFFICES ASSUME NEW q \in Runs, run[q].session[1] # q
                   PROVE  Cause(q)'
        BY DEF Caused
    <2>2. PICK x \in Runs \ {q} : dir[x] = dir[q] /\ wrote[x] # Never /\ wrote[x] >= run[q].started - 1
        BY <2>1 DEF IInv, Caused, Cause
    <2>3. run[q].started \in Int
        BY DEF IInv, TypeOK, Run, Times, Never
    <2>4. wrote'[x] >= run[q].started - 1
        BY <1>7, <2>2, <2>3
    <2>5. wrote'[x] # Never
        <3>1. wrote[x] \in Times
            BY DEF IInv, TypeOK
        <3> QED
            BY <1>7, <2>2, <3>1 DEF Times, Never
    <2> QED
        BY <2>2, <2>4, <2>5 DEF Cause
<1> QED
    BY <1>3, <1>4, <1>5, <1>6, <1>8, <1>9

LEMMA WritesInv ==
    ASSUME IInv, NEW r \in Runs, Writes(r)
    PROVE  IInv'
<1>1. PICK text \in {NoPayload, Subject(r)} : Appended(r, text)
    BY DEF Writes
<1>2. run[r].pc \in Live /\ UNCHANGED <<now, dir, run, output, submitted>>
    BY DEF Writes
<1>3. /\ file' \in [Sessions -> [mtime: Times, text: Payloads]]
      /\ wrote' \in [Runs -> Times]
      /\ Clocked' /\ Texts' /\ Places' /\ Writers' /\ Caused'
    BY <1>1, <1>2, AppendedInv
<1>4. TypeOK'
    BY <1>2, <1>3 DEF IInv, TypeOK
<1>5. Answers'
    BY <1>2 DEF IInv, Answers
<1> QED
    BY <1>3, <1>4, <1>5 DEF IInv

LEMMA SubmitsInv ==
    ASSUME IInv, NEW r \in Runs, Submits(r)
    PROVE  IInv'
<1>1. run[r].pc \in Live /\ UNCHANGED <<now, dir, run>>
    BY DEF Submits
<1>2. /\ file' \in [Sessions -> [mtime: Times, text: Payloads]]
      /\ wrote' \in [Runs -> Times]
      /\ Clocked' /\ Texts' /\ Places' /\ Writers' /\ Caused'
    BY <1>1, AppendedInv DEF Submits
<1>3. Subject(r) = run[r].session[1] /\ Subject(r) \in Runs
    BY <1>1, SubjectIsMaker
<1>4. TypeOK'
    BY <1>1, <1>2, <1>3 DEF Submits, IInv, TypeOK, Payloads
<1>5. Answers'
    BY <1>1, <1>3 DEF Submits, IInv, Answers, Live, TypeOK
<1> QED
    BY <1>2, <1>4, <1>5 DEF IInv

LEMMA TickInv ==
    ASSUME IInv, Tick
    PROVE  IInv'
<1> USE AnswerAssumption DEF Tick, Unwritten, IInv
<1>1. TypeOK'
    BY DEF TypeOK, Times, Run
<1>2. Clocked'
    BY DEF Clocked, TypeOK, Times, Run, Never
<1>3. Texts' /\ Places' /\ Writers' /\ Caused' /\ Answers'
    BY DEF Texts, Places, Writers, LastWriter, Caused, Cause, Answers
<1> QED
    BY <1>1, <1>2, <1>3

-----------------------------------------------------------------------------
LEMMA NextInv == IInv /\ [Next]_vars => IInv'
<1> SUFFICES ASSUME IInv, [Next]_vars PROVE IInv'
    OBVIOUS
<1>1. ASSUME NEW r \in Runs,
             \/ Begin(r) \/ Writes(r) \/ Submits(r) \/ Exits(r) \/ Fails(r)
             \/ ReadOutput(r) \/ Pick(r) \/ Recover(r) \/ ReadAgain(r)
      PROVE IInv'
    BY <1>1, BeginInv, WritesInv, SubmitsInv, PcInv, ReadInv, PickInv, RecoverInv
<1>2. CASE Tick
    BY <1>2, TickInv
<1>3. CASE UNCHANGED vars
    BY <1>3 DEF vars, IInv, TypeOK, Clocked, Texts, Places, Writers, LastWriter, Caused, Cause, Answers
<1> QED
    BY <1>1, <1>2, <1>3 DEF Next

\* Every state of every behaviour satisfies the inductive invariant.
THEOREM AnswerInvariance == Spec => []IInv
<1> QED
    BY InitInv, NextInv, PTL DEF Spec

LEMMA OwnOrPicked ==
    ASSUME IInv, NEW r \in Runs, run[r].pc = "printed", run[r].answer # r
    PROVE  run[r].answer = run[r].session[1]
<1> QED
    BY DEF IInv, Answers

\* A run that prints another run's answer shares its directory, and somebody
\* else wrote there since a second before the run began (recoverySessionPath);
\* with a session directory of its own a run prints only its own answer.
THEOREM AnswersAreOwnOrCaused == Spec => []ForeignAnswersHaveCauses
<1>1. IInv => ForeignAnswersHaveCauses
    BY OwnOrPicked DEF IInv, Places, Caused, Cause, ForeignAnswersHaveCauses
<1> QED
    BY <1>1, AnswerInvariance, PTL

\* Only what final_json has accepted in a launch of this run is printed
\* (readFinalSchemaOutput).
THEOREM PrintedWasAccepted == Spec => []PrintedWasSubmitted
<1>1. IInv => PrintedWasSubmitted
    BY DEF IInv, Answers, PrintedWasSubmitted
<1> QED
    BY <1>1, AnswerInvariance, PTL
=============================================================================
