------------------------------ MODULE StoreProofs ------------------------------
(***************************************************************************)
(* What the tables of the store say, for any number of processes.          *)
(*                                                                         *)
(* The engine implements the ledger of RunLedger: each step of the system  *)
(* either leaves the ledger alone or makes one entry that the ledger       *)
(* allows.  Everything that makes an entry allowed -- what a try needs was *)
(* done, the attempt that ends is open, a success was earned -- is in the  *)
(* invariants of JobProofs and ReuseProofs.                                *)
(*                                                                         *)
(* The table of transitions tells the same story as the tables runs and    *)
(* steps: every operation that writes a status appends the transition to   *)
(* it in the same transaction, and what it saw before plays no part in     *)
(* where the transition leads.  For one process at a time the log of each  *)
(* step is a path as well: what it saw before is still what the log has    *)
(* led to.                                                                 *)
(***************************************************************************)
EXTENDS ReuseProofs, SequenceTheorems

-----------------------------------------------------------------------------
(* The ledger *)

(* The ledger and the store call the same steps done. *)
LEMMA DoneIsEverDone == \A r, s : Ledger!Done(r, s) <=> EverDone(r, s)
  BY DEF Ledger!Done, EverDone, Tries, Try

(* The steps of a run and what they need. *)
LEMMA NeedsOfRun ==
    ASSUME TypeOK, NEW r \in DOMAIN runs, NEW v \in Version,
           runs[r].runbook_digest = RunbookDigest(v)
    PROVE  /\ Ledger!StepsIn(r) = Steps(Book[v])
           /\ \A s \in Steps(Book[v]) : Needs[Editions[r]][s] = Book[v].steps[s].depends_on
  BY DigestFacts DEF Ledger!StepsIn, Needs, Editions

(* The tables are sequences, and so are the columns of the ledger. *)
LEMMA LedgerType ==
    ASSUME StoreTypeOK
    PROVE  /\ Editions \in Seq(Version) /\ Len(Editions) = Len(runs)
           /\ Verdicts \in Seq({"RUNNING", "SUCCEEDED", "FAILED"}) /\ Len(Verdicts) = Len(runs)
           /\ Standing \in Seq([StepId -> StepStatus \cup {Null}]) /\ Len(Standing) = Len(steps)
           /\ Tries \in Seq([run : Nat, step : StepId, state : StepStatus])
           /\ Len(Tries) = Len(attempts)
<1>1. /\ runs \in Seq(RunRow) /\ DOMAIN runs = 1..Len(runs) /\ Len(runs) \in Nat
      /\ \A r \in DOMAIN runs : runs[r] \in RunRow
  BY DEF StoreTypeOK
<1>2. /\ steps \in Seq(StepTable) /\ DOMAIN steps = 1..Len(steps) /\ Len(steps) \in Nat
      /\ \A r \in DOMAIN steps : steps[r] \in StepTable
  BY DEF StoreTypeOK
<1>3. /\ attempts \in Seq(AttemptRow) /\ DOMAIN attempts = 1..Len(attempts)
      /\ Len(attempts) \in Nat /\ \A a \in DOMAIN attempts : attempts[a] \in AttemptRow
  BY DEF StoreTypeOK
<1>4. Editions \in Seq(Version) /\ Len(Editions) = Len(runs)
  BY <1>1 DEF Editions, RunRow
<1>5. Verdicts \in Seq({"RUNNING", "SUCCEEDED", "FAILED"}) /\ Len(Verdicts) = Len(runs)
  BY <1>1 DEF Verdicts, RunRow
<1>6. Standing \in Seq([StepId -> StepStatus \cup {Null}]) /\ Len(Standing) = Len(steps)
  <2>1. ASSUME NEW r \in DOMAIN steps
        PROVE  [s \in StepId |-> StandingOf(steps[r][s])] \in [StepId -> StepStatus \cup {Null}]
    BY <1>2 DEF StandingOf, StepTable, StepRow
  <2> QED
    BY <1>2, <2>1 DEF Standing
<1>7. /\ Tries \in Seq([run : Nat, step : StepId, state : StepStatus])
      /\ Len(Tries) = Len(attempts)
  BY <1>3 DEF Tries, Try, AttemptRow
<1> QED
  BY <1>4, <1>5, <1>6, <1>7

(* A sequence that goes on where another ends. *)
LEMMA AppendIs ==
    ASSUME NEW S, NEW q \in Seq(S), NEW x \in S, NEW g \in Seq(S),
           Len(g) = Len(q)+1, g[Len(q)+1] = x, \A i \in 1..Len(q) : g[i] = q[i]
    PROVE  g = Append(q, x)
  BY AppendProperties, SeqEqual

(* The ledger is empty at the start. *)
LEMMA LedgerInit == Init => Ledger!Init
  BY DEF Init, StoreInit, Ledger!Init, Editions, Verdicts, Standing, Tries

(* A run is created. *)
LEMMA LedgerCreates ==
    ASSUME TypeOK, NEW p \in Proc, ExecuteRunbook(p)
    PROVE  Ledger!Create(RunbookDigest(job[p].runbook))
<1> DEFINE v == job[p].runbook
           e == RunbookDigest(v)
           row == [s \in StepId |-> IF s \in Steps(Book[v]) THEN PendingRow ELSE Null]
           new == [runbook_digest |-> e, status |-> "RUNNING"]
<1>1. /\ runs' = Append(runs, new) /\ steps' = Append(steps, row) /\ attempts' = attempts
  BY DEF ExecuteRunbook, CreateRun
<1>2. /\ runs \in Seq(RunRow) /\ steps \in Seq(StepTable) /\ StoreTypeOK
  BY DEF TypeOK, StoreTypeOK
<1>3. Editions' = Append(Editions, e)
  BY <1>1, <1>2, LedgerType DEF Editions
<1>4. Verdicts' = Append(Verdicts, "RUNNING")
  BY <1>1, <1>2, LedgerType DEF Verdicts
<1>5. DOMAIN Needs[e] = Steps(Book[v])
  BY JobFacts, DigestFacts DEF Needs
<1>6. Standing' = Append(Standing, [s \in StepId |-> IF s \in DOMAIN Needs[e]
                                                     THEN "PENDING" ELSE Null])
  <2>1. PendingRow.status = "PENDING" /\ PendingRow # Null
    BY AbsenceAssumption DEF PendingRow, StepRow, StepStatus
  <2>2. [s \in StepId |-> StandingOf(row[s])]
           = [s \in StepId |-> IF s \in DOMAIN Needs[e] THEN "PENDING" ELSE Null]
    BY <1>5, <2>1 DEF StandingOf
  <2>3. Standing' = Append(Standing, [s \in StepId |-> StandingOf(row[s])])
    <3> DEFINE g == Standing'
               f(t) == [s \in StepId |-> StandingOf(t[s])]
    <3> HIDE DEF row
    <3>1. Standing \in Seq([StepId -> StepStatus \cup {Null}]) /\ Len(Standing) = Len(steps)
      BY <1>2, LedgerType
    <3>2. /\ DOMAIN steps' = 1..Len(steps)+1 /\ steps'[Len(steps)+1] = row
          /\ \A r \in 1..Len(steps) : steps'[r] = steps[r]
      BY <1>1, <1>2
    <3>3. g = [r \in 1..Len(steps)+1 |-> f(steps'[r])]
      BY <3>2 DEF Standing
    <3>4. \A r \in 1..Len(steps) : Standing[r] = f(steps[r])
      BY <1>2 DEF Standing
    <3>5. g[Len(steps)+1] = f(row) /\ \A r \in 1..Len(steps) : g[r] = f(steps[r])
      <4> HIDE DEF f, g
      <4>1. Len(steps) \in Nat
        BY <1>2
      <4> QED
        BY <3>2, <3>3, <4>1
    <3>7. f(row) \in [StepId -> StepStatus \cup {Null}]
      BY <2>2 DEF StepStatus
    <3>8. g \in Seq([StepId -> StepStatus \cup {Null}]) /\ Len(g) = Len(steps)+1
      <4>1. Len(steps)+1 \in Nat /\ \A r \in 1..Len(steps)+1 : r # Len(steps)+1 => r \in 1..Len(steps)
        BY <1>2
      <4>2. \A r \in 1..Len(steps)+1 : f(steps'[r]) \in [StepId -> StepStatus \cup {Null}]
        <5> HIDE DEF f
        <5>1. \A r \in 1..Len(steps) : Standing[r] \in [StepId -> StepStatus \cup {Null}]
          BY <3>1
        <5> QED
          BY <3>2, <3>4, <3>7, <4>1, <5>1
      <4> HIDE DEF f, g
      <4> QED
        BY <3>3, <4>1, <4>2
    <3> HIDE DEF f, g
    <3>6. g = Append(Standing, f(row))
      BY <3>1, <3>4, <3>5, <3>7, <3>8, AppendIs
    <3> QED
      BY <3>6 DEF f, g
  <2> QED
    BY <2>2, <2>3
<1>7. Tries' = Tries
  BY <1>1 DEF Tries
<1> QED
  BY <1>3, <1>4, <1>6, <1>7 DEF Ledger!Create

(* The status of one row changes. *)
LEMMA StandChanges ==
    ASSUME StoreTypeOK, NEW r \in DOMAIN runs, NEW s \in StepId, NEW row, row # Null,
           steps' = [steps EXCEPT ![r][s] = row]
    PROVE  Ledger!Stand(r, s, row.status)
<1>1. /\ DOMAIN steps' = DOMAIN steps /\ r \in DOMAIN steps
      /\ \A q \in DOMAIN steps, t \in StepId :
            steps'[q][t] = IF q = r /\ t = s THEN row ELSE steps[q][t]
  <2>1. DOMAIN steps = DOMAIN runs /\ \A q \in DOMAIN steps : steps[q] \in StepTable
    BY DEF StoreTypeOK
  <2> QED
    BY <2>1 DEF StepTable
<1>2. \A q \in DOMAIN steps, t \in StepId :
         StandingOf(steps'[q][t]) = IF q = r /\ t = s THEN row.status ELSE StandingOf(steps[q][t])
  BY <1>1 DEF StandingOf
<1>3. Standing' = [q \in DOMAIN steps |-> [t \in StepId |->
                      IF q = r /\ t = s THEN row.status ELSE StandingOf(steps[q][t])]]
  BY <1>1, <1>2 DEF Standing
<1>4. [Standing EXCEPT ![r][s] = row.status]
         = [q \in DOMAIN steps |-> [t \in StepId |->
               IF q = r /\ t = s THEN row.status ELSE StandingOf(steps[q][t])]]
  BY <1>1 DEF Standing
<1> QED
  BY <1>3, <1>4 DEF Ledger!Stand

(* The row a process has changed is still a row. *)
LEMMA RowRemains ==
    ASSUME TypeOK, Course, [Next]_vars, NEW p \in Proc,
           RecordBlocked(p) \/ RecordStarted(p) \/ RecordFinished(p)
    PROVE  /\ steps'[job[p].run_id][CurrentStep(job[p])] # Null
           /\ runs' = runs
           /\ runs[job[p].run_id].runbook_digest = RunbookDigest(job[p].runbook)
           /\ \A row : steps' = [steps EXCEPT ![job[p].run_id][CurrentStep(job[p])] = row] =>
                 row # Null
<1>1. Course'
  BY CourseStep
<1>2. runs' = runs
  BY DEF RecordBlocked, UpdateStepStatus, RecordStarted, RecordStepStarted, RecordFinished,
     RecordStepFinished
<1>3. Working(p)
  BY DEF RecordBlocked, RecordStarted, RecordFinished, Working, Executing
<1>4. runs[job[p].run_id].runbook_digest = RunbookDigest(job[p].runbook)
  BY <1>3 DEF Course, OnCourse, MadeFrom
<1>5. /\ job[p].run_id \in DOMAIN runs
      /\ CurrentStep(job[p]) \in Steps(Book[job[p].runbook]) /\ CurrentStep(job[p]) \in StepId
  BY RecordsARow
<1>6. Steps(Book[RunbookDigest(job[p].runbook)]) = Steps(Book[job[p].runbook])
  BY JobFacts, DigestFacts
<1>7. steps'[job[p].run_id][CurrentStep(job[p])] # Null
  BY <1>1, <1>2, <1>4, <1>5, <1>6 DEF Course, RowsExist
<1>8. ASSUME NEW row, steps' = [steps EXCEPT ![job[p].run_id][CurrentStep(job[p])] = row]
      PROVE  row # Null
  <2>1. steps'[job[p].run_id][CurrentStep(job[p])] = row
    BY <1>5, <1>8 DEF TypeOK, StoreTypeOK, StepTable
  <2> QED
    BY <1>7, <2>1
<1> QED
  BY <1>2, <1>4, <1>7, <1>8

(* A step is held back. *)
LEMMA LedgerHolds ==
    ASSUME TypeOK, Course, Grounding, [Next]_vars, NEW p \in Proc, RecordBlocked(p)
    PROVE  LET r == job[p].run_id
               s == CurrentStep(job[p])
           IN  r \in DOMAIN Editions /\ s \in Ledger!StepsIn(r) /\ Ledger!Hold(r, s)
<1> DEFINE r == job[p].run_id
           s == CurrentStep(job[p])
           row == [steps[r][s] EXCEPT !.status = "BLOCKED"]
<1>1. /\ r \in DOMAIN runs /\ s \in StepId /\ steps[r][s] \in StepRow
      /\ s \in Steps(Book[job[p].runbook])
  BY RecordsARow
<1>2. steps' = [steps EXCEPT ![r][s] = row] /\ row.status = "BLOCKED" /\ attempts' = attempts
  BY <1>1 DEF RecordBlocked, UpdateStepStatus, StepRow
<1>3. runs' = runs /\ row # Null
  BY <1>2, RowRemains, Zenon
<1>4. Ledger!Stand(r, s, "BLOCKED")
  <2> HIDE DEF row, r, s
  <2> QED
    BY <1>1, <1>2, <1>3, StandChanges DEF TypeOK
<1>5. s \in Ledger!StepsIn(r) /\ Needs[Editions[r]][s] = Current(job[p]).depends_on
  BY <1>1, NeedsOfRun, RowRemains, JobFacts DEF Current, Definition
<1>6. Current(job[p]).depends_on # {}
  BY DEF RecordBlocked, Grounding, LoopIsSound
<1>7. Editions' = Editions /\ Verdicts' = Verdicts /\ Tries' = Tries
  BY <1>2, <1>3 DEF Editions, Verdicts, Tries
<1>8. r \in DOMAIN Editions
  BY <1>1 DEF Editions
<1> HIDE DEF r, s
<1> QED
  BY <1>4, <1>5, <1>6, <1>7, <1>8 DEF Ledger!Hold, r, s

(* A try begins. *)
LEMMA LedgerBegins ==
    ASSUME TypeOK, Course, Grounding, [Next]_vars, NEW p \in Proc, RecordStarted(p)
    PROVE  LET r == job[p].run_id
               s == CurrentStep(job[p])
           IN  r \in DOMAIN Editions /\ s \in Ledger!StepsIn(r) /\ Ledger!Begin(r, s)
<1> DEFINE r == job[p].run_id
           s == CurrentStep(job[p])
           row == StartedRow(steps[r][s], job[p].seen, Len(attempts) + 1, job[p].contract)
           new == [run_id |-> r, step_id |-> s, attempt_no |-> job[p].seen.attempt_count + 1,
                   status |-> "RUNNING", failure_kind |-> Null, contract |-> job[p].contract]
<1>1. /\ r \in DOMAIN runs /\ s \in StepId /\ steps[r][s] \in StepRow
      /\ s \in Steps(Book[job[p].runbook])
  BY RecordsARow
<1>2. /\ steps' = [steps EXCEPT ![r][s] = row] /\ row.status = "RUNNING"
      /\ attempts' = Append(attempts, new)
  BY <1>1 DEF RecordStarted, RecordStepStarted, StartedRow, StepRow
<1>3. runs' = runs /\ row # Null
  BY <1>2, RowRemains, Zenon
<1>4. Ledger!Stand(r, s, "RUNNING")
  <2> HIDE DEF row, r, s
  <2> QED
    BY <1>1, <1>2, <1>3, StandChanges DEF TypeOK
<1>5. s \in Ledger!StepsIn(r) /\ Needs[Editions[r]][s] = Current(job[p]).depends_on
  BY <1>1, NeedsOfRun, RowRemains, JobFacts DEF Current, Definition
<1>6. Ledger!Ready(r, s)
  <2>1. \A d \in Current(job[p]).depends_on : EverDone(r, d)
    BY DEF RecordStarted, Executing, Grounding, LoopIsSound
  <2> QED
    BY <1>5, <2>1, DoneIsEverDone DEF Ledger!Ready
<1>7. Editions' = Editions /\ Verdicts' = Verdicts
  BY <1>3 DEF Editions, Verdicts
<1>8. Tries' = Append(Tries, [run |-> r, step |-> s, state |-> "RUNNING"])
  <2>1. /\ attempts \in Seq(AttemptRow) /\ Len(attempts) \in Nat /\ r \in Nat
        /\ Tries \in Seq([run : Nat, step : StepId, state : StepStatus])
        /\ Len(Tries) = Len(attempts)
    BY <1>1, LedgerType DEF TypeOK, StoreTypeOK
  <2>2. /\ DOMAIN attempts' = 1..Len(attempts)+1 /\ attempts'[Len(attempts)+1] = new
        /\ \A a \in 1..Len(attempts) : attempts'[a] = attempts[a]
    BY <1>2, <2>1
  <2>3. Try(new) = [run |-> r, step |-> s, state |-> "RUNNING"]
    BY DEF Try
  <2>4. [run |-> r, step |-> s, state |-> "RUNNING"] \in [run : Nat, step : StepId,
                                                         state : StepStatus]
    BY <1>1, <2>1 DEF StepStatus
  <2>5. Tries' = [a \in 1..Len(attempts)+1 |-> Try(attempts'[a])]
    BY <2>2 DEF Tries
  <2> HIDE DEF new, r, s
  <2>6. /\ Tries'[Len(attempts)+1] = [run |-> r, step |-> s, state |-> "RUNNING"]
        /\ \A a \in 1..Len(attempts) : Tries'[a] = Tries[a]
    BY <2>1, <2>2, <2>3, <2>5 DEF Tries
  <2>7. Tries' \in Seq([run : Nat, step : StepId, state : StepStatus])
        /\ Len(Tries') = Len(attempts)+1
    <3> DEFINE T == [run : Nat, step : StepId, state : StepStatus]
               f(try) == Try(try)
               g == Tries'
    <3>1. \A a \in 1..Len(attempts) : Tries[a] \in T
      <4>1. Tries \in Seq(T) /\ Len(Tries) = Len(attempts)
        BY <2>1
      <4> HIDE DEF T
      <4> QED
        BY <4>1
    <3>2. \A a \in 1..Len(attempts)+1 : a = Len(attempts)+1 \/ a \in 1..Len(attempts)
      BY <2>1
    <3>3. \A a \in 1..Len(attempts)+1 : g[a] \in T
      BY <2>4, <2>6, <3>1, <3>2
    <3>4. g = [a \in 1..Len(attempts)+1 |-> f(attempts'[a])]
      BY <2>5
    <3> HIDE DEF T, f, g
    <3>5. g \in Seq(T) /\ Len(g) = Len(attempts)+1
      BY <2>1, <3>3, <3>4
    <3> QED
      BY <3>5 DEF T, g
  <2> QED
    BY <2>1, <2>4, <2>6, <2>7, AppendIs
<1>9. r \in DOMAIN Editions
  BY <1>1 DEF Editions
<1> HIDE DEF r, s
<1> QED
  BY <1>4, <1>5, <1>6, <1>7, <1>8, <1>9 DEF Ledger!Begin, r, s

(* A try ends. *)
LEMMA LedgerEnds ==
    ASSUME TypeOK, Course, Ownership, [Next]_vars, NEW p \in Proc, RecordFinished(p)
    PROVE  LET a == job[p].attempt_id
               result == job[p].result.status
           IN  a \in DOMAIN Tries /\ result \in {"SUCCEEDED", "FAILED"} /\ Ledger!End(a, result)
<1> DEFINE r == job[p].run_id
           s == CurrentStep(job[p])
           a == job[p].attempt_id
           result == job[p].result.status
           row == FinishedRow(steps[r][s], job[p].result, job[p].contract)
           new == FinishedRow(attempts[a], job[p].result, job[p].contract)
<1>1. /\ r \in DOMAIN runs /\ s \in StepId /\ steps[r][s] \in StepRow
  BY RecordsARow
<1>2. /\ a \in DOMAIN attempts /\ attempts[a].status = "RUNNING"
      /\ attempts[a].run_id = r /\ attempts[a].step_id = s
  BY DEF RecordFinished, Ownership, Owns, Recorded
<1>3. attempts \in Seq(AttemptRow) /\ attempts[a] \in AttemptRow
  BY <1>2 DEF TypeOK, StoreTypeOK
<1>4. /\ steps' = [steps EXCEPT ![r][s] = row] /\ row.status = result
      /\ attempts' = [attempts EXCEPT ![a] = new]
  BY <1>1 DEF RecordFinished, RecordStepFinished, FinishedRow, StepRow
<1>5. runs' = runs /\ row # Null
  BY <1>4, RowRemains, Zenon
<1>6. Ledger!Stand(r, s, result)
  <2> HIDE DEF row, r, s, result, new
  <2> QED
    BY <1>1, <1>4, <1>5, StandChanges DEF TypeOK
<1>7. Editions' = Editions /\ Verdicts' = Verdicts
  BY <1>5 DEF Editions, Verdicts
<1>8. Try(new) = [run |-> r, step |-> s, state |-> result]
  BY <1>2, <1>3 DEF Try, FinishedRow, AttemptRow
<1>9. Tries[a] = [run |-> r, step |-> s, state |-> "RUNNING"] /\ a \in DOMAIN Tries
  BY <1>2 DEF Tries, Try
<1>10. Tries' = [Tries EXCEPT ![a].state = result]
  <2>1. [Tries[a] EXCEPT !.state = result] = [run |-> r, step |-> s, state |-> result]
    BY <1>9
  <2> HIDE DEF row, r, s, result, new
  <2>2. Tries' = [b \in DOMAIN attempts |-> IF b = a THEN Try(new) ELSE Try(attempts[b])]
    <3>1. DOMAIN attempts' = DOMAIN attempts
      BY <1>4
    <3>2. \A b \in DOMAIN attempts : attempts'[b] = IF b = a THEN new ELSE attempts[b]
      BY <1>3, <1>4
    <3> QED
      BY <3>1, <3>2 DEF Tries
  <2>3. [Tries EXCEPT ![a].state = result]
          = [b \in DOMAIN attempts |-> IF b = a THEN Try(new) ELSE Try(attempts[b])]
    BY <1>8, <1>9, <2>1 DEF Tries
  <2> QED
    BY <2>2, <2>3
<1>11. result \in {"SUCCEEDED", "FAILED"}
  BY JobFacts DEF Job, AttemptResult
<1> HIDE DEF r, s, row, new
<1> QED
  BY <1>6, <1>7, <1>9, <1>10, <1>11 DEF Ledger!End

(* A run is closed. *)
LEMMA LedgerCloses ==
    ASSUME TypeOK, Course, Grounding, NEW p \in Proc, LoopEnd(p)
    PROVE  LET r == job[p].run_id
               verdict == FinalStatus(job[p])
           IN  /\ r \in DOMAIN Editions /\ verdict \in {"SUCCEEDED", "FAILED"}
               /\ Ledger!Close(r, verdict)
<1> DEFINE r == job[p].run_id
           v == job[p].runbook
           verdict == FinalStatus(job[p])
<1>1. Working(p) /\ r \in DOMAIN runs /\ runs[r].runbook_digest = RunbookDigest(v)
  BY DEF LoopEnd, Working, Course, OnCourse, MadeFrom
<1>2. runs' = [runs EXCEPT ![r].status = verdict] /\ steps' = steps /\ attempts' = attempts
  BY DEF LoopEnd, FinishRun
<1>3. Editions' = Editions /\ Verdicts' = [Verdicts EXCEPT ![r] = verdict]
  <2>1. runs \in Seq(RunRow) /\ \A q \in DOMAIN runs : runs[q] \in RunRow
    BY DEF TypeOK, StoreTypeOK
  <2> HIDE DEF r, verdict
  <2> QED
    BY <1>1, <1>2, <2>1 DEF Editions, Verdicts, RunRow
<1>4. Standing' = Standing /\ Tries' = Tries
  BY <1>2 DEF Standing, Tries
<1>5. Steps(Book[v]) \subseteq Evaluated(job[p])
  <2>1. job[p].position \in Nat /\ v \in Version
    BY JobFacts
  <2>2. /\ Order(job[p]) \in Seq(StepId)
        /\ \A s \in Steps(Book[v]) : \E i \in DOMAIN Order(job[p]) : Order(job[p])[i] = s
    BY <2>1, BookFacts DEF Order
  <2>3. \A i \in DOMAIN Order(job[p]) : i < job[p].position
    BY <2>1, <2>2 DEF LoopEnd
  <2> QED
    BY <2>2, <2>3 DEF Evaluated
<1>6. verdict = "SUCCEEDED" => \A s \in Steps(Book[v]) : EverDone(r, s)
  BY <1>1, <1>5 DEF FinalStatus, AllSucceeded, Grounding, LoopIsSound
<1>7. Ledger!StepsIn(r) = Steps(Book[v])
  BY <1>1, NeedsOfRun, JobFacts
<1>8. verdict = "SUCCEEDED" => \A s \in Ledger!StepsIn(r) : Ledger!Done(r, s)
  BY <1>6, <1>7, DoneIsEverDone
<1>9. r \in DOMAIN Editions /\ verdict \in {"SUCCEEDED", "FAILED"}
  BY <1>1 DEF Editions, FinalStatus
<1> HIDE DEF r, verdict
<1> QED
  BY <1>3, <1>4, <1>8, <1>9 DEF Ledger!Close, r, verdict

(* Each step of the system makes one entry, or none. *)
LEMMA LedgerStep ==
    ASSUME TypeOK, Course, Ownership, Grounding, [Next]_vars
    PROVE  [Ledger!Next]_(Ledger!ledger)
<1>1. ASSUME NEW p \in Proc, ExecuteRunbook(p) PROVE Ledger!Next
  BY <1>1, LedgerCreates, JobFacts, DigestFacts DEF Ledger!Next
<1>2. ASSUME NEW p \in Proc, RecordBlocked(p) PROVE Ledger!Next
  BY <1>2, LedgerHolds DEF Ledger!Next
<1>3. ASSUME NEW p \in Proc, RecordStarted(p) PROVE Ledger!Next
  BY <1>3, LedgerBegins DEF Ledger!Next
<1>4. ASSUME NEW p \in Proc, RecordFinished(p) PROVE Ledger!Next
  BY <1>4, LedgerEnds DEF Ledger!Next
<1>5. ASSUME NEW p \in Proc, LoopEnd(p) PROVE Ledger!Next
  BY <1>5, LedgerCloses DEF Ledger!Next
<1>6. CASE UNCHANGED <<runs, steps, attempts>>
  BY <1>6 DEF Ledger!ledger, Editions, Verdicts, Standing, Tries
<1> QED
  BY <1>1, <1>2, <1>3, <1>4, <1>5, <1>6, StoreStep DEF Records

(* However runs, repairs, resumes of old plans, edits, revisions and       *)
(* crashes interleave, the store keeps a ledger as RunLedger describes it: *)
(* the engine implements it, for any number of processes, any run books    *)
(* and any paths.                                                          *)
THEOREM LedgerIsImplemented == Spec => ImplementsLedger
<1>1. Init => Ledger!Init
  BY LedgerInit
<1>2. TypeOK /\ Course /\ Ownership /\ Grounding /\ [Next]_vars
        => [Ledger!Next]_(Ledger!ledger)
  BY LedgerStep
<1> QED
  BY <1>1, <1>2, GroundingCorrect, PTL DEF Spec, ImplementsLedger, Ledger!Spec

-----------------------------------------------------------------------------
(* The log *)

(* The last of a set of numbers is the greatest. *)
LEMMA LastIs ==
    ASSUME NEW I \in SUBSET Nat, NEW i \in I, \A k \in I : k <= i
    PROVE  LastOf(I) = i
<1>1. LastOf(I) \in I /\ \A k \in I : k <= LastOf(I)
  BY DEF LastOf
<1>2. LastOf(I) \in Nat /\ i \in Nat /\ i <= LastOf(I) /\ LastOf(I) <= i
  BY <1>1
<1> HIDE DEF LastOf
<1> QED
  BY <1>2

(* What a new transition does to a table. *)
LEMMA TableGrows ==
    ASSUME NEW T \in Seq(TransitionRow), NEW x \in TransitionRow
    PROVE  LET n == Len(T) + 1
           IN  /\ DOMAIN Append(T, x) = DOMAIN T \cup {n} /\ n \notin DOMAIN T
               /\ Append(T, x)[n] = x /\ \A i \in DOMAIN T : Append(T, x)[i] = T[i]
               /\ \A i \in DOMAIN Append(T, x) : i \in Nat /\ i <= n
  OBVIOUS

(* A new transition is the last of its own log. *)
LEMMA LogGrows ==
    ASSUME NEW T \in Seq(TransitionRow), NEW x \in TransitionRow
    PROVE  LET U == Append(T, x)
           IN  /\ LogIn(U, x.run_id, x.step_id) # {}
               /\ HasLast(LogIn(U, x.run_id, x.step_id))
               /\ LastState(U, x.run_id, x.step_id) = x.to_state
<1> DEFINE n == Len(T) + 1
           U == Append(T, x)
           I == LogIn(U, x.run_id, x.step_id)
<1>1. n \in I /\ I \in SUBSET Nat /\ \A k \in I : k <= n
  BY TableGrows DEF LogIn
<1>2. LastOf(I) = n
  <2> HIDE DEF I, n
  <2> QED
    BY <1>1, LastIs
<1>3. U[n] = x
  BY TableGrows
<1> HIDE DEF n, U
<1> QED
  BY <1>1, <1>2, <1>3 DEF HasLast, LastState, I, U

(* It leaves every other log as it was. *)
LEMMA LogStays ==
    ASSUME NEW T \in Seq(TransitionRow), NEW x \in TransitionRow, NEW r, NEW s,
           x.run_id # r \/ x.step_id # s
    PROVE  /\ LogIn(Append(T, x), r, s) = LogIn(T, r, s)
           /\ HasLast(LogIn(T, r, s)) => LastState(Append(T, x), r, s) = LastState(T, r, s)
<1> DEFINE I == LogIn(T, r, s)
<1>1. LogIn(Append(T, x), r, s) = I
  BY TableGrows DEF LogIn
<1>2. ASSUME HasLast(I) PROVE LastOf(I) \in I
  BY <1>2 DEF HasLast, LastOf
<1>3. ASSUME HasLast(I) PROVE Append(T, x)[LastOf(I)] = T[LastOf(I)]
  <2>1. LastOf(I) \in DOMAIN T
    BY <1>2, <1>3 DEF LogIn
  <2> QED
    BY <2>1, TableGrows
<1> HIDE DEF I
<1> QED
  BY <1>1, <1>3 DEF LastState, I

(* A transition of a known run, or the first of a new one, keeps the log   *)
(* in order.                                                               *)
LEMMA OrderStays ==
    ASSUME NEW R, NEW Q, NEW T \in Seq(TransitionRow), NEW x \in TransitionRow,
           InOrder(R, T), x.run_id \in DOMAIN Q, DOMAIN R \subseteq DOMAIN Q,
           \A r \in DOMAIN Q : r \in DOMAIN R \/ (r = x.run_id /\ x.step_id = Null)
    PROVE  InOrder(Q, Append(T, x))
<1> DEFINE U == Append(T, x)
<1>1. \A i \in DOMAIN U : U[i].run_id \in DOMAIN Q
  BY TableGrows DEF InOrder
<1>2. ASSUME NEW r \in DOMAIN Q PROVE LogIn(U, r, Null) # {}
  BY LogGrows, LogStays DEF InOrder
<1>3. ASSUME NEW r \in DOMAIN Q, NEW s \in StepId \cup {Null}, LogIn(U, r, s) # {}
      PROVE  HasLast(LogIn(U, r, s))
  <2>1. CASE x.run_id = r /\ x.step_id = s
    BY <2>1, LogGrows
  <2>2. CASE x.run_id # r \/ x.step_id # s
    <3>1. LogIn(U, r, s) = LogIn(T, r, s)
      BY <2>2, LogStays
    <3>2. r \in DOMAIN R
      BY <1>3, <3>1 DEF InOrder, LogIn
    <3> QED
      BY <1>3, <3>1, <3>2 DEF InOrder
  <2> QED
    BY <2>1, <2>2
<1> HIDE DEF U
<1> QED
  BY <1>1, <1>2, <1>3 DEF InOrder, U

(* A run agrees with the log after a transition of its own or of another,  *)
(* if the one status that the transition is about has become what it says. *)
LEMMA AgreesStill ==
    ASSUME NEW R, NEW S, NEW Q, NEW P, NEW T \in Seq(TransitionRow),
           NEW x \in TransitionRow, NEW r \in DOMAIN R, InOrder(R, T), Agrees(R, S, T, r),
           x.run_id = r /\ x.step_id = Null => Q[r].status = x.to_state,
           x.run_id # r \/ x.step_id # Null => Q[r].status = R[r].status,
           \A s \in StepId : x.run_id = r /\ x.step_id = s => P[r][s].status = x.to_state,
           \A s \in StepId : x.run_id # r \/ x.step_id # s => P[r][s] = S[r][s]
    PROVE  Agrees(Q, P, Append(T, x), r)
<1> DEFINE U == Append(T, x)
<1>1. \A s \in StepId \cup {Null} : LogIn(T, r, s) # {} => HasLast(LogIn(T, r, s))
  BY DEF InOrder
<1>2. Q[r].status = LastState(U, r, Null)
  <2>1. CASE x.run_id = r /\ x.step_id = Null
    BY <2>1, LogGrows
  <2>2. CASE x.run_id # r \/ x.step_id # Null
    <3>1. HasLast(LogIn(T, r, Null))
      BY <1>1 DEF InOrder
    <3> QED
      BY <2>2, <3>1, LogStays DEF Agrees
  <2> QED
    BY <2>1, <2>2
<1>3. ASSUME NEW s \in StepId, P[r][s] # Null
      PROVE  P[r][s].status = IF LogIn(U, r, s) = {} THEN "PENDING" ELSE LastState(U, r, s)
  <2>1. CASE x.run_id = r /\ x.step_id = s
    BY <2>1, LogGrows
  <2>2. CASE x.run_id # r \/ x.step_id # s
    <3>1. /\ LogIn(U, r, s) = LogIn(T, r, s) /\ P[r][s] = S[r][s]
          /\ LogIn(T, r, s) # {} => LastState(U, r, s) = LastState(T, r, s)
      BY <1>1, <2>2, LogStays
    <3> QED
      BY <1>3, <3>1 DEF Agrees
  <2> QED
    BY <2>1, <2>2
<1> HIDE DEF U
<1> QED
  BY <1>2, <1>3 DEF Agrees, U

-----------------------------------------------------------------------------

(* The tables of the story change only where a process records. *)
LEMMA StoryStays ==
    ASSUME [Next]_vars
    PROVE  UNCHANGED <<runs, steps, transitions>> \/ \E p \in Proc : Records(p)
<1>1. ASSUME NEW p \in Proc, Step(p)
      PROVE  UNCHANGED <<runs, steps, transitions>> \/ Records(p)
  <2>1. UNCHANGED store \/ Records(p) \/ SavePlan(p)
    BY <1>1 DEF Step, Records, ResumeRunbook, ResumeStale, StepReuse, StepUnconfirmed,
       StepBlocked, ObserveBefore, ObserveRejected, SelectStarted, Spawn, SpawnError,
       ObserveAfter, SelectFinished, RepairLoad, SurveyStep, SurveyFails, SurveyDone,
       EvaluateNext
  <2> QED
    BY <2>1 DEF store, SavePlan, SaveRepairPlan
<1>2. ASSUME CommandEnds \/ User PROVE UNCHANGED store
  BY <1>2 DEF CommandEnds, CommandExit, User, Launch, Crash, Edit, Revise
<1> QED
  BY <1>1, <1>2 DEF Next, vars, store

(* A new run: its log has one entry, those of its steps are empty. *)
LEMMA StoryCreates ==
    ASSUME TypeOK, Story, NEW p \in Proc, ExecuteRunbook(p)
    PROVE  Story'
<1> DEFINE n == Len(runs) + 1
           x == Transition(n, Null, Null, "RUNNING", "RUN_CREATED")
           row == [s \in StepId |-> IF s \in Steps(Book[job[p].runbook])
                                    THEN PendingRow ELSE Null]
<1>1. /\ runs' = Append(runs, [runbook_digest |-> RunbookDigest(job[p].runbook),
                               status |-> "RUNNING"])
      /\ steps' = Append(steps, row) /\ transitions' = Append(transitions, x)
  BY DEF ExecuteRunbook, CreateRun
<1>2. runs \in Seq(RunRow) /\ steps \in Seq(StepTable) /\ Len(steps) = Len(runs)
  BY DEF TypeOK, StoreTypeOK
<1>3. /\ DOMAIN runs' = DOMAIN runs \cup {n} /\ n \notin DOMAIN runs
      /\ runs'[n].status = "RUNNING" /\ \A r \in DOMAIN runs : runs'[r] = runs[r]
      /\ steps'[n] = row /\ \A r \in DOMAIN runs : steps'[r] = steps[r]
  BY <1>1, <1>2
<1>4. /\ x \in TransitionRow /\ transitions \in Seq(TransitionRow)
      /\ x.run_id = n /\ x.step_id = Null /\ x.to_state = "RUNNING"
  BY <1>2 DEF Transition, TransitionRow, StepStatus, Reason, TypeOK, StoreTypeOK
<1>5. \A s \in StepId : s # Null
  BY NullAssumption
<1>6. InOrder(runs, transitions) /\ \A r \in DOMAIN runs : Agrees(runs, steps, transitions, r)
  BY DEF Story, Tells
<1> HIDE DEF x, n
<1>7. InOrder(runs', Append(transitions, x))
  <2> HIDE DEF row
  <2> QED
    BY <1>3, <1>4, <1>6, OrderStays
<1>8. Agrees(runs', steps', Append(transitions, x), n)
  <2>1. runs'[n].status = LastState(Append(transitions, x), n, Null)
    BY <1>3, <1>4, LogGrows
  <2>2. ASSUME NEW s \in StepId, steps'[n][s] # Null
        PROVE  LogIn(Append(transitions, x), n, s) = {} /\ steps'[n][s].status = "PENDING"
    <3>1. LogIn(transitions, n, s) = {}
      BY <1>3, <1>6 DEF LogIn, InOrder
    <3>2. LogIn(Append(transitions, x), n, s) = LogIn(transitions, n, s)
      BY <1>4, <1>5, LogStays
    <3> QED
      BY <1>3, <2>2, <3>1, <3>2 DEF PendingRow
  <2> QED
    BY <2>1, <2>2 DEF Agrees
<1>9. ASSUME NEW r \in DOMAIN runs PROVE Agrees(runs', steps', Append(transitions, x), r)
  <2>1. x.run_id # r
    BY <1>3, <1>4
  <2> HIDE DEF row
  <2> QED
    BY <1>3, <1>4, <1>6, <2>1, AgreesStill
<1> QED
  BY <1>1, <1>3, <1>7, <1>8, <1>9 DEF Story, Tells

(* The status of a step is written, and its transition with it. *)
LEMMA StoryGoesOn ==
    ASSUME StoreTypeOK, Story, NEW r \in DOMAIN runs, NEW s \in StepId, NEW row,
           NEW x \in TransitionRow,
           runs' = runs, steps' = [steps EXCEPT ![r][s] = row],
           transitions' = Append(transitions, x),
           x.run_id = r, x.step_id = s, x.to_state = row.status
    PROVE  Story'
<1>1. transitions \in Seq(TransitionRow) /\ s # Null
  BY NullAssumption DEF StoreTypeOK
<1>2. \A q \in DOMAIN runs, t \in StepId :
         steps'[q][t] = IF q = r /\ t = s THEN row ELSE steps[q][t]
  <2>1. DOMAIN steps = DOMAIN runs /\ \A q \in DOMAIN steps : steps[q] \in StepTable
    BY DEF StoreTypeOK
  <2> QED
    BY <2>1 DEF StepTable
<1>3. InOrder(runs, transitions) /\ \A q \in DOMAIN runs : Agrees(runs, steps, transitions, q)
  BY DEF Story, Tells
<1>4. InOrder(runs', Append(transitions, x))
  BY <1>1, <1>3, OrderStays
<1>5. ASSUME NEW q \in DOMAIN runs PROVE Agrees(runs', steps', Append(transitions, x), q)
  <2>1. \A t \in StepId : /\ x.run_id = q /\ x.step_id = t => steps'[q][t].status = x.to_state
                          /\ x.run_id # q \/ x.step_id # t => steps'[q][t] = steps[q][t]
    BY <1>2
  <2>2. x.step_id # Null /\ runs'[q].status = runs[q].status
    BY <1>1
  <2>3. InOrder(runs, transitions) /\ Agrees(runs, steps, transitions, q)
    BY <1>3
  <2>4. transitions \in Seq(TransitionRow)
    BY <1>1
  <2> QED
    BY <2>1, <2>2, <2>3, <2>4, AgreesStill
<1> QED
  BY <1>4, <1>5 DEF Story, Tells

(* The status of a run is written, and its transition with it. *)
LEMMA StoryCloses ==
    ASSUME TypeOK, Course, Story, NEW p \in Proc, LoopEnd(p)
    PROVE  Story'
<1> DEFINE r == job[p].run_id
           status == FinalStatus(job[p])
           x == Transition(r, Null, Null, status, "RUN_FINISHED")
<1>1. /\ runs' = [runs EXCEPT ![r].status = status] /\ steps' = steps
      /\ transitions' = Append(transitions, x)
  BY DEF LoopEnd, FinishRun
<1>2. r \in DOMAIN runs
  BY DEF LoopEnd, Course, OnCourse, Working, MadeFrom
<1>3. /\ DOMAIN runs' = DOMAIN runs
      /\ \A q \in DOMAIN runs : runs'[q].status = IF q = r THEN status ELSE runs[q].status
  <2>1. runs \in Seq(RunRow) /\ \A q \in DOMAIN runs : runs[q] \in RunRow
    BY DEF TypeOK, StoreTypeOK
  <2> QED
    BY <1>1, <1>2, <2>1 DEF RunRow
<1>4. /\ x \in TransitionRow /\ transitions \in Seq(TransitionRow)
      /\ x.run_id = r /\ x.step_id = Null /\ x.to_state = status
  <2>1. r \in Nat /\ status \in StepStatus
    BY <1>2 DEF TypeOK, StoreTypeOK, FinalStatus, StepStatus
  <2> QED
    BY <2>1 DEF Transition, TransitionRow, Reason, TypeOK, StoreTypeOK
<1>5. \A s \in StepId : s # Null
  BY NullAssumption
<1>6. InOrder(runs, transitions) /\ \A q \in DOMAIN runs : Agrees(runs, steps, transitions, q)
  BY DEF Story, Tells
<1> HIDE DEF x, r, status
<1>7. InOrder(runs', Append(transitions, x))
  BY <1>2, <1>3, <1>4, <1>6, OrderStays
<1>8. ASSUME NEW q \in DOMAIN runs PROVE Agrees(runs', steps', Append(transitions, x), q)
  BY <1>1, <1>3, <1>4, <1>5, <1>6, AgreesStill
<1> QED
  BY <1>1, <1>3, <1>7, <1>8 DEF Story, Tells

(* A process writes the status of its step and the transition to it, from  *)
(* the status it has seen.                                                 *)
LEMMA Writes ==
    ASSUME TypeOK, Course, NEW p \in Proc,
           RecordBlocked(p) \/ RecordStarted(p) \/ RecordFinished(p)
    PROVE  LET r == job[p].run_id
               s == CurrentStep(job[p])
           IN  \E row, x :
                  /\ x \in TransitionRow
                  /\ runs' = runs /\ steps' = [steps EXCEPT ![r][s] = row]
                  /\ transitions' = Append(transitions, x)
                  /\ x.run_id = r /\ x.step_id = s
                  /\ x.from_state = job[p].seen.status /\ x.to_state = row.status
<1> DEFINE r == job[p].run_id
           s == CurrentStep(job[p])
<1>0. /\ r \in Nat /\ job[p].seen.status \in StepStatus
      /\ job[p].result \in AttemptResult
  BY JobFacts DEF Job, Seen, TypeOK, LocalTypeOK
<1>1. r \in DOMAIN runs /\ s \in StepId /\ steps[r][s] \in StepRow
  BY RecordsARow
<1>2. ASSUME NEW to \in StepStatus, NEW reason \in Reason
      PROVE  LET x == Transition(r, s, job[p].seen.status, to, reason)
             IN  /\ x \in TransitionRow /\ x.run_id = r /\ x.step_id = s
                 /\ x.from_state = job[p].seen.status /\ x.to_state = to
  BY <1>0, <1>1 DEF Transition, TransitionRow
<1>3. CASE RecordBlocked(p)
  <2> DEFINE row == [steps[r][s] EXCEPT !.status = "BLOCKED"]
             x == Transition(r, s, job[p].seen.status, "BLOCKED", "DEPENDENCY_STATE")
  <2>1. /\ runs' = runs /\ steps' = [steps EXCEPT ![r][s] = row]
        /\ transitions' = Append(transitions, x)
    BY <1>3 DEF RecordBlocked, UpdateStepStatus
  <2>2. row.status = "BLOCKED"
    BY <1>1 DEF StepRow
  <2>3. /\ x \in TransitionRow /\ x.run_id = r /\ x.step_id = s
        /\ x.from_state = job[p].seen.status /\ x.to_state = "BLOCKED"
    BY <1>2 DEF StepStatus, Reason
  <2> QED
    BY <2>1, <2>2, <2>3
<1>4. CASE RecordStarted(p)
  <2> DEFINE row == StartedRow(steps[r][s], job[p].seen, Len(attempts) + 1, job[p].contract)
             x == Transition(r, s, job[p].seen.status, "RUNNING", "ATTEMPT_STARTED")
  <2>1. /\ runs' = runs /\ steps' = [steps EXCEPT ![r][s] = row]
        /\ transitions' = Append(transitions, x)
    BY <1>4 DEF RecordStarted, RecordStepStarted
  <2>2. row.status = "RUNNING"
    BY <1>1 DEF StartedRow, StepRow
  <2>3. /\ x \in TransitionRow /\ x.run_id = r /\ x.step_id = s
        /\ x.from_state = job[p].seen.status /\ x.to_state = "RUNNING"
    BY <1>2 DEF StepStatus, Reason
  <2> QED
    BY <2>1, <2>2, <2>3
<1>5. CASE RecordFinished(p)
  <2> DEFINE row == FinishedRow(steps[r][s], job[p].result, job[p].contract)
             reason == FinishReason(job[p].result)
             x == Transition(r, s, job[p].seen.status, job[p].result.status, reason)
  <2>1. /\ runs' = runs /\ steps' = [steps EXCEPT ![r][s] = row]
        /\ transitions' = Append(transitions, x)
    BY <1>5 DEF RecordFinished, RecordStepFinished
  <2>2. row.status = job[p].result.status
    BY <1>1 DEF FinishedRow, StepRow
  <2>3. reason \in Reason /\ job[p].result.status \in StepStatus
    BY <1>0 DEF FinishReason, AttemptResult, Reason, StepStatus
  <2>4. /\ x \in TransitionRow /\ x.run_id = r /\ x.step_id = s
        /\ x.from_state = job[p].seen.status /\ x.to_state = job[p].result.status
    BY <1>2, <2>3
  <2> QED
    BY <2>1, <2>2, <2>4
<1> QED
  BY <1>3, <1>4, <1>5

(* Every write of a status is one of these. *)
LEMMA StoryStep == TypeOK /\ Course /\ Story /\ [Next]_vars => Story'
<1> SUFFICES ASSUME TypeOK, Course, Story, [Next]_vars PROVE Story'
  OBVIOUS
<1>1. ASSUME UNCHANGED <<runs, steps, transitions>> PROVE Story'
  BY <1>1 DEF Story
<1>2. ASSUME NEW p \in Proc, RecordBlocked(p) \/ RecordStarted(p) \/ RecordFinished(p)
      PROVE  Story'
  <2> DEFINE r == job[p].run_id
             s == CurrentStep(job[p])
  <2>1. r \in DOMAIN runs /\ s \in StepId
    BY <1>2, RecordsARow
  <2>2. PICK row, x : /\ x \in TransitionRow
                      /\ runs' = runs /\ steps' = [steps EXCEPT ![r][s] = row]
                      /\ transitions' = Append(transitions, x)
                      /\ x.run_id = r /\ x.step_id = s /\ x.to_state = row.status
    BY <1>2, Writes
  <2>3. StoreTypeOK
    BY DEF TypeOK
  <2> HIDE DEF r, s
  <2> QED
    BY <2>1, <2>2, <2>3, StoryGoesOn
<1> QED
  BY <1>1, <1>2, StoryCreates, StoryCloses, StoryStays DEF Records

(* However many processes work on a run, and wherever they are killed, the *)
(* status of the run and of every step is where the last transition led:   *)
(* no reader of the log is told another story than a reader of the tables. *)
THEOREM LogIsTrue == Spec => []LogAgrees
<1>1. Init => Story
  BY DEF Init, StoreInit, Story, Tells, InOrder
<1>2. Story => LogAgrees
  BY DEF Story, Tells, Agrees, LogAgrees, LogIn, LastState, Log, StepsOf
<1> QED
  BY <1>1, <1>2, StoryStep, CourseCorrect, PTL DEF Spec

-----------------------------------------------------------------------------
(* With one process at a time each log is a path, too. *)

(* A transition that starts where its log has led continues the path. *)
LEMMA PathGrows ==
    ASSUME NEW R, NEW Q, NEW T \in Seq(TransitionRow), NEW x \in TransitionRow,
           InOrder(R, T), IsPath(R, T),
           x.step_id # Null =>
              /\ x.run_id \in DOMAIN R
              /\ x.from_state = StateBefore(T, LogIn(T, x.run_id, x.step_id))
    PROVE  IsPath(Q, Append(T, x))
<1> DEFINE U == Append(T, x)
           n == Len(T) + 1
<1>1. /\ DOMAIN U = DOMAIN T \cup {n} /\ n \notin DOMAIN T /\ n \in Nat
      /\ U[n] = x /\ \A i \in DOMAIN T : U[i] = T[i] /\ i \in Nat /\ i < n
  BY TableGrows
<1> SUFFICES ASSUME NEW r \in DOMAIN Q, NEW s \in StepId, NEW i \in LogIn(U, r, s)
             PROVE  LET earlier == Earlier(U, r, s, i)
                    IN  /\ earlier # {} => HasLast(earlier)
                        /\ U[i].from_state = StateBefore(U, earlier)
  BY DEF IsPath
<1>2. ASSUME NEW I, I \subseteq DOMAIN T, I # {} => HasLast(I)
      PROVE  StateBefore(U, I) = StateBefore(T, I)
  <2>1. CASE I # {}
    <3>1. LastOf(I) \in I
      BY <1>2, <2>1 DEF HasLast, LastOf
    <3>2. U[LastOf(I)] = T[LastOf(I)]
      BY <1>1, <1>2, <3>1
    <3> HIDE DEF U
    <3> QED
      BY <2>1, <3>2 DEF StateBefore
  <2>2. CASE I = {}
    BY <2>2 DEF StateBefore
  <2> QED
    BY <2>1, <2>2
<1> HIDE DEF U, n
<1>5. LogIn(U, r, s) \cap DOMAIN T = LogIn(T, r, s) /\ LogIn(U, r, s) \subseteq DOMAIN T \cup {n}
  BY <1>1 DEF LogIn
<1>3. CASE i = n
  <2>1. x.run_id = r /\ x.step_id = s /\ s # Null
    BY <1>1, <1>3, NullAssumption DEF LogIn
  <2>2. Earlier(U, r, s, i) = LogIn(T, r, s)
    <3>1. \A k : k \in Earlier(U, r, s, i) <=> k \in LogIn(U, r, s) /\ k \in DOMAIN T
      BY <1>1, <1>3, <1>5 DEF Earlier
    <3> QED
      BY <1>5, <3>1
  <2>3. LogIn(T, r, s) \subseteq DOMAIN T /\ (LogIn(T, r, s) # {} => HasLast(LogIn(T, r, s)))
    BY <2>1 DEF LogIn, InOrder
  <2> QED
    BY <1>1, <1>2, <1>3, <2>1, <2>2, <2>3
<1>4. CASE i \in DOMAIN T
  <2>1. U[i] = T[i] /\ i \in LogIn(T, r, s) /\ r \in DOMAIN R
    BY <1>1, <1>4 DEF LogIn, InOrder
  <2>2. Earlier(U, r, s, i) = Earlier(T, r, s, i) /\ Earlier(T, r, s, i) \subseteq DOMAIN T
    <3>1. \A k : k \in Earlier(U, r, s, i) <=> k \in LogIn(U, r, s) /\ k \in DOMAIN T /\ k < i
      BY <1>1, <1>4, <1>5 DEF Earlier
    <3>2. \A k : k \in Earlier(T, r, s, i) <=> k \in LogIn(T, r, s) /\ k < i
      BY DEF Earlier
    <3>3. Earlier(U, r, s, i) = Earlier(T, r, s, i)
      BY <1>5, <3>1, <3>2
    <3> QED
      BY <3>1, <3>3
  <2>3. /\ Earlier(T, r, s, i) # {} => HasLast(Earlier(T, r, s, i))
        /\ T[i].from_state = StateBefore(T, Earlier(T, r, s, i))
    BY <2>1 DEF IsPath
  <2> QED
    BY <1>2, <2>1, <2>2, <2>3
<1> QED
  BY <1>1, <1>3, <1>4 DEF LogIn

(* A process that has read its row has just done so, or goes on. *)
LEMMA HasJustRead ==
    ASSUME TypeOK, [Next]_vars, NEW p \in Proc, HasRead(p)'
    PROVE  \/ Stays(p)
           \/ job' = SeeRow(p) /\ UNCHANGED store
<1>0. LocalTypeOK
  BY DEF TypeOK
<1>1. ASSUME NEW command, Launch(p, command) \/ Crash(p) \/ Answered(p) PROVE FALSE
  BY <1>0, <1>1 DEF Launch, Crash, Answered, Goto, Exit, LocalTypeOK, HasRead
<1>2. CASE StepBlocked(p) \/ SelectStarted(p) \/ SelectFinished(p)
  BY <1>2 DEF StepBlocked, SelectStarted, SelectFinished
<1>3. CASE Step(p) /\ ~(StepBlocked(p) \/ SelectStarted(p) \/ SelectFinished(p))
  <2>0. /\ pc'[p] \in {"block", "record_started", "record_finished"}
        /\ \A label : pc' = [pc EXCEPT ![p] = label] => pc'[p] = label
    BY <1>0 DEF LocalTypeOK, HasRead
  <2>1. /\ \A status : ~Exit(p, status) /\ ~Advance(p, status)
        /\ \A label : Goto(p, label) => label \in {"block", "record_started", "record_finished"}
        /\ pc'[p] = pc[p] => pc[p] \in {"block", "record_started", "record_finished"}
    BY <2>0 DEF Exit, Advance, Goto
  <2>2. /\ ~ExecuteRunbook(p) /\ \A k, r : ~ResumeStale(p, r, k)
        /\ \A k, r, confirmed : ~ResumeRunbook(p, r, k, confirmed)
        /\ \A r : ~RepairLoad(p, r)
    <3>1. ~Goto(p, "loop") /\ ~Goto(p, "survey")
      BY <2>1
    <3> QED
      BY <2>1, <3>1 DEF ExecuteRunbook, ResumeRunbook, ResumeStale, RepairLoad
  <2>3. ~(\/ StepReuse(p) \/ RecordBlocked(p) \/ RecordFinished(p) \/ StepUnconfirmed(p)
          \/ LoopEnd(p) \/ ObserveRejected(p) \/ ObserveBefore(p))
    BY <2>1 DEF StepReuse, AtStep, RecordBlocked, RecordFinished, StepUnconfirmed, LoopEnd,
       ObserveRejected, ObserveBefore
  <2>4. ~(RecordStarted(p) \/ Spawn(p) \/ SpawnError(p) \/ ObserveAfter(p))
    BY <2>1 DEF RecordStarted, Spawn, SpawnError, ObserveAfter
  <2>5. ~(SurveyStep(p) \/ SurveyDone(p) \/ SurveyFails(p) \/ EvaluateNext(p) \/ SavePlan(p))
    BY <2>1 DEF SurveyStep, SurveyDone, Surveying, SurveyFails, SavePlan, EvaluateNext
  <2> QED
    BY <1>3, <2>2, <2>3, <2>4, <2>5 DEF Step
<1> QED
  BY <1>0, <1>1, <1>2, <1>3, ProcessStep

(* Whoever writes has not read any more. *)
LEMMA WritesOnce ==
    ASSUME TypeOK, NEW p \in Proc, Records(p)
    PROVE  ~HasRead(p)'
<1>1. LocalTypeOK
  BY DEF TypeOK
<1> QED
  BY <1>1 DEF Records, ExecuteRunbook, RecordBlocked, LoopEnd, RecordStarted, RecordFinished,
     Advance, Exit, Goto, LocalTypeOK, HasRead

LEMMA ReadStep ==
    ASSUME OneProcess, TypeOK, ReadIsTrue, [Next]_vars
    PROVE  ReadIsTrue'
<1> SUFFICES ASSUME NEW p \in Proc, HasRead(p)'
             PROVE  job'[p].seen = Select(job[p].run_id, CurrentStep(job[p]))'
  BY DEF ReadIsTrue
<1>1. UNCHANGED steps
  BY StoryStays, WritesOnce DEF OneProcess
<1>2. CASE Stays(p)
  BY <1>1, <1>2 DEF Stays, HasRead, ReadIsTrue, Select, CurrentStep, Order
<1>3. CASE job' = SeeRow(p)
  <2>1. /\ job'[p].seen = Select(job[p].run_id, CurrentStep(job[p]))
        /\ job'[p].run_id = job[p].run_id /\ CurrentStep(job'[p]) = CurrentStep(job[p])
    BY <1>3 DEF SeeRow, TypeOK, LocalTypeOK, Job, CurrentStep, Order
  <2> QED
    BY <1>1, <2>1 DEF Select
<1> QED
  BY <1>2, <1>3, HasJustRead

(* Every operation that writes a status of a step starts from the one it   *)
(* has read, which is where the log has led.                               *)
LEMMA PathStep ==
    ASSUME TypeOK, Course, Story, Chain, [Next]_vars
    PROVE  IsPath(runs', transitions')
<1>0. /\ InOrder(runs, transitions) /\ \A q \in DOMAIN runs : Agrees(runs, steps, transitions, q)
      /\ IsPath(runs, transitions) /\ transitions \in Seq(TransitionRow)
  BY DEF Story, Tells, Chain, TypeOK, StoreTypeOK
<1>1. CASE UNCHANGED <<runs, steps, transitions>>
  BY <1>0, <1>1
<1>2. ASSUME NEW x \in TransitionRow, transitions' = Append(transitions, x), x.step_id = Null
      PROVE  IsPath(runs', transitions')
  <2>1. IsPath(runs', Append(transitions, x))
    BY <1>0, <1>2, PathGrows
  <2> QED
    BY <1>2, <2>1
<1>3. ASSUME NEW p \in Proc, ExecuteRunbook(p) \/ LoopEnd(p)
      PROVE  \E x \in TransitionRow : transitions' = Append(transitions, x) /\ x.step_id = Null
  <2> DEFINE created == Transition(Len(runs) + 1, Null, Null, "RUNNING", "RUN_CREATED")
             ended == Transition(job[p].run_id, Null, Null, FinalStatus(job[p]), "RUN_FINISHED")
  <2>1. transitions' = Append(transitions, created) \/ transitions' = Append(transitions, ended)
    BY <1>3 DEF ExecuteRunbook, CreateRun, LoopEnd, FinishRun
  <2>2. created \in TransitionRow /\ created.step_id = Null
    BY DEF Transition, TransitionRow, StepStatus, Reason, TypeOK, StoreTypeOK
  <2>3. ended \in TransitionRow /\ ended.step_id = Null
    <3>1. job[p].run_id \in Nat
      BY JobFacts DEF Job
    <3> QED
      BY <3>1 DEF Transition, TransitionRow, FinalStatus, StepStatus, Reason
  <2> QED
    BY <2>1, <2>2, <2>3
<1>4. ASSUME NEW p \in Proc, RecordBlocked(p) \/ RecordStarted(p) \/ RecordFinished(p)
      PROVE  IsPath(runs', transitions')
  <2> DEFINE r == job[p].run_id
             s == CurrentStep(job[p])
  <2>1. r \in DOMAIN runs /\ s \in StepId /\ steps[r][s] \in StepRow
    BY <1>4, RecordsARow
  <2>2. PICK x \in TransitionRow :
           /\ transitions' = Append(transitions, x)
           /\ x.run_id = r /\ x.step_id = s /\ x.from_state = job[p].seen.status
    BY <1>4, Writes
  <2>3. job[p].seen.status = steps[r][s].status
    <3>1. HasRead(p)
      BY <1>4 DEF HasRead, RecordBlocked, RecordStarted, RecordFinished
    <3>2. job[p].seen = Select(r, s)
      BY <3>1 DEF Chain, ReadIsTrue
    <3> HIDE DEF r, s
    <3> QED
      BY <3>2 DEF Select
  <2>4. steps[r][s].status = StateBefore(transitions, LogIn(transitions, r, s))
    <3>1. steps[r][s] # Null
      BY <2>1, AbsenceAssumption
    <3> HIDE DEF r, s
    <3> QED
      BY <1>0, <2>1, <3>1 DEF Agrees, StateBefore, LastState
  <2>5. IsPath(runs', Append(transitions, x))
    <3> HIDE DEF r, s
    <3> QED
      BY <1>0, <2>1, <2>2, <2>3, <2>4, PathGrows
  <2> QED
    BY <2>2, <2>5
<1> QED
  BY <1>1, <1>2, <1>3, <1>4, StoryStays DEF Records

(* As long as one process at a time works on a store, wherever it is       *)
(* killed, the transitions of each step follow on one another.             *)
THEOREM LogIsAPath ==
    ASSUME OneProcess
    PROVE  Spec => []LogIsChained
<1>1. Init => Story /\ Chain
  BY DEF Init, StoreInit, Story, Tells, InOrder, Chain, IsPath, ReadIsTrue, HasRead
<1>2. TypeOK /\ Course /\ Story /\ Chain /\ [Next]_vars => Story' /\ Chain'
  BY StoryStep, PathStep, ReadStep DEF Chain
<1>3. Chain => LogIsChained
  BY DEF Chain, IsPath, LogIsChained, Log, LogIn, Earlier, StateBefore, StepsOf
<1> QED
  BY <1>1, <1>2, <1>3, CourseCorrect, PTL DEF Spec

=============================================================================
