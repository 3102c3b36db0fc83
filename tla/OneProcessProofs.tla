--------------------------- MODULE OneProcessProofs ---------------------------
(***************************************************************************)
(* What holds while one process at a time works on a store.                *)
(*                                                                         *)
(* A step starts only after all it depends on has succeeded, and the       *)
(* summary of a run is that of its rows: for a run, and for a resume whose *)
(* plan is current.  A plan is current if the log of its run has not grown *)
(* since the records were loaded; then the rows are still these records    *)
(* (Dated, which holds for any number of processes), and the loop knows    *)
(* them (LoopIsCurrent).                                                   *)
(*                                                                         *)
(* The attempts of a step are counted: the row was read before it is       *)
(* written, and nobody else has written in between (ReadIsTrue).           *)
(*                                                                         *)
(* And a repair right after a success reuses all of it.  While nobody      *)
(* edits and no process is killed, only the command that is awaited writes *)
(* files; it belongs to a step that nothing behind the loop depends on, so *)
(* it takes no input away from the successes that the loop goes by         *)
(* (Lasting), which are all there is when it ends with SUCCEEDED.          *)
(***************************************************************************)
EXTENDS StoreProofs

-----------------------------------------------------------------------------
(* The age of records *)

(* The mark of a run counts its transitions. *)
LEMMA MarkGrows ==
    ASSUME NEW T \in Seq(TransitionRow), NEW x \in TransitionRow, NEW r
    PROVE  /\ MarkIn(T, r) \in Nat
           /\ MarkIn(Append(T, x), r) = IF x.run_id = r THEN MarkIn(T, r) + 1 ELSE MarkIn(T, r)
<1> DEFINE U == Append(T, x)
           I == {i \in DOMAIN T : T[i].run_id = r}
           J == {i \in DOMAIN U : U[i].run_id = r}
           n == Len(T) + 1
<1>1. IsFiniteSet(I)
  <2>1. DOMAIN T = 1..Len(T) /\ Len(T) \in Nat
    OBVIOUS
  <2>2. IsFiniteSet(DOMAIN T) /\ I \subseteq DOMAIN T
    BY <2>1, FS_Interval
  <2> HIDE DEF I
  <2> QED
    BY <2>2, FS_Subset
<1>2. n \notin I /\ J = IF x.run_id = r THEN I \cup {n} ELSE I
  <2>1. /\ DOMAIN U = DOMAIN T \cup {n} /\ n \notin DOMAIN T
        /\ U[n] = x /\ \A i \in DOMAIN T : U[i] = T[i]
    BY TableGrows
  <2> HIDE DEF n, U
  <2> QED
    BY <2>1
<1>3. MarkIn(T, r) = Cardinality(I) /\ MarkIn(U, r) = Cardinality(J)
  BY DEF MarkIn
<1> HIDE DEF I, J, n, U
<1>4. MarkIn(T, r) \in Nat
  BY <1>1, <1>3, FS_CardinalityType
<1>5. MarkIn(U, r) = IF x.run_id = r THEN MarkIn(T, r) + 1 ELSE MarkIn(T, r)
  BY <1>1, <1>2, <1>3, FS_AddElement
<1> QED
  BY <1>4, <1>5 DEF U

(* A transition that is recorded is of the one run whose rows may change.  *)
LEMMA TablesStep ==
    ASSUME TypeOK, Course, [Next]_vars
    PROVE  \/ UNCHANGED <<runs, steps, transitions>>
           \/ \E x \in TransitionRow :
                 /\ transitions' = Append(transitions, x)
                 /\ \A r \in DOMAIN runs : x.run_id = r \/ steps'[r] = steps[r]
<1>1. ASSUME NEW p \in Proc, ExecuteRunbook(p)
      PROVE  \E x \in TransitionRow :
                 /\ transitions' = Append(transitions, x)
                 /\ \A r \in DOMAIN runs : x.run_id = r \/ steps'[r] = steps[r]
  <2> DEFINE x == Transition(Len(runs) + 1, Null, Null, "RUNNING", "RUN_CREATED")
  <2>1. transitions' = Append(transitions, x) /\ \E row : steps' = Append(steps, row)
    BY <1>1 DEF ExecuteRunbook, CreateRun
  <2>2. x \in TransitionRow
    BY DEF Transition, TransitionRow, StepStatus, Reason, TypeOK, StoreTypeOK
  <2>3. \A r \in DOMAIN runs : steps'[r] = steps[r]
    BY <2>1 DEF TypeOK, StoreTypeOK
  <2> QED
    BY <2>1, <2>2, <2>3
<1>2. ASSUME NEW p \in Proc, LoopEnd(p)
      PROVE  \E x \in TransitionRow :
                 /\ transitions' = Append(transitions, x)
                 /\ \A r \in DOMAIN runs : x.run_id = r \/ steps'[r] = steps[r]
  <2> DEFINE x == Transition(job[p].run_id, Null, Null, FinalStatus(job[p]), "RUN_FINISHED")
  <2>1. transitions' = Append(transitions, x) /\ steps' = steps
    BY <1>2 DEF LoopEnd, FinishRun
  <2>2. job[p].run_id \in Nat
    BY JobFacts DEF Job
  <2>3. x \in TransitionRow
    BY <2>2 DEF Transition, TransitionRow, FinalStatus, StepStatus, Reason
  <2> QED
    BY <2>1, <2>3
<1>3. ASSUME NEW p \in Proc, RecordBlocked(p) \/ RecordStarted(p) \/ RecordFinished(p)
      PROVE  \E x \in TransitionRow :
                 /\ transitions' = Append(transitions, x)
                 /\ \A r \in DOMAIN runs : x.run_id = r \/ steps'[r] = steps[r]
  <2> DEFINE q == job[p].run_id
             s == CurrentStep(job[p])
  <2>1. PICK row, x : /\ x \in TransitionRow /\ transitions' = Append(transitions, x)
                      /\ x.run_id = q /\ steps' = [steps EXCEPT ![q][s] = row]
    BY <1>3, Writes
  <2>2. DOMAIN steps = DOMAIN runs
    BY DEF TypeOK, StoreTypeOK
  <2> HIDE DEF q, s
  <2>3. \A r \in DOMAIN runs : x.run_id = r \/ steps'[r] = steps[r]
    BY <2>1, <2>2
  <2> QED
    BY <2>1, <2>3
<1> QED
  BY <1>1, <1>2, <1>3, StoryStays DEF Records

(* Records that were up to date either are, or their run has a longer log. *)
LEMMA AgeStep ==
    ASSUME TypeOK, Course, [Next]_vars, NEW r, NEW mark \in Nat, NEW records,
           UpToDate(runs, steps, transitions, r, mark, records)
    PROVE  UpToDate(runs', steps', transitions', r, mark, records)
<1>1. r \in DOMAIN runs /\ r \in DOMAIN runs' /\ transitions \in Seq(TransitionRow)
  BY RunsKept DEF UpToDate, TypeOK, StoreTypeOK
<1>2. CASE UNCHANGED <<runs, steps, transitions>>
  BY <1>2
<1>3. ASSUME NEW x \in TransitionRow, transitions' = Append(transitions, x),
             x.run_id = r \/ steps'[r] = steps[r]
      PROVE  UpToDate(runs', steps', transitions', r, mark, records)
  <2>1. /\ MarkIn(transitions, r) \in Nat
        /\ MarkIn(transitions', r) = IF x.run_id = r THEN MarkIn(transitions, r) + 1
                                     ELSE MarkIn(transitions, r)
    BY <1>1, <1>3, MarkGrows
  <2> QED
    BY <1>1, <1>3, <2>1 DEF UpToDate
<1> QED
  BY <1>1, <1>2, <1>3, TablesStep

LEMMA PlansDatedStep ==
    ASSUME TypeOK, Course, Dated, [Next]_vars, NEW k \in DOMAIN plans'
    PROVE  PlanIsDated(runs', steps', transitions', plans'[k], history'.surveys[k])
<1> DEFINE Now(plan, survey) == PlanIsDated(runs, steps, transitions, plan, survey)
           Then(plan, survey) == PlanIsDated(runs', steps', transitions', plan, survey)
<1>0. /\ plans \in Seq(PlanRow) /\ history \in History
      /\ Len(history.surveys) = Len(plans) /\ history.surveys \in Seq(Survey)
  BY DEF TypeOK, StoreTypeOK, WorldTypeOK, History
<1>1. ASSUME NEW plan, NEW survey, survey.mark \in Nat, Now(plan, survey)
      PROVE  Then(plan, survey)
  BY <1>1, AgeStep DEF PlanIsDated
<1>2. ASSUME NEW i \in DOMAIN plans
      PROVE  history.surveys[i].mark \in Nat /\ Now(plans[i], history.surveys[i])
  <2>1. history.surveys[i] \in Survey
    BY <1>0
  <2> QED
    BY <2>1 DEF Dated, Survey
<1>3. CASE plans' = plans /\ history'.surveys = history.surveys
  <2>1. Then(plans[k], history.surveys[k])
    BY <1>1, <1>2, <1>3
  <2> QED
    BY <1>3, <2>1
<1>4. ASSUME NEW p \in Proc, SavePlan(p)
      PROVE  Then(plans'[k], history'.surveys[k])
  <2> DEFINE j == job[p]
             plan == [run_id |-> j.run_id, source_runbook_digest |-> RunbookDigest(j.runbook),
                      decisions |-> j.decisions]
             survey == [inputs |-> j.inputs, records |-> j.records, mark |-> j.mark]
  <2>1. plans' = Append(plans, plan) /\ history'.surveys = Append(history.surveys, survey)
    BY <1>0, <1>4 DEF SavePlan, SaveRepairPlan, History
  <2>2. j.mark \in Nat
    BY JobFacts DEF Job
  <2>3. Evaluated(j) = Steps(Book[RunbookDigest(j.runbook)])
    BY <1>4, SavedOrder, JobFacts, DigestFacts
  <2>4. Now(plan, survey)
    BY <1>4, <2>3 DEF SavePlan, Dated, RepairIsDated, PlanIsDated
  <2>5. survey.mark \in Nat
    BY <2>2
  <2> HIDE DEF plan, survey, Now, Then
  <2>6. \/ plans'[k] = plan /\ history'.surveys[k] = survey
        \/ k \in DOMAIN plans /\ plans'[k] = plans[k] /\ history'.surveys[k] = history.surveys[k]
    BY <1>0, <2>1
  <2>7. Then(plan, survey)
    BY <1>1, <2>4, <2>5
  <2>8. \A i \in DOMAIN plans : Then(plans[i], history.surveys[i])
    BY <1>1, <1>2
  <2> QED
    BY <2>6, <2>7, <2>8
<1> QED
  BY <1>3, <1>4, HistoryStep

(* The records of a repair grow old while it surveys and evaluates. *)
LEMMA RepairDatedStep ==
    ASSUME TypeOK, Course, Dated, [Next]_vars, NEW p \in Proc
    PROVE  RepairIsDated(p)'
<1>0. job[p] \in Job /\ LocalTypeOK /\ job[p].mark \in Nat
  BY JobFacts DEF TypeOK, Job
<1> DEFINE j == job[p]
           Now(r, mark, records) == UpToDate(runs, steps, transitions, r, mark, records)
           Then(r, mark, records) == UpToDate(runs', steps', transitions', r, mark, records)
           SameRecords == /\ job'[p].run_id = j.run_id /\ job'[p].mark = j.mark
                          /\ job'[p].records = j.records
<1>1. ASSUME Now(j.run_id, j.mark, j.records), SameRecords
      PROVE  Then(job'[p].run_id, job'[p].mark, job'[p].records)
  <2>1. Then(j.run_id, j.mark, j.records)
    BY <1>0, <1>1, AgeStep
  <2> QED
    BY <1>1, <2>1
<1>2. ASSUME pc'[p] = "survey"
      PROVE  Then(job'[p].run_id, job'[p].mark, job'[p].records)
  <2>1. CASE Stays(p) \/ SurveyStep(p)
    <3>1. SameRecords /\ pc[p] = "survey"
      BY <1>0, <1>2, <2>1 DEF Stays, SurveyStep, Surveying, LocalTypeOK, Job
    <3> QED
      BY <1>1, <3>1 DEF Dated, RepairIsDated
  <2>2. ASSUME NEW r \in DOMAIN runs, RepairLoad(p, r)
        PROVE  Then(job'[p].run_id, job'[p].mark, job'[p].records)
    <3>1. /\ job'[p].run_id = r /\ job'[p].mark = Mark(r) /\ job'[p].records = steps[r]
          /\ UNCHANGED store
      BY <1>0, <2>2 DEF RepairLoad, LocalTypeOK, Job
    <3>2. Mark(r) \in Nat /\ Mark(r) = MarkIn(transitions, r)
      BY MarkType DEF Mark, MarkIn
    <3>3. Now(r, Mark(r), steps[r])
      BY <3>2 DEF UpToDate
    <3>4. Then(r, Mark(r), steps[r])
      BY <3>1, <3>3 DEF store
    <3> QED
      BY <3>1, <3>4
  <2> QED
    BY <1>2, <2>1, <2>2, Surveys
<1>3. ASSUME pc'[p] = "evaluate"
      PROVE  /\ Then(job'[p].run_id, job'[p].mark, job'[p].records)
             /\ ReusesSuccess(job'[p].decisions, job'[p].records, Evaluated(job'[p]))
  <2>1. CASE Stays(p)
    <3>1. SameRecords /\ pc[p] = "evaluate" /\ job'[p] = j
      BY <1>3, <2>1 DEF Stays
    <3> QED
      BY <1>1, <3>1 DEF Dated, RepairIsDated
  <2>2. CASE SurveyDone(p)
    <3>1. SameRecords /\ pc[p] = "survey" /\ job'[p].position = 1 /\ job'[p].runbook = j.runbook
      BY <1>0, <2>2 DEF SurveyDone, LocalTypeOK, Job
    <3>2. Order(job'[p]) \in Seq(StepId)
      BY <3>1, JobFacts DEF Order
    <3>3. Evaluated(job'[p]) = {}
      BY <3>1, <3>2 DEF Evaluated
    <3> QED
      BY <1>1, <3>1, <3>3 DEF Dated, RepairIsDated, ReusesSuccess
  <2>3. CASE EvaluateNext(p)
    <3> DEFINE s == CurrentStep(j)
               d == EvaluateStep(Current(j), j.records[s], j.contexts[s], j.decisions)
    <3>1. j.position \in DOMAIN Order(j)
      BY <2>3, JobFacts DEF EvaluateNext, Course, OnCourse
    <3>2. /\ job'[p].position = j.position + 1 /\ job'[p].runbook = j.runbook
          /\ job'[p].decisions = [j.decisions EXCEPT ![s] = d]
          /\ SameRecords /\ pc[p] = "evaluate"
      BY <1>0, <2>3 DEF EvaluateNext, LocalTypeOK, Job
    <3>3. Order(job'[p]) = Order(j) /\ Order(j) \in Seq(StepId)
      BY <3>2, JobFacts DEF Order
    <3>4. Evaluated(job'[p]) \subseteq Evaluated(j) \cup {s}
      BY <3>1, <3>2, <3>3, JobFacts DEF Evaluated, CurrentStep
    <3>5. d.decision = "REUSE" => j.records[s].status = "SUCCEEDED"
      BY EvaluateStepSound
    <3>6. j.decisions \in [StepId -> RepairDecision \cup {Null}]
      BY <1>0 DEF Job, Decisions
    <3>7. /\ Now(j.run_id, j.mark, j.records)
          /\ ReusesSuccess(j.decisions, j.records, Evaluated(j))
      BY <3>2 DEF Dated, RepairIsDated
    <3>8. Evaluated(j) \subseteq StepId /\ s \in StepId
      BY <3>1, <3>3, AtAStep DEF Evaluated
    <3>9. Then(job'[p].run_id, job'[p].mark, job'[p].records)
      BY <1>1, <3>2, <3>7
    <3> HIDE DEF d, s, j, Now, Then
    <3>10. ReusesSuccess(job'[p].decisions, j.records, Evaluated(j) \cup {s})
      BY <3>2, <3>5, <3>6, <3>7, <3>8 DEF ReusesSuccess
    <3> QED
      BY <3>2, <3>4, <3>9, <3>10 DEF ReusesSuccess
  <2> QED
    BY <1>3, <2>1, <2>2, <2>3, Evaluates
<1>4. Evaluated(job'[p]) = Evaluated(job[p])'
  BY DEF Evaluated, Order
<1> QED
  BY <1>2, <1>3, <1>4 DEF RepairIsDated, ReusesSuccess

LEMMA DatedStep == TypeOK /\ Course /\ Dated /\ [Next]_vars => Dated'
  BY PlansDatedStep, RepairDatedStep DEF Dated

-----------------------------------------------------------------------------
(* The rows *)

(* The operation that records an end of a step writes one row of the run.  *)
LEMMA WritesARow ==
    ASSUME TypeOK, Course, NEW p \in Proc,
           RecordBlocked(p) \/ RecordStarted(p) \/ RecordFinished(p)
    PROVE  LET r == job[p].run_id
               s == CurrentStep(job[p])
           IN  /\ runs' = runs
               /\ \A q \in DOMAIN runs, t \in StepId :
                     ~(q = r /\ t = s) => steps'[q][t] = steps[q][t]
               /\ RecordBlocked(p) => steps'[r][s].status = "BLOCKED"
               /\ RecordFinished(p) => steps'[r][s].status = job[p].result.status
<1>0. StoreTypeOK
  BY DEF TypeOK
<1> DEFINE r == job[p].run_id
           s == CurrentStep(job[p])
<1>1. r \in DOMAIN runs /\ s \in StepId /\ steps[r][s] \in StepRow
  BY RecordsARow
<1>2. PICK row : runs' = runs /\ steps' = [steps EXCEPT ![r][s] = row]
  BY Writes
<1> DEFINE blocked == [steps[r][s] EXCEPT !.status = "BLOCKED"]
           finished == FinishedRow(steps[r][s], job[p].result, job[p].contract)
<1>3. RecordBlocked(p) => steps' = [steps EXCEPT ![r][s] = blocked]
  BY DEF RecordBlocked, UpdateStepStatus
<1>4. RecordFinished(p) => steps' = [steps EXCEPT ![r][s] = finished]
  BY DEF RecordFinished, RecordStepFinished
<1>5. blocked.status = "BLOCKED"
  BY <1>1 DEF StepRow
<1>6. finished.status = job[p].result.status
  BY <1>1 DEF StepRow, FinishedRow
<1>7. DOMAIN steps = DOMAIN runs /\ \A q \in DOMAIN runs : steps[q] \in StepTable
  BY <1>0 DEF StoreTypeOK
<1> HIDE DEF r, s, blocked, finished
<1>8. \A q \in DOMAIN runs, t \in StepId : ~(q = r /\ t = s) => steps'[q][t] = steps[q][t]
  BY <1>0, <1>1, <1>2, RowReplaced
<1>9. ASSUME NEW new, steps' = [steps EXCEPT ![r][s] = new] PROVE steps'[r][s] = new
  BY <1>1, <1>7, <1>9 DEF StepTable
<1>10. RecordBlocked(p) => steps'[r][s].status = "BLOCKED"
  BY <1>3, <1>5, <1>9
<1>11. RecordFinished(p) => steps'[r][s].status = job[p].result.status
  BY <1>4, <1>6, <1>9
<1> QED
  BY <1>2, <1>8, <1>10, <1>11 DEF r, s

LEMMA RowsOfBookStep ==
    ASSUME TypeOK, Course, RowsAreOfBook, [Next]_vars
    PROVE  RowsAreOfBook'
<1>0. StoreTypeOK
  BY DEF TypeOK
<1> SUFFICES ASSUME NEW r \in DOMAIN runs', NEW s \in StepId, steps'[r][s] # Null
             PROVE  s \in Steps(Book[runs'[r].runbook_digest])
  BY DEF RowsAreOfBook, StepsOf
<1>1. ASSUME r \in DOMAIN runs, steps[r][s] # Null
      PROVE  s \in Steps(Book[runs'[r].runbook_digest])
  <2>1. runs'[r].runbook_digest = runs[r].runbook_digest
    BY <1>1, RunsKept
  <2> QED
    BY <1>1, <2>1 DEF RowsAreOfBook, StepsOf
<1>2. ASSUME NEW p \in Proc, ExecuteRunbook(p)
      PROVE  s \in Steps(Book[runs'[r].runbook_digest])
  <2> DEFINE v == job[p].runbook
             new == [t \in StepId |-> IF t \in Steps(Book[v]) THEN PendingRow ELSE Null]
             run == [runbook_digest |-> RunbookDigest(v), status |-> "RUNNING"]
  <2>1. runs' = Append(runs, run) /\ steps' = Append(steps, new)
    BY <1>2 DEF ExecuteRunbook, CreateRun
  <2>2. Steps(Book[RunbookDigest(v)]) = Steps(Book[v])
    BY JobFacts, DigestFacts
  <2>3. new[s] # Null => s \in Steps(Book[run.runbook_digest])
    BY <2>2
  <2> HIDE DEF new, run
  <2>4. \/ runs'[r] = run /\ steps'[r] = new
        \/ r \in DOMAIN runs /\ steps'[r] = steps[r]
    BY <1>0, <2>1 DEF StoreTypeOK
  <2> QED
    BY <1>1, <2>3, <2>4
<1>3. ASSUME NEW p \in Proc, RecordBlocked(p) \/ RecordStarted(p) \/ RecordFinished(p)
      PROVE  s \in Steps(Book[runs'[r].runbook_digest])
  <2>1. Working(p)
    BY <1>3 DEF RecordBlocked, RecordStarted, RecordFinished, Working, Executing
  <2>2. /\ runs' = runs /\ CurrentStep(job[p]) \in Steps(Book[job[p].runbook])
        /\ runs[job[p].run_id].runbook_digest = RunbookDigest(job[p].runbook)
    BY <1>3, <2>1, WritesARow, RecordsARow DEF Course, OnCourse, MadeFrom
  <2>3. Steps(Book[RunbookDigest(job[p].runbook)]) = Steps(Book[job[p].runbook])
    BY JobFacts, DigestFacts
  <2>4. CASE r = job[p].run_id /\ s = CurrentStep(job[p])
    BY <2>2, <2>3, <2>4
  <2>5. CASE ~(r = job[p].run_id /\ s = CurrentStep(job[p]))
    <3>1. r \in DOMAIN runs /\ steps'[r][s] = steps[r][s]
      BY <1>3, <2>2, <2>5, WritesARow
    <3> QED
      BY <1>1, <3>1
  <2> QED
    BY <2>4, <2>5
<1>4. ASSUME NEW p \in Proc, LoopEnd(p) PROVE r \in DOMAIN runs /\ steps' = steps
  BY <1>0, <1>4 DEF LoopEnd, FinishRun, StoreTypeOK
<1>5. CASE UNCHANGED <<runs, steps, attempts>>
  BY <1>1, <1>5
<1> QED
  BY <1>1, <1>2, <1>3, <1>4, <1>5, StoreStep DEF Records

-----------------------------------------------------------------------------
(* The loop of a process that is alone *)

(* A process at a blocked step, or one that executes, does not reuse it;   *)
(* and one that executes knows that what the step depends on has succeeded.*)
LEMMA NotReusedStep ==
    ASSUME TypeOK, \A p \in Proc : LoopIsCurrent(p), [Next]_vars, NEW p \in Proc,
           pc'[p] = "block" \/ Executing(p)'
    PROVE  ~Planned(job'[p], {"REUSE"})
<1>0. job[p] \in Job /\ LocalTypeOK
  BY JobFacts DEF TypeOK
<1>1. ASSUME job'[p].command = job[p].command, job'[p].decisions = job[p].decisions,
             job'[p].position = job[p].position, job'[p].runbook = job[p].runbook,
             ~Planned(job[p], {"REUSE"})
      PROVE  ~Planned(job'[p], {"REUSE"})
  BY <1>1 DEF Planned, CurrentStep, Order
<1>2. CASE StepBlocked(p)
  <2>1. ~Planned(job[p], {"REUSE"})
    BY <1>2 DEF StepBlocked, Blocked, Planned
  <2> QED
    BY <1>0, <1>1, <1>2, <2>1 DEF StepBlocked, SeeRow, LocalTypeOK, Job
<1>3. CASE ObserveBefore(p)
  <2>1. ~Planned(job[p], {"REUSE"})
    BY <1>3 DEF ObserveBefore, Planned
  <2> QED
    BY <1>0, <1>1, <1>3, <2>1 DEF ObserveBefore, LocalTypeOK, Job
<1>4. CASE Stays(p)
  BY <1>4 DEF Stays, LoopIsCurrent, Executing
<1>5. CASE Executing(p) /\ SameAttempt(p)
  BY <1>1, <1>5 DEF SameAttempt, SameInvocation, LoopIsCurrent
<1> QED
  BY <1>2, <1>3, <1>4, <1>5, Blocks, Continues

LEMMA DependenciesReadyStep ==
    ASSUME TypeOK, \A p \in Proc : LoopIsCurrent(p), [Next]_vars, NEW p \in Proc, Executing(p)'
    PROVE  DependenciesReady(job'[p])
<1>0. job[p] \in Job /\ LocalTypeOK
  BY JobFacts DEF TypeOK
<1>1. ASSUME job'[p].position = job[p].position, job'[p].runbook = job[p].runbook,
             job'[p].statuses = job[p].statuses, DependenciesReady(job[p])
      PROVE  DependenciesReady(job'[p])
  BY <1>1 DEF DependenciesReady, Current, Definition, CurrentStep, Order
<1>2. CASE ObserveBefore(p)
  BY <1>0, <1>1, <1>2 DEF ObserveBefore, LocalTypeOK, Job
<1>3. CASE Executing(p) /\ SameAttempt(p)
  <2>1. ~(StepReuse(p) \/ RecordBlocked(p) \/ RecordFinished(p))
    BY <1>0 DEF StepReuse, AtStep, RecordBlocked, RecordFinished, Advance, Goto, Executing,
       LocalTypeOK
  <2>2. job'[p].statuses = job[p].statuses
    BY <1>3, <2>1, Loops DEF Working
  <2> QED
    BY <1>1, <1>3, <2>2 DEF SameAttempt, SameInvocation, LoopIsCurrent
<1> QED
  BY <1>2, <1>3, Continues

(* The step the loop goes on from is behind it then.                       *)
LEMMA GoesOn ==
    ASSUME TypeOK, NEW p \in Proc, NEW k, job[p].position \in DOMAIN Order(job[p]),
           k.position = job[p].position + 1, k.runbook = job[p].runbook
    PROVE  LET s == CurrentStep(job[p])
           IN  /\ Evaluated(k) = Evaluated(job[p]) \cup {s}
               /\ Ahead(k) = Ahead(job[p]) \ {s}
               /\ s \in Ahead(job[p])
               /\ Evaluated(job[p]) \subseteq StepId
               /\ Ahead(job[p]) \subseteq StepId
<1>1. /\ Order(k) = Order(job[p]) /\ Order(job[p]) \in Seq(StepId)
      /\ job[p].position \in Nat
  BY JobFacts DEF Order
<1>2. Evaluated(k) = Evaluated(job[p]) \cup {CurrentStep(job[p])}
  BY <1>1 DEF Evaluated, CurrentStep
<1>3. /\ CurrentStep(job[p]) \notin Evaluated(job[p])
      /\ CurrentStep(job[p]) \in Steps(Book[job[p].runbook])
  BY OrderIsValid, AtAStep
<1>4. Evaluated(job[p]) \subseteq StepId
  BY <1>1 DEF Evaluated
<1>5. Steps(Book[job[p].runbook]) \subseteq StepId
  BY JobFacts, BookFacts
<1> HIDE DEF Evaluated
<1> QED
  BY <1>2, <1>3, <1>4, <1>5 DEF Ahead

(* While a process is alone, its operations leave the other rows of its    *)
(* run as they are.                                                        *)
LEMMA OthersKept ==
    ASSUME OneProcess, TypeOK, Course, [Next]_vars, NEW p \in Proc, Working(p), Working(p)'
    PROVE  \/ steps' = steps
           \/ /\ RecordBlocked(p) \/ RecordStarted(p) \/ RecordFinished(p)
              /\ \A t \in StepId : t # CurrentStep(job[p]) =>
                    steps'[job[p].run_id][t] = steps[job[p].run_id][t]
<1>0. LocalTypeOK
  BY DEF TypeOK
<1>1. ASSUME NEW q \in Proc, ExecuteRunbook(q) \/ LoopEnd(q) PROVE FALSE
  <2>1. p = q
    BY DEF OneProcess
  <2> QED
    BY <1>0, <1>1, <2>1 DEF ExecuteRunbook, LoopEnd, Exit, Goto, Working, Executing, LocalTypeOK
<1>2. ASSUME NEW q \in Proc, RecordBlocked(q) \/ RecordStarted(q) \/ RecordFinished(q)
      PROVE  /\ p = q
             /\ \A t \in StepId : t # CurrentStep(job[p]) =>
                   steps'[job[p].run_id][t] = steps[job[p].run_id][t]
  <2>1. p = q
    BY DEF OneProcess
  <2>2. job[p].run_id \in DOMAIN runs
    BY <1>2, <2>1, RecordsARow
  <2>3. \A t \in StepId : t # CurrentStep(job[p]) =>
           steps'[job[p].run_id][t] = steps[job[p].run_id][t]
    BY <1>2, <2>1, <2>2, WritesARow
  <2> QED
    BY <2>1, <2>3
<1> QED
  BY <1>1, <1>2, StoreStep DEF Records

(* A resume is told SUCCEEDED of every step it has not reached.            *)
LEMMA AheadStep ==
    ASSUME TypeOK, Course, Grounding, \A p \in Proc : LoopIsCurrent(p), [Next]_vars,
           NEW p \in Proc, Working(p)', job'[p].command = "resume"
    PROVE  \A s \in Ahead(job'[p]) : job'[p].statuses[s] = "SUCCEEDED"
<1>0. job[p] \in Job /\ LocalTypeOK
  BY JobFacts DEF TypeOK
<1>1. ASSUME ExecuteRunbook(p) PROVE FALSE
  BY <1>0, <1>1 DEF ExecuteRunbook, LocalTypeOK, Job
<1>2. ASSUME NEW k \in DOMAIN plans, NEW r \in DOMAIN runs, NEW confirmed,
             ResumeRunbook(p, r, k, confirmed)
      PROVE  \A s \in Ahead(job'[p]) : job'[p].statuses[s] = "SUCCEEDED"
  <2> DEFINE v == job[p].runbook
  <2>1. job'[p].statuses = EveryStep(v, "SUCCEEDED") /\ job'[p].runbook = v
    BY <1>0, <1>2 DEF ResumeRunbook, LocalTypeOK, Job
  <2>2. Ahead(job'[p]) \subseteq Steps(Book[v]) /\ Steps(Book[v]) \subseteq StepId
    BY <2>1, JobFacts, BookFacts DEF Ahead
  <2> QED
    BY <2>1, <2>2 DEF EveryStep
<1>3. ASSUME Working(p), SameInvocation(p)
      PROVE  \A s \in Ahead(job'[p]) : job'[p].statuses[s] = "SUCCEEDED"
  <2>1. \A s \in Ahead(job[p]) : job[p].statuses[s] = "SUCCEEDED"
    BY <1>3 DEF SameInvocation, LoopIsCurrent
  <2>2. CASE job'[p].position = job[p].position /\ job'[p].statuses = job[p].statuses
    BY <1>3, <2>1, <2>2 DEF SameInvocation, Ahead, Evaluated, Order
  <2>3. CASE StepReuse(p)
    <3>1. /\ job[p].position \in DOMAIN Order(job[p])
          /\ job'[p].position = job[p].position + 1 /\ job'[p].statuses = job[p].statuses
          /\ job'[p].runbook = job[p].runbook
      BY <1>0, <2>3, JobFacts DEF StepReuse, AtStep, LocalTypeOK, Job, Course, OnCourse
    <3>2. Ahead(job'[p]) \subseteq Ahead(job[p])
      BY <3>1, GoesOn
    <3> QED
      BY <2>1, <3>1, <3>2
  <2>4. ASSUME NEW status, Advance(p, status), pc[p] = "block" \/ Executing(p)
        PROVE  \A s \in Ahead(job'[p]) : job'[p].statuses[s] = "SUCCEEDED"
    <3> DEFINE t == CurrentStep(job[p])
    <3>1. job[p].position \in DOMAIN Order(job[p])
      BY <2>4 DEF Course, OnCourse
    <3>2. /\ job'[p].position = job[p].position + 1 /\ job'[p].runbook = job[p].runbook
          /\ job'[p].statuses = [job[p].statuses EXCEPT ![t] = status]
      BY <1>0, <2>4 DEF Advance, LocalTypeOK, Job
    <3>3. Ahead(job'[p]) = Ahead(job[p]) \ {t} /\ Ahead(job[p]) \subseteq StepId
      BY <3>1, <3>2, GoesOn
    <3>4. job[p].statuses \in [StepId -> StepStatus \cup {Null}]
      BY <1>0 DEF Job, Statuses
    <3> HIDE DEF t
    <3> QED
      BY <2>1, <3>2, <3>3, <3>4
  <2> QED
    BY <1>3, <2>2, <2>3, <2>4, Loops DEF RecordBlocked, RecordFinished, Executing
<1> QED
  BY <1>1, <1>2, <1>3, Works

(* A resume that starts knows what the plan has seen: nothing has happened *)
(* to the run since.                                                       *)
LEMMA ResumeKnows ==
    ASSUME TypeOK, Grounding, Dated, NEW p \in Proc, NEW k \in DOMAIN plans,
           NEW r \in DOMAIN runs, NEW confirmed, ResumeRunbook(p, r, k, confirmed),
           job'[p].fresh
    PROVE  Knows(job'[p], steps')
<1>0. job[p] \in Job /\ LocalTypeOK
  BY JobFacts DEF TypeOK
<1> DEFINE v == job[p].runbook
           survey == history.surveys[k]
<1>1. /\ job'[p].run_id = r /\ job'[p].decisions = plans[k].decisions
      /\ job'[p].runbook = v /\ job'[p].position = 1
      /\ job'[p].fresh = (Mark(r) = survey.mark) /\ steps' = steps
  BY <1>0 DEF ResumeRunbook, LocalTypeOK, Job, Grounding, store
<1>2. Evaluated(job'[p]) = {} /\ Ahead(job'[p]) = Steps(Book[v])
  <2>1. Order(job'[p]) \in Seq(StepId)
    BY <1>1, JobFacts DEF Order
  <2>2. Evaluated(job'[p]) = {}
    BY <1>1, <2>1 DEF Evaluated
  <2> QED
    BY <1>1, <2>2 DEF Ahead
<1>3. /\ plans[k].run_id = r
      /\ Steps(Book[plans[k].source_runbook_digest]) = Steps(Book[v])
  BY JobFacts, DigestFacts DEF ResumeRunbook, PlanMatches
<1>4. PlanIsDated(runs, steps, transitions, plans[k], survey)
  BY DEF Dated
<1>5. steps[r] = survey.records
  BY <1>1, <1>3, <1>4 DEF PlanIsDated, UpToDate, Mark, MarkIn
<1>6. \A s \in Steps(Book[v]) :
         plans[k].decisions[s].decision = "REUSE" => steps[r][s].status = "SUCCEEDED"
  BY <1>3, <1>4, <1>5 DEF PlanIsDated, ReusesSuccess
<1> HIDE DEF v, survey
<1> QED
  BY <1>1, <1>2, <1>6 DEF Knows, HasSuccess

(* What the loop knows of the rows stays true while it goes on.            *)
LEMMA LoopKnows ==
    ASSUME OneProcess, TypeOK, Course, \A p \in Proc : LoopIsCurrent(p), [Next]_vars,
           NEW p \in Proc, Working(p), Working(p)', SameInvocation(p), job'[p].fresh
    PROVE  Knows(job'[p], steps')
<1>0. job[p] \in Job /\ LocalTypeOK
  BY JobFacts DEF TypeOK
<1> DEFINE j == job[p]
           k == job'[p]
           t == CurrentStep(j)
<1>1. /\ k.run_id = j.run_id /\ k.runbook = j.runbook /\ k.command = j.command
      /\ k.decisions = j.decisions /\ Knows(j, steps)
      /\ j.command = "resume" => \A s \in Ahead(j) : j.statuses[s] = "SUCCEEDED"
  BY DEF SameInvocation, LoopIsCurrent
<1>2. ASSUME k.position = j.position, k.statuses = j.statuses PROVE Knows(k, steps')
  <2>1. Evaluated(k) = Evaluated(j) /\ Ahead(k) = Ahead(j)
    BY <1>1, <1>2 DEF Evaluated, Ahead, Order
  <2>2. CASE steps' = steps
    BY <1>1, <1>2, <2>1, <2>2 DEF Knows, HasSuccess
  <2>3. ASSUME RecordBlocked(p) \/ RecordStarted(p) \/ RecordFinished(p),
               \A s \in StepId : s # t => steps'[j.run_id][s] = steps[j.run_id][s]
        PROVE  Knows(k, steps')
    <3>1. pc[p] = "block" \/ Executing(p)
      BY <2>3 DEF RecordBlocked, RecordStarted, RecordFinished, Executing
    <3>2. j.position \in DOMAIN Order(j) /\ ~Planned(j, {"REUSE"})
      BY <3>1 DEF Course, OnCourse, LoopIsCurrent
    <3>3. /\ t \notin Evaluated(j) /\ Evaluated(j) \subseteq StepId
          /\ Ahead(j) \subseteq StepId
      BY <3>2, OrderIsValid, JobFacts, BookFacts DEF Evaluated, Ahead
    <3>4. j.command = "resume" => j.decisions[t].decision # "REUSE"
      BY <3>2 DEF Planned
    <3> HIDE DEF j, k, t
    <3> QED
      BY <1>1, <1>2, <2>1, <2>3, <3>3, <3>4 DEF Knows, HasSuccess
  <2> QED
    BY <2>2, <2>3, OthersKept
<1>3. ASSUME j.position \in DOMAIN Order(j), k.position = j.position + 1,
             \A s \in StepId : s # t => /\ k.statuses[s] = j.statuses[s]
                                       /\ steps'[j.run_id][s] = steps[j.run_id][s],
             k.statuses[t] = "SUCCEEDED" <=> steps'[j.run_id][t].status = "SUCCEEDED"
      PROVE  Knows(k, steps')
  <2>1. /\ Evaluated(k) = Evaluated(j) \cup {t} /\ Ahead(k) = Ahead(j) \ {t}
        /\ t \in Ahead(j) /\ Evaluated(j) \subseteq StepId /\ Ahead(j) \subseteq StepId
    BY <1>1, <1>3, GoesOn
  <2>2. t \notin Evaluated(j)
    BY <2>1 DEF Ahead
  <2> HIDE DEF j, k, t
  <2> QED
    BY <1>1, <1>3, <2>1, <2>2 DEF Knows, HasSuccess
<1>4. CASE StepReuse(p)
  <2>1. /\ j.position \in DOMAIN Order(j) /\ Planned(j, {"REUSE"})
        /\ k.position = j.position + 1 /\ k.statuses = j.statuses /\ steps' = steps
    BY <1>0, <1>4, JobFacts DEF StepReuse, AtStep, LocalTypeOK, Job, Course, OnCourse, store
  <2>2. t \in Ahead(j)
    BY <1>1, <2>1, GoesOn
  <2>3. j.statuses[t] = "SUCCEEDED" /\ HasSuccess(j, steps, t)
    BY <1>1, <2>1, <2>2 DEF Planned, Knows
  <2>4. k.statuses[t] = "SUCCEEDED" <=> steps'[j.run_id][t].status = "SUCCEEDED"
    BY <2>1, <2>3 DEF HasSuccess
  <2> QED
    BY <1>3, <2>1, <2>4
<1>5. ASSUME NEW status, Advance(p, status), RecordBlocked(p) \/ RecordFinished(p),
             steps'[j.run_id][t].status = status
      PROVE  Knows(k, steps')
  <2>1. j.position \in DOMAIN Order(j) /\ t \in StepId
    BY <1>5, RecordsARow DEF RecordBlocked, RecordFinished, Executing, Course, OnCourse
  <2>2. k.position = j.position + 1 /\ k.statuses = [j.statuses EXCEPT ![t] = status]
    BY <1>0, <1>5 DEF Advance, LocalTypeOK, Job
  <2>3. \A s \in StepId : s # t => steps'[j.run_id][s] = steps[j.run_id][s]
    BY OthersKept
  <2>4. j.statuses \in [StepId -> StepStatus \cup {Null}]
    BY <1>0 DEF Job, Statuses
  <2> HIDE DEF j, k, t
  <2>5. k.statuses[t] = status /\ \A s \in StepId : s # t => k.statuses[s] = j.statuses[s]
    BY <2>1, <2>2, <2>4
  <2> QED
    BY <1>3, <1>5, <2>1, <2>2, <2>3, <2>5
<1>6. CASE RecordBlocked(p)
  BY <1>5, <1>6, WritesARow DEF RecordBlocked
<1>7. CASE RecordFinished(p)
  BY <1>5, <1>7, WritesARow DEF RecordFinished
<1> QED
  BY <1>2, <1>4, <1>6, <1>7, Loops

LEMMA KnowledgeStep ==
    ASSUME OneProcess, TypeOK, Course, Grounding, Currency, [Next]_vars,
           NEW p \in Proc, Working(p)', job'[p].fresh
    PROVE  Knows(job'[p], steps')
<1>0. job[p] \in Job /\ LocalTypeOK
  BY JobFacts DEF TypeOK
<1>1. CASE ExecuteRunbook(p)
  <2>1. /\ job'[p].position = 1 /\ job'[p].command = "run"
        /\ job'[p].runbook = job[p].runbook
    BY <1>0, <1>1 DEF ExecuteRunbook, LocalTypeOK, Job, Grounding
  <2>2. Order(job'[p]) \in Seq(StepId)
    BY <2>1, JobFacts DEF Order
  <2>3. Evaluated(job'[p]) = {}
    BY <2>1, <2>2 DEF Evaluated
  <2> QED
    BY <2>1, <2>3 DEF Knows
<1>2. ASSUME NEW k \in DOMAIN plans, NEW r \in DOMAIN runs, NEW confirmed,
             ResumeRunbook(p, r, k, confirmed)
      PROVE  Knows(job'[p], steps')
  BY <1>2, ResumeKnows DEF Currency
<1>3. CASE Working(p) /\ SameInvocation(p)
  BY <1>3, LoopKnows DEF Currency
<1> QED
  BY <1>1, <1>2, <1>3, Works

LEMMA CurrencyStep ==
    ASSUME OneProcess, TypeOK, Course, Grounding, Currency, [Next]_vars
    PROVE  Currency'
<1>1. Dated' /\ RowsAreOfBook'
  BY DatedStep, RowsOfBookStep DEF Currency
<1>2. \A p \in Proc : LoopIsCurrent(p)
  BY DEF Currency
<1>3. ASSUME NEW p \in Proc PROVE LoopIsCurrent(p)'
  <2>1. Working(p)' /\ job'[p].fresh => Knows(job'[p], steps')
    BY KnowledgeStep
  <2>2. Working(p)' /\ job'[p].command = "resume" =>
           \A s \in Ahead(job'[p]) : job'[p].statuses[s] = "SUCCEEDED"
    BY <1>2, AheadStep
  <2>3. (pc'[p] = "block" \/ Executing(p)') => ~Planned(job'[p], {"REUSE"})
    BY <1>2, NotReusedStep
  <2>4. Executing(p)' => DependenciesReady(job'[p])
    BY <1>2, DependenciesReadyStep
  <2> QED
    BY <2>1, <2>2, <2>3, <2>4 DEF LoopIsCurrent
<1> QED
  BY <1>1, <1>3 DEF Currency

LEMMA InitCurrency == Init => Currency
  BY DEF Init, StoreInit, Currency, Dated, RepairIsDated, RowsAreOfBook, StepsOf,
     LoopIsCurrent, Working, Executing

(* While one process at a time works on the store, the loop of a run, and  *)
(* that of a resume of a current plan, knows the rows.                     *)
LEMMA CurrencyCorrect ==
    ASSUME OneProcess
    PROVE  Spec => [](TypeOK /\ Course /\ Currency)
<1>1. Init => Currency
  BY InitCurrency
<1>2. TypeOK /\ Course /\ Ownership /\ Grounding /\ Currency /\ [Next]_vars => Currency'
  BY CurrencyStep
<1> QED
  BY <1>1, <1>2, GroundingCorrect, PTL DEF Spec

(* An attempt of a run, or of a resume whose plan is current, starts only  *)
(* after all it depends on has succeeded in the store, whatever crashed or *)
(* was revised before.                                                     *)
THEOREM DependenciesComeFirst ==
    ASSUME OneProcess
    PROVE  Spec => []StartsAfterDependencies
<1>1. TypeOK /\ Course /\ Currency => StartsAfterDependencies
  <2> SUFFICES ASSUME TypeOK, Course, Currency, NEW p \in Proc,
                      pc[p] = "record_started", job[p].fresh,
                      NEW d \in Current(job[p]).depends_on
               PROVE  steps[job[p].run_id][d].status = "SUCCEEDED"
    BY DEF StartsAfterDependencies
  <2>1. Executing(p) /\ Working(p)
    BY DEF Executing, Working
  <2>2. d \in Evaluated(job[p])
    BY <2>1, OrderIsValid DEF Course, OnCourse
  <2> QED
    BY <2>1, <2>2 DEF Currency, LoopIsCurrent, DependenciesReady, Knows, HasSuccess
<1> QED
  BY <1>1, CurrencyCorrect, PTL

(* A run, and a resume of a current plan, reports OK exactly if the rows   *)
(* of the run say that every step has succeeded.                           *)
THEOREM SummaryIsTrue ==
    ASSUME OneProcess
    PROVE  Spec => []SummaryIsHonest
<1>1. TypeOK /\ Course /\ Currency => SummaryIsHonest
  <2> SUFFICES ASSUME TypeOK, Course, Currency, NEW p \in Proc, pc[p] = "loop",
                      job[p].position > Len(Order(job[p])), job[p].fresh
               PROVE  AllSucceeded(job[p]) <=>
                         \A s \in StepsOf(job[p].run_id) :
                            steps[job[p].run_id][s].status = "SUCCEEDED"
    BY DEF SummaryIsHonest
  <2> DEFINE v == job[p].runbook
             r == job[p].run_id
  <2>1. Working(p) /\ r \in DOMAIN runs /\ runs[r].runbook_digest = RunbookDigest(v)
    BY DEF Working, Course, OnCourse, MadeFrom
  <2>2. Steps(Book[RunbookDigest(v)]) = Steps(Book[v]) /\ Steps(Book[v]) \subseteq StepId
    BY JobFacts, DigestFacts, BookFacts
  <2>3. StepsOf(r) = Steps(Book[v])
    BY <2>1, <2>2 DEF Currency, RowsAreOfBook, Course, RowsExist, StepsOf
  <2>4. Evaluated(job[p]) = Steps(Book[v])
    BY WholeOrder
  <2>5. \A s \in Steps(Book[v]) :
           job[p].statuses[s] = "SUCCEEDED" <=> steps[r][s].status = "SUCCEEDED"
    BY <2>1, <2>4 DEF Currency, LoopIsCurrent, Knows, HasSuccess
  <2> QED
    BY <2>3, <2>5 DEF AllSucceeded
<1> QED
  BY <1>1, CurrencyCorrect, PTL

-----------------------------------------------------------------------------
(* The count of the attempts *)

(* An attempt that starts is counted in its row, and in no other.          *)
LEMMA TriesGrow ==
    ASSUME NEW A \in Seq(AttemptRow), NEW new \in AttemptRow, NEW r, NEW s
    PROVE  LET U == Append(A, new)
               n == Len(A) + 1
           IN  /\ IsFiniteSet(TriesIn(A, r, s))
               /\ TriesIn(A, r, s) \subseteq DOMAIN A
               /\ n \notin DOMAIN A /\ \A a \in DOMAIN A : a \in Nat /\ a <= n
               /\ U[n] = new /\ \A a \in DOMAIN A : U[a] = A[a]
               /\ TriesIn(U, r, s) = IF new.run_id = r /\ new.step_id = s
                                     THEN TriesIn(A, r, s) \cup {n} ELSE TriesIn(A, r, s)
<1> DEFINE U == Append(A, new)
           n == Len(A) + 1
<1>1. DOMAIN A = 1..Len(A) /\ Len(A) \in Nat
  OBVIOUS
<1>2. IsFiniteSet(DOMAIN A) /\ TriesIn(A, r, s) \subseteq DOMAIN A
  BY <1>1, FS_Interval DEF TriesIn
<1>3. IsFiniteSet(TriesIn(A, r, s))
  BY <1>2, FS_Subset
<1>4. /\ DOMAIN U = DOMAIN A \cup {n} /\ n \notin DOMAIN A
      /\ U[n] = new /\ \A a \in DOMAIN A : U[a] = A[a]
  OBVIOUS
<1>5. \A a \in DOMAIN A : a \in Nat /\ a <= n
  BY <1>1
<1> HIDE DEF U, n
<1>6. TriesIn(U, r, s) = IF new.run_id = r /\ new.step_id = s
                         THEN TriesIn(A, r, s) \cup {n} ELSE TriesIn(A, r, s)
  BY <1>4 DEF TriesIn
<1> QED
  BY <1>2, <1>3, <1>4, <1>5, <1>6 DEF U, n

LEMMA CountStays ==
    ASSUME NEW A \in Seq(AttemptRow), NEW new \in AttemptRow, NEW r, NEW s, NEW row,
           IsCounted(A, TriesIn(A, r, s), row), new.run_id # r \/ new.step_id # s
    PROVE  IsCounted(Append(A, new), TriesIn(Append(A, new), r, s), row)
<1> DEFINE U == Append(A, new)
           I == TriesIn(A, r, s)
<1>1. TriesIn(U, r, s) = I /\ I \subseteq DOMAIN A /\ \A a \in DOMAIN A : U[a] = A[a]
  BY TriesGrow
<1>2. \A a \in I : U[a] = A[a]
  BY <1>1
<1>3. {U[a].attempt_no : a \in I} = {A[a].attempt_no : a \in I}
  BY <1>2
<1> HIDE DEF U, I
<1>4. IsCounted(A, I, row)
  BY DEF I
<1>5. IsCounted(U, I, row)
  BY <1>2, <1>3, <1>4 DEF IsCounted
<1> QED
  BY <1>1, <1>5 DEF U

LEMMA CountStarts ==
    ASSUME NEW A \in Seq(AttemptRow), NEW new \in AttemptRow, NEW r, NEW s, NEW row, NEW next,
           IsCounted(A, TriesIn(A, r, s), row), row.attempt_count \in Nat,
           new.run_id = r, new.step_id = s, new.attempt_no = row.attempt_count + 1,
           next.attempt_count = row.attempt_count + 1, next.last_attempt_id = Len(A) + 1,
           next.contract = new.contract, next.status = new.status
    PROVE  IsCounted(Append(A, new), TriesIn(Append(A, new), r, s), next)
<1> DEFINE U == Append(A, new)
           I == TriesIn(A, r, s)
           n == Len(A) + 1
           c == row.attempt_count
<1>1. /\ IsFiniteSet(I) /\ I \subseteq DOMAIN A /\ n \notin DOMAIN A
      /\ \A a \in DOMAIN A : a \in Nat /\ a <= n
      /\ U[n] = new /\ \A a \in DOMAIN A : U[a] = A[a]
      /\ TriesIn(U, r, s) = I \cup {n}
  BY TriesGrow
<1>2. /\ c = Cardinality(I) /\ {A[a].attempt_no : a \in I} = 1..c /\ c \in Nat
  BY DEF IsCounted
<1>3. n \in Nat /\ next.last_attempt_id = n /\ next.attempt_count = c + 1
  OBVIOUS
<1> HIDE DEF U, I, n, c
<1>4. Cardinality(I \cup {n}) = c + 1
  BY <1>1, <1>2, FS_AddElement
<1>5. {U[a].attempt_no : a \in I \cup {n}} = 1..c + 1
  <2>1. U[n].attempt_no = c + 1 /\ \A a \in I : U[a].attempt_no = A[a].attempt_no
    BY <1>1 DEF c
  <2>2. {U[a].attempt_no : a \in I \cup {n}} = {A[a].attempt_no : a \in I} \cup {c + 1}
    BY <2>1
  <2>3. 1..c + 1 = (1..c) \cup {c + 1}
    BY <1>2
  <2> QED
    BY <1>2, <2>2, <2>3
<1>6. n \in I \cup {n} /\ \A a \in I \cup {n} : a <= n
  BY <1>1, <1>3
<1>7. IsCounted(U, I \cup {n}, next)
  BY <1>1, <1>3, <1>4, <1>5, <1>6 DEF IsCounted
<1> QED
  BY <1>1, <1>7 DEF U

(* An attempt that ends is still counted; its row shows the end if it      *)
(* shows the attempt.                                                      *)
LEMMA CountEnds ==
    ASSUME NEW A \in Seq(AttemptRow), NEW a \in DOMAIN A, NEW result, NEW contract,
           NEW r, NEW s, NEW row, IsCounted(A, TriesIn(A, r, s), row)
    PROVE  LET U == [A EXCEPT ![a] = FinishedRow(A[a], result, contract)]
               ended == FinishedRow(row, result, contract)
           IN  /\ a \notin TriesIn(A, r, s) => IsCounted(U, TriesIn(U, r, s), row)
               /\ /\ row \in StepRow /\ row.attempt_count > 0 /\ row.last_attempt_id = a
                  => IsCounted(U, TriesIn(U, r, s), ended)
<1> DEFINE U == [A EXCEPT ![a] = FinishedRow(A[a], result, contract)]
           ended == FinishedRow(row, result, contract)
           I == TriesIn(A, r, s)
<1>1. DOMAIN U = DOMAIN A /\ I \subseteq DOMAIN A
  BY DEF TriesIn
<1>2. /\ U[a].run_id = A[a].run_id /\ U[a].step_id = A[a].step_id
      /\ U[a].attempt_no = A[a].attempt_no
      /\ U[a].contract = contract /\ U[a].status = result.status
  <2> DEFINE old == A[a]
             new == FinishedRow(old, result, contract)
  <2>1. old \in AttemptRow /\ U[a] = new
    OBVIOUS
  <2>2. /\ new.run_id = old.run_id /\ new.step_id = old.step_id
        /\ new.attempt_no = old.attempt_no
        /\ new.contract = contract /\ new.status = result.status
    BY <2>1 DEF FinishedRow, AttemptRow
  <2> QED
    BY <2>1, <2>2
<1>3. \A b \in DOMAIN A : b # a => U[b] = A[b]
  OBVIOUS
<1>4. row \in StepRow => /\ ended.attempt_count = row.attempt_count
                         /\ ended.last_attempt_id = row.last_attempt_id
                         /\ ended.contract = contract /\ ended.status = result.status
  BY DEF FinishedRow, StepRow
<1>5. IsCounted(A, I, row)
  OBVIOUS
<1> HIDE DEF U, ended, I
<1>6. \A b \in DOMAIN A : /\ U[b].run_id = A[b].run_id /\ U[b].step_id = A[b].step_id
                          /\ U[b].attempt_no = A[b].attempt_no
  BY <1>2, <1>3
<1>7. TriesIn(U, r, s) = I
  BY <1>1, <1>6 DEF TriesIn, I
<1>8. {U[b].attempt_no : b \in I} = {A[b].attempt_no : b \in I}
  BY <1>1, <1>6
<1>9. a \notin I => IsCounted(U, I, row)
  BY <1>1, <1>3, <1>5, <1>8 DEF IsCounted
<1>10. row \in StepRow /\ row.attempt_count > 0 /\ row.last_attempt_id = a
          => IsCounted(U, I, ended)
  BY <1>2, <1>4, <1>5, <1>8 DEF IsCounted
<1> QED
  BY <1>7, <1>9, <1>10 DEF U, ended, I

(* The rows are counted while each process starts from the row as it is.   *)
LEMMA CountedStep ==
    ASSUME TypeOK, Course, Ownership, ReadIsTrue, Counting, [Next]_vars
    PROVE  RowsAreCounted(attempts', steps')
<1>0. /\ StoreTypeOK /\ attempts \in Seq(AttemptRow) /\ DOMAIN steps = DOMAIN runs
      /\ \A r \in DOMAIN runs : steps[r] \in StepTable
      /\ RowsAreCounted(attempts, steps)
  BY DEF TypeOK, StoreTypeOK, Counting
<1> SUFFICES ASSUME NEW r \in DOMAIN steps', NEW s \in StepId, steps'[r][s] # Null
             PROVE  IsCounted(attempts', TriesIn(attempts', r, s), steps'[r][s])
  BY DEF RowsAreCounted
<1>1. ASSUME r \in DOMAIN runs, steps'[r][s] = steps[r][s]
      PROVE  /\ IsCounted(attempts, TriesIn(attempts, r, s), steps'[r][s])
             /\ steps'[r][s] \in StepRow
  BY <1>0, <1>1 DEF RowsAreCounted, StepTable
<1>2. ASSUME NEW p \in Proc, ExecuteRunbook(p)
      PROVE  IsCounted(attempts', TriesIn(attempts', r, s), steps'[r][s])
  <2> DEFINE new == [t \in StepId |-> IF t \in Steps(Book[job[p].runbook])
                                      THEN PendingRow ELSE Null]
  <2>1. steps' = Append(steps, new) /\ attempts' = attempts /\ Len(steps) = Len(runs)
    BY <1>0, <1>2 DEF ExecuteRunbook, CreateRun, StoreTypeOK
  <2>2. \/ r \in DOMAIN runs /\ steps'[r] = steps[r]
        \/ r \notin DOMAIN runs /\ steps'[r] = new
    BY <1>0, <2>1 DEF StoreTypeOK
  <2>3. CASE r \notin DOMAIN runs /\ steps'[r] = new
    <3>1. steps'[r][s] = PendingRow
      BY <2>3
    <3>2. TriesIn(attempts, r, s) = {}
      BY <2>3 DEF TriesIn, Ownership, AttemptsHaveRuns
    <3>3. IsCounted(attempts, {}, PendingRow)
      <4>1. Cardinality({}) = 0 /\ 1..0 = {}
        BY FS_EmptySet
      <4> QED
        BY <4>1 DEF IsCounted, PendingRow
    <3> QED
      BY <2>1, <3>1, <3>2, <3>3
  <2> QED
    BY <1>1, <2>1, <2>2, <2>3
<1>3. ASSUME NEW p \in Proc, RecordBlocked(p) \/ RecordStarted(p) \/ RecordFinished(p)
      PROVE  IsCounted(attempts', TriesIn(attempts', r, s), steps'[r][s])
  <2> DEFINE q == job[p].run_id
             t == CurrentStep(job[p])
             row == steps[q][t]
  <2>1. q \in DOMAIN runs /\ t \in StepId /\ row \in StepRow
    BY <1>3, RecordsARow
  <2>2. IsCounted(attempts, TriesIn(attempts, q, t), row)
    BY <1>0, <2>1, AbsenceAssumption DEF RowsAreCounted
  <2>3. DOMAIN steps' = DOMAIN runs
    BY <1>0, <1>3, Writes
  <2>4. ASSUME NEW next, steps' = [steps EXCEPT ![q][t] = next]
        PROVE  IF r = q /\ s = t THEN steps'[r][s] = next ELSE steps'[r][s] = steps[r][s]
    <3> HIDE DEF q, t
    <3> QED
      BY <1>0, <2>1, <2>3, <2>4 DEF StepTable
  <2>5. CASE RecordBlocked(p)
    <3> DEFINE next == [row EXCEPT !.status = "BLOCKED"]
    <3>1. steps' = [steps EXCEPT ![q][t] = next] /\ attempts' = attempts
      BY <2>5 DEF RecordBlocked, UpdateStepStatus
    <3>2. /\ next.attempt_count = row.attempt_count /\ next.status = "BLOCKED"
          /\ next.last_attempt_id = row.last_attempt_id /\ next.contract = row.contract
      BY <2>1 DEF StepRow
    <3> HIDE DEF next, q, t, row
    <3>3. IsCounted(attempts, TriesIn(attempts, q, t), next)
      BY <2>2, <3>2 DEF IsCounted
    <3> QED
      BY <1>1, <2>3, <2>4, <3>1, <3>3
  <2>6. CASE RecordStarted(p)
    <3> DEFINE next == StartedRow(row, job[p].seen, Len(attempts) + 1, job[p].contract)
               new == [run_id |-> q, step_id |-> t, attempt_no |-> job[p].seen.attempt_count + 1,
                       status |-> "RUNNING", failure_kind |-> Null,
                       contract |-> job[p].contract]
    <3>1. /\ steps' = [steps EXCEPT ![q][t] = next]
          /\ attempts' = Append(attempts, new)
      BY <2>6 DEF RecordStarted, RecordStepStarted
    <3>2. job[p].seen.attempt_count = row.attempt_count /\ row.attempt_count \in Nat
      <4>1. job[p].seen = Select(q, t)
        BY <2>6 DEF RecordStarted, ReadIsTrue, HasRead
      <4>2. Select(q, t).attempt_count = row.attempt_count
        BY DEF Select
      <4>3. row.attempt_count \in Nat
        BY <2>1 DEF StepRow
      <4> QED
        BY <4>1, <4>2, <4>3
    <3>3. /\ next.attempt_count = row.attempt_count + 1 /\ next.status = "RUNNING"
          /\ next.last_attempt_id = Len(attempts) + 1 /\ next.contract = job[p].contract
      BY <2>1, <3>2 DEF StartedRow, StepRow
    <3>4. new \in AttemptRow
      <4>1. job[p].contract \in StepContract
        BY <2>6, JobFacts DEF RecordStarted, Executing, Course, OnCourse, Job
      <4>2. q \in Nat
        BY JobFacts DEF Job
      <4> QED
        BY <2>1, <3>2, <4>1, <4>2 DEF AttemptRow, StepStatus
    <3>5. /\ new.run_id = q /\ new.step_id = t /\ new.attempt_no = row.attempt_count + 1
          /\ next.contract = new.contract /\ next.status = new.status
      BY <3>2, <3>3
    <3> HIDE DEF next, new, q, t, row
    <3>6. IsCounted(attempts', TriesIn(attempts', q, t), next)
      BY <1>0, <2>2, <3>1, <3>2, <3>3, <3>4, <3>5, CountStarts
    <3>7. ASSUME ~(r = q /\ s = t)
          PROVE  IsCounted(attempts', TriesIn(attempts', r, s), steps'[r][s])
      <4>1. IsCounted(attempts, TriesIn(attempts, r, s), steps'[r][s])
        BY <1>1, <2>3, <2>4, <3>1, <3>7
      <4>2. new.run_id # r \/ new.step_id # s
        BY <3>5, <3>7
      <4> QED
        BY <1>0, <3>1, <3>4, <4>1, <4>2, CountStays
    <3> QED
      BY <2>4, <3>1, <3>6, <3>7
  <2>7. CASE RecordFinished(p)
    <3> DEFINE a == job[p].attempt_id
               next == FinishedRow(row, job[p].result, job[p].contract)
               ended == FinishedRow(attempts[a], job[p].result, job[p].contract)
    <3>1. /\ steps' = [steps EXCEPT ![q][t] = next]
          /\ attempts' = [attempts EXCEPT ![a] = ended]
      BY <2>7 DEF RecordFinished, RecordStepFinished
    <3>2. /\ a \in DOMAIN attempts /\ attempts[a].run_id = q /\ attempts[a].step_id = t
          /\ row.attempt_count > 0 /\ row.last_attempt_id = a
      BY <2>7 DEF RecordFinished, Ownership, Owns, Counting, OwnsTheLast, Recorded
    <3>3. IsCounted(attempts', TriesIn(attempts', q, t), next)
      BY <1>0, <2>1, <2>2, <3>1, <3>2, CountEnds
    <3>4. ASSUME ~(r = q /\ s = t)
          PROVE  IsCounted(attempts', TriesIn(attempts', r, s), steps'[r][s])
      <4>1. IsCounted(attempts, TriesIn(attempts, r, s), steps'[r][s])
        <5> HIDE DEF q, t, row, next
        <5> QED
          BY <1>1, <2>3, <2>4, <3>1, <3>4
      <4>2. a \notin TriesIn(attempts, r, s)
        BY <3>2, <3>4 DEF TriesIn
      <4> QED
        BY <1>0, <3>1, <3>2, <4>1, <4>2, CountEnds
    <3> HIDE DEF q, t, row, next
    <3> QED
      BY <2>4, <3>1, <3>3, <3>4
  <2> QED
    BY <1>3, <2>5, <2>6, <2>7
<1>4. ASSUME NEW p \in Proc, LoopEnd(p) PROVE UNCHANGED <<steps, attempts>>
  BY <1>4 DEF LoopEnd, FinishRun
<1>5. CASE UNCHANGED <<steps, attempts>>
  BY <1>0, <1>1, <1>5
<1> QED
  BY <1>2, <1>3, <1>4, <1>5, StoreStep DEF Records

(* While a process is alone, its attempt stays the last one of its row.    *)
LEMMA LastStep ==
    ASSUME OneProcess, TypeOK, Course, Counting, [Next]_vars, NEW p \in Proc, Recorded(p)'
    PROVE  LET row == steps'[job'[p].run_id][CurrentStep(job'[p])]
           IN  row.attempt_count > 0 /\ row.last_attempt_id = job'[p].attempt_id
<1>0. job[p] \in Job /\ LocalTypeOK
  BY JobFacts DEF TypeOK
<1>1. /\ SameAttempt(p) /\ job'[p].run_id = job[p].run_id
      /\ CurrentStep(job'[p]) = CurrentStep(job[p])
  BY Continues DEF Recorded, Executing, SameAttempt, SameInvocation, CurrentStep, Order
<1> DEFINE q == job[p].run_id
           t == CurrentStep(job[p])
<1>2. CASE RecordStarted(p)
  <2> DEFINE row == steps[q][t]
             next == StartedRow(row, job[p].seen, Len(attempts) + 1, job[p].contract)
  <2>1. job'[p].attempt_id = Len(attempts) + 1 /\ job[p].seen.attempt_count \in Nat
    BY <1>0, <1>2 DEF RecordStarted, LocalTypeOK, Job, Seen
  <2>2. q \in DOMAIN runs /\ t \in StepId /\ row \in StepRow
    BY <1>2, RecordsARow
  <2>3. /\ DOMAIN steps = DOMAIN runs /\ steps[q] \in StepTable
    BY <2>2 DEF TypeOK, StoreTypeOK
  <2>4. steps' = [steps EXCEPT ![q][t] = next]
    BY <1>2 DEF RecordStarted, RecordStepStarted
  <2>5. next.attempt_count > 0 /\ next.last_attempt_id = Len(attempts) + 1
    BY <2>1, <2>2 DEF StartedRow, StepRow
  <2>6. steps'[q][t] = next
    <3> HIDE DEF q, t, next
    <3> QED
      BY <2>2, <2>3, <2>4 DEF StepTable
  <2> QED
    BY <1>1, <2>1, <2>5, <2>6
<1>3. CASE Recorded(p) /\ job'[p].attempt_id = job[p].attempt_id /\ ~RecordStarted(p)
  <2>1. ~(RecordBlocked(p) \/ RecordFinished(p))
    BY <1>0 DEF RecordBlocked, RecordFinished, Advance, Goto, Recorded, LocalTypeOK
  <2>2. steps' = steps
    BY <1>3, <2>1, OthersKept DEF Working, Executing, Recorded
  <2> QED
    BY <1>1, <1>3, <2>2 DEF Counting, OwnsTheLast
<1> QED
  BY <1>1, <1>2, <1>3 DEF SameAttempt

LEMMA CountingStep ==
    ASSUME OneProcess, TypeOK, Course, Ownership, ReadIsTrue, Counting, [Next]_vars
    PROVE  Counting'
<1>1. RowsAreCounted(attempts', steps')
  BY CountedStep
<1>2. ASSUME NEW p \in Proc PROVE OwnsTheLast(p)'
  BY LastStep DEF OwnsTheLast
<1> QED
  BY <1>1, <1>2 DEF Counting

LEMMA InitCounting == Init => Counting /\ ReadIsTrue
  BY DEF Init, StoreInit, Counting, RowsAreCounted, OwnsTheLast, Recorded, ReadIsTrue, HasRead

(* While one process at a time works on the store, attempt_count is the    *)
(* number of the attempts, they are numbered from 1 without a gap, and the *)
(* row shows the last of them, through any crashes.                        *)
THEOREM AttemptsAreNumbered ==
    ASSUME OneProcess
    PROVE  Spec => []AttemptsAreCounted
<1>1. Init => Counting /\ ReadIsTrue
  BY InitCounting
<1>2. TypeOK /\ Course /\ Ownership /\ Counting /\ ReadIsTrue /\ [Next]_vars
         => Counting' /\ ReadIsTrue'
  BY CountingStep, ReadStep
<1>3. TypeOK /\ Counting => AttemptsAreCounted
  <2> SUFFICES ASSUME TypeOK, Counting, NEW r \in DOMAIN runs, NEW s \in StepsOf(r)
               PROVE  LET row == steps[r][s]
                      IN  /\ row.attempt_count = Cardinality(Rows(r, s))
                          /\ {attempts[a].attempt_no : a \in Rows(r, s)} = 1..row.attempt_count
                          /\ row.attempt_count > 0 =>
                                /\ row.last_attempt_id = LastOf(Rows(r, s))
                                /\ attempts[row.last_attempt_id].contract = row.contract
                                /\ row.status # "BLOCKED" =>
                                      attempts[row.last_attempt_id].status = row.status
    BY DEF AttemptsAreCounted
  <2>1. Rows(r, s) = TriesIn(attempts, r, s) /\ Rows(r, s) \in SUBSET Nat
    BY DEF Rows, TriesIn, TypeOK, StoreTypeOK
  <2>2. IsCounted(attempts, Rows(r, s), steps[r][s])
    BY <2>1 DEF Counting, RowsAreCounted, StepsOf, TypeOK, StoreTypeOK
  <2>3. ASSUME steps[r][s].attempt_count > 0
        PROVE  steps[r][s].last_attempt_id = LastOf(Rows(r, s))
    BY <2>1, <2>2, <2>3, LastIs DEF IsCounted
  <2> QED
    BY <2>2, <2>3 DEF IsCounted
<1> QED
  BY <1>1, <1>2, <1>3, OwnershipCorrect, PTL DEF Spec

-----------------------------------------------------------------------------
(* The attempt that a plan names *)

(* A row that says SUCCEEDED names the attempt that had the success. *)
LEMMA RowsNameTheirMakers ==
    ASSUME TypeOK, Counting, Grounding, NEW r \in DOMAIN runs
    PROVE  NamesItsMaker(r, steps[r])
<1> SUFFICES ASSUME NEW s \in StepId, steps[r][s] # Null, steps[r][s].status = "SUCCEEDED"
             PROVE  MadeBy(steps[r][s].last_attempt_id, r, s, steps[r][s])
  BY DEF NamesItsMaker
<1> DEFINE row == steps[r][s]
           I == TriesIn(attempts, r, s)
<1>1. PICK a \in DOMAIN attempts : MadeBy(a, r, s, row)
  BY DEF Grounding, RowsAreBacked, Backed
<1>2. a \in I
  BY <1>1 DEF MadeBy, TriesIn
<1>3. IsCounted(attempts, I, row) /\ row \in StepRow
  BY DEF Counting, RowsAreCounted, TypeOK, StoreTypeOK, StepTable
<1>4. attempts[a].attempt_no \in 1..row.attempt_count /\ row.attempt_count \in Nat
  <2>1. attempts[a].attempt_no \in {attempts[x].attempt_no : x \in I}
    BY <1>2
  <2> QED
    BY <1>3, <2>1 DEF IsCounted, StepRow
<1>5. row.attempt_count > 0
  BY <1>4
<1> QED
  BY <1>3, <1>5 DEF IsCounted, TriesIn, MadeBy

(* What a repair has loaded it keeps until its plan is saved. *)
LEMMA RecordsStay ==
    ASSUME TypeOK, [Next]_vars, NEW p \in Proc, pc'[p] \in {"survey", "evaluate"}
    PROVE  \/ /\ pc[p] \in {"survey", "evaluate"}
              /\ job'[p].run_id = job[p].run_id /\ job'[p].records = job[p].records
           \/ \E r \in DOMAIN runs : job'[p].run_id = r /\ job'[p].records = steps[r]
<1>0. job[p] \in Job /\ LocalTypeOK
  BY JobFacts DEF TypeOK
<1>1. CASE Stays(p)
  BY <1>1 DEF Stays
<1>2. CASE SurveyStep(p) \/ SurveyDone(p) \/ EvaluateNext(p)
  BY <1>0, <1>2 DEF SurveyStep, Surveying, SurveyDone, EvaluateNext, LocalTypeOK, Job
<1>3. ASSUME NEW r \in DOMAIN runs, RepairLoad(p, r)
      PROVE  job'[p].run_id = r /\ job'[p].records = steps[r]
  BY <1>0, <1>3 DEF RepairLoad, LocalTypeOK, Job
<1> QED
  BY <1>1, <1>2, <1>3, Surveys, Evaluates

(* Every step keeps the names: attempts that have succeeded stay.          *)
LEMMA NamingStep ==
    ASSUME TypeOK, Course, Ownership, Grounding, Counting, Naming, [Next]_vars
    PROVE  Naming'
<1>1. ASSUME NEW r, NEW records, NamesItsMaker(r, records) PROVE NamesItsMaker(r, records)'
  BY <1>1, MadeKept DEF NamesItsMaker, MadeBy
<1>2. ASSUME NEW p \in Proc, pc'[p] \in {"survey", "evaluate"}
      PROVE  NamesItsMaker(job[p].run_id, job[p].records)'
  <2>1. PICK r, records : /\ job'[p].run_id = r /\ job'[p].records = records
                          /\ NamesItsMaker(r, records)
    BY <1>2, RecordsStay, RowsNameTheirMakers DEF Naming
  <2>2. NamesItsMaker(r, records)'
    BY <1>1, <2>1
  <2> QED
    BY <2>1, <2>2 DEF NamesItsMaker, MadeBy
<1>3. ASSUME NEW k \in DOMAIN plans'
      PROVE  NamesItsMaker(plans[k].run_id, history.surveys[k].records)'
  <2>0. /\ plans \in Seq(PlanRow) /\ history \in History
        /\ Len(history.surveys) = Len(plans) /\ history.surveys \in Seq(Survey)
    BY DEF TypeOK, StoreTypeOK, WorldTypeOK, History
  <2>1. PICK r, records : /\ plans'[k].run_id = r /\ history'.surveys[k].records = records
                          /\ NamesItsMaker(r, records)
    <3>1. CASE plans' = plans /\ history'.surveys = history.surveys
      BY <3>1 DEF Naming
    <3>2. ASSUME NEW p \in Proc, SavePlan(p)
          PROVE  NamesItsMaker(plans'[k].run_id, history'.surveys[k].records)
      <4> DEFINE j == job[p]
                 new == [run_id |-> j.run_id,
                         source_runbook_digest |-> RunbookDigest(j.runbook),
                         decisions |-> j.decisions]
                 seen == [inputs |-> j.inputs, records |-> j.records, mark |-> j.mark]
      <4>1. plans' = Append(plans, new) /\ history'.surveys = Append(history.surveys, seen)
        BY <2>0, <3>2 DEF SavePlan, SaveRepairPlan, History
      <4>2. NamesItsMaker(new.run_id, seen.records)
        BY <3>2 DEF SavePlan, Naming
      <4> HIDE DEF new, seen
      <4>3. \/ plans'[k] = new /\ history'.surveys[k] = seen
            \/ k \in DOMAIN plans /\ plans'[k] = plans[k]
               /\ history'.surveys[k] = history.surveys[k]
        BY <2>0, <4>1
      <4> QED
        BY <4>2, <4>3 DEF Naming
    <3> QED
      BY <3>1, <3>2, HistoryStep
  <2>2. NamesItsMaker(r, records)'
    BY <1>1, <2>1
  <2> QED
    BY <2>1, <2>2 DEF NamesItsMaker, MadeBy
<1> QED
  BY <1>2, <1>3 DEF Naming

LEMMA InitNaming == Init => Naming
  BY DEF Init, StoreInit, Naming

(* While one process at a time works on the store: what a plan reuses was  *)
(* made by the attempt that the record names, from the inputs that were    *)
(* there when the plan was made -- the command had read them -- unless a   *)
(* file was edited while the command ran, or the step writes its inputs.   *)
THEOREM ReuseIsTrue ==
    ASSUME OneProcess
    PROVE  Spec => []ReuseIsSound
<1>1. Init => (Counting /\ ReadIsTrue /\ Naming)
  BY InitCounting, InitNaming
<1> DEFINE Named == Counting /\ ReadIsTrue /\ Naming
<1>2. TypeOK /\ Course /\ Ownership /\ Grounding /\ Named /\ [Next]_vars => Named'
  BY CountingStep, ReadStep, NamingStep
<1>3. Grounding /\ Comparing /\ Reading /\ Naming => ReuseIsSound
  <2> SUFFICES ASSUME Grounding, Comparing, Reading, Naming, NEW k \in DOMAIN plans,
                      NEW s \in Steps(PlanBook(k)), Reuses(k, s)
               PROVE  WasRead(LastAttempt(k, s), history.surveys[k].inputs[s])
    BY DEF ReuseIsSound, WasRead
  <2> DEFINE row == history.surveys[k].records[s]
             r == plans[k].run_id
             a == row.last_attempt_id
  <2>1. runs[r].runbook_digest = plans[k].source_runbook_digest
    BY DEF Grounding, PlansAreSound, SoundPlan, Sound, Reuses, Decided, PlanBook
  <2>2. /\ row # Null /\ row.status = "SUCCEEDED"
        /\ row.contract.input_fingerprints = history.surveys[k].inputs[s]
    BY DEF Comparing, PlanFits, ReusesWhatFits, Reuses, Decided, PlanBook
  <2>3. MadeBy(a, r, s, row)
    BY <2>2 DEF Naming, NamesItsMaker, Steps
  <2>4. DefinitionOf(a) = PlanBook(k).steps[s]
    BY <2>1, <2>3 DEF MadeBy, DefinitionOf, PlanBook
  <2>5. KeepsInputs(DefinitionOf(a))
    BY <2>4 DEF Reuses, KeepsInputs
  <2>6. WasRead(a, attempts[a].contract.input_fingerprints)
    BY <2>3, <2>5 DEF MadeBy, Reading, SuccessesHaveRead
  <2> QED
    BY <2>2, <2>3, <2>6 DEF MadeBy, LastAttempt
<1> QED
  BY <1>1, <1>2, <1>3, ComparingCorrect, ReadingCorrect, PTL DEF Spec

-----------------------------------------------------------------------------
(* Successes that fit *)

(* A success goes on to fit while its inputs stay, and nothing is removed. *)
LEMMA FitsStill ==
    ASSUME NEW F, NEW G, NEW A, NEW B, NEW book, NEW D, AllFit(F, A, book, D),
           NEW E \in SUBSET D,
           \A s \in E : B[s] = A[s],
           \A s \in E : \A q \in book.steps[s].inputs : G[q] = F[q],
           \A q \in Path : G[q] = F[q] \/ G[q] # Missing
    PROVE  AllFit(G, B, book, E)
<1> SUFFICES ASSUME NEW s \in E PROVE Fits(G, B[s], book.steps[s])
  BY DEF AllFit
<1> DEFINE def == book.steps[s]
<1>1. Fits(F, A[s], def) /\ B[s] = A[s]
  BY DEF AllFit
<1>2. PrintsIn(G, def.inputs) = PrintsIn(F, def.inputs)
  BY DEF PrintsIn
<1>3. AllExist(PrintsIn(G, def.outputs))
  <2>1. \A q \in Path : PrintsIn(F, def.outputs)[q] # Missing
    BY <1>1 DEF Fits, AllExist
  <2> QED
    BY <2>1 DEF PrintsIn, AllExist
<1> QED
  BY <1>1, <1>2, <1>3 DEF Fits

(* Fewer steps, in the same workspace. *)
LEMMA FitsFewer ==
    ASSUME NEW F, NEW A, NEW B, NEW book, NEW D, AllFit(F, A, book, D),
           NEW E \in SUBSET D, \A s \in E : B[s] = A[s]
    PROVE  AllFit(F, B, book, E)
  BY DEF AllFit

(* A fingerprint is of the files as they are. *)
LEMMA FingerprintIs == \A ps : Fingerprint(ps) = PrintsIn(files, ps)
  BY DEF Fingerprint, PrintsIn

(* The steps behind the loop depend only on one another. *)
LEMMA EvaluatedIsClosed ==
    ASSUME TypeOK, NEW p \in Proc
    PROVE  /\ Evaluated(job[p]) \subseteq Steps(Book[job[p].runbook])
           /\ \A c \in Evaluated(job[p]) :
                 Definition(job[p], c).depends_on \subseteq Evaluated(job[p])
<1> DEFINE j == job[p]
           order == Order(j)
           n == j.position
<1>1. order \in Seq(StepId) /\ n \in Nat /\ Valid(Book[j.runbook])
  BY JobFacts, BookAssumption
<1>2. /\ \A i \in DOMAIN order : order[i] \in Steps(Book[j.runbook])
      /\ \A i \in DOMAIN order :
            Definition(j, order[i]).depends_on \subseteq {order[k] : k \in 1..i-1}
  BY <1>1, BookFacts, JobFacts DEF Valid, Order, Definition
<1>3. Evaluated(j) = {order[i] : i \in {x \in DOMAIN order : x < n}}
  BY DEF Evaluated
<1> HIDE DEF order, n, j
<1>4. ASSUME NEW i \in DOMAIN order, i < n, NEW d \in {order[k] : k \in 1..i-1}
      PROVE  d \in {order[x] : x \in {y \in DOMAIN order : y < n}}
  BY <1>1, <1>4
<1>5. Evaluated(j) \subseteq Steps(Book[j.runbook])
  BY <1>2, <1>3
<1>6. ASSUME NEW c \in Evaluated(j) PROVE Definition(j, c).depends_on \subseteq Evaluated(j)
  <2>1. PICK i \in DOMAIN order : i < n /\ c = order[i]
    BY <1>3
  <2>2. Definition(j, c).depends_on \subseteq {order[k] : k \in 1..i-1}
    BY <1>2, <2>1
  <2> QED
    BY <1>3, <1>4, <2>1, <2>2
<1> QED
  BY <1>5, <1>6 DEF j

(* The dependencies of a step are steps. *)
LEMMA DependenciesKnown ==
    ASSUME NEW v \in Version, NEW s \in Steps(Book[v])
    PROVE  Book[v].steps[s].depends_on \subseteq Steps(Book[v])
<1>1. Valid(Book[v]) /\ Book[v].order \in Seq(StepId)
  BY BookAssumption, BookFacts
<1>2. PICK i \in DOMAIN Book[v].order : Book[v].order[i] = s
  BY BookFacts
<1>3. Book[v].steps[s].depends_on \subseteq {Book[v].order[k] : k \in 1..i-1}
  BY <1>1, <1>2 DEF Valid
<1>4. \A k \in 1..i-1 : Book[v].order[k] \in Steps(Book[v])
  BY <1>1, <1>2, BookFacts
<1> QED
  BY <1>3, <1>4

(* A step that nothing in C depends on writes no input of C. *)
LEMMA WritesElsewhere ==
    ASSUME SourcesAreDependencies, NEW v \in Version, NEW C \in SUBSET Steps(Book[v]),
           \A c \in C : Book[v].steps[c].depends_on \subseteq C,
           NEW t \in Steps(Book[v]), t \notin C, NEW s \in C
    PROVE  Book[v].steps[t].outputs \cap Book[v].steps[s].inputs = {}
<1>1. ~DependsOn(Book[v], s, t)
  BY DEF DependsOn
<1>2. s \in Steps(Book[v]) /\ s # t
  OBVIOUS
<1> QED
  BY <1>1, <1>2 DEF SourcesAreDependencies

-----------------------------------------------------------------------------
(* Calm *)

(* The budget falls. *)
LEMMA BudgetFalls ==
    ASSUME TypeOK, [Next]_vars
    PROVE  /\ \A event \in Event : budget'[event] <= budget[event]
           /\ \A q, content : Edit(q, content) => budget'["edit"] < budget["edit"]
           /\ \A p \in Proc : Crash(p) => budget'["crash"] < budget["crash"]
<1>0. budget \in [Event -> Nat] /\ {"run", "repair", "resume", "edit", "revise", "crash"} = Event
  BY DEF TypeOK, WorldTypeOK, Event
<1>1. ASSUME NEW event \in Event, Spend(event)
      PROVE  /\ \A x \in Event : budget'[x] <= budget[x]
             /\ budget'[event] < budget[event]
  BY <1>0, <1>1 DEF Spend
<1>2. ASSUME UNCHANGED budget PROVE \A x \in Event : budget'[x] <= budget[x]
  BY <1>0, <1>2
<1>3. ASSUME NEW p \in Proc, Step(p) PROVE UNCHANGED budget
  BY <1>3 DEF Step, Environment, ExecuteRunbook, ResumeRunbook, ResumeStale, StepReuse,
     StepUnconfirmed, StepBlocked, RecordBlocked, LoopEnd, ObserveBefore, ObserveRejected,
     SelectStarted, RecordStarted, Spawn, SpawnError, ObserveAfter, SelectFinished,
     RecordFinished, RepairLoad, SurveyStep, SurveyFails, SurveyDone, EvaluateNext, SavePlan
<1>4. CommandEnds \/ UNCHANGED vars => UNCHANGED budget
  BY DEF CommandEnds, CommandExit, vars
<1>5. ASSUME NEW p, NEW command \in {"run", "repair", "resume"}, Launch(p, command)
      PROVE  Spend(command) /\ command \in Event
  BY <1>0, <1>5 DEF Launch
<1>6. ASSUME NEW p, Crash(p) PROVE Spend("crash")
  BY <1>6 DEF Crash
<1>7. ASSUME NEW q, NEW content, Edit(q, content) PROVE Spend("edit")
  BY <1>7 DEF Edit
<1>8. ASSUME NEW v, Revise(v) PROVE Spend("revise")
  BY <1>8 DEF Revise
<1>9. UNCHANGED budget \/ \E event \in Event : Spend(event)
  BY <1>0, <1>3, <1>4, <1>5, <1>6, <1>7, <1>8 DEF Next, User
<1> QED
  BY <1>0, <1>1, <1>2, <1>6, <1>7, <1>9

(* As long as only one run writes to the workspace, nobody edits and no    *)
(* process is killed.                                                      *)
LEMMA CalmStep ==
    ASSUME TypeOK, Course, Bounded, [Next]_vars, Calm'
    PROVE  /\ Calm
           /\ \A p \in Proc : ~Crash(p)
           /\ \A q, content : ~Edit(q, content)
           /\ \A r, x \in DOMAIN runs' : r = x
<1>0. /\ budget \in [Event -> Nat] /\ {"edit", "crash"} \subseteq Event
      /\ \A event \in Event : budget[event] \in Nat /\ Budget[event] \in Nat
      /\ runs \in Seq(RunRow) 
  BY BudgetAssumption DEF TypeOK, StoreTypeOK, WorldTypeOK, Event
<1>1. ASSUME NEW event \in {"edit", "crash"}
      PROVE  budget'[event] = Budget[event] /\ budget[event] = budget'[event]
  BY <1>0, BudgetFalls DEF Calm, Bounded
<1>2. \A p \in Proc : ~Crash(p)
  BY <1>0, <1>1, BudgetFalls
<1>3. \A q, content : ~Edit(q, content)
  BY <1>0, <1>1, BudgetFalls
<1>4. runs' \in Seq(RunRow) /\ Len(runs') <= 1
  BY TypeStep DEF TypeOK, StoreTypeOK, Calm
<1>5. \A r \in DOMAIN runs : r \in DOMAIN runs'
  BY RunsKept
<1>6. Len(runs) <= 1
  BY <1>0, <1>4, <1>5
<1>7. \A r, x \in DOMAIN runs' : r = x
  BY <1>4
<1>8. \A event \in {"edit", "crash"} : budget[event] = Budget[event]
  BY <1>1
<1> QED
  BY <1>2, <1>3, <1>6, <1>7, <1>8 DEF Calm

(* A process that waits goes on when its command has ended.                *)
LEMMA WaitStep ==
    ASSUME OneProcess, TypeOK, [Next]_vars, NEW p \in Proc, pc[p] = "wait", ~Crash(p)
    PROVE  CommandEnds \/ (Stays(p) /\ UNCHANGED children)
<1>1. \A q \in Proc : q = p
  BY DEF OneProcess
<1>2. ~Step(p)
  BY DEF Step, ExecuteRunbook, ResumeRunbook, ResumeStale, AtStep, StepReuse,
     StepUnconfirmed, StepBlocked, RecordBlocked, LoopEnd, ObserveBefore, ObserveRejected,
     SelectStarted, RecordStarted, Spawn, SpawnError, ObserveAfter, SelectFinished,
     RecordFinished, RepairLoad, SurveyStep, Surveying, SurveyFails, SurveyDone,
     EvaluateNext, SavePlan
<1>3. \A command : ~Launch(p, command)
  BY DEF Launch
<1>4. ASSUME NEW q, NEW content, NEW v, Edit(q, content) \/ Revise(v)
      PROVE  Stays(p) /\ UNCHANGED children
  BY <1>4 DEF Edit, Revise, Stays
<1>5. UNCHANGED vars => Stays(p) /\ UNCHANGED children
  BY DEF vars, Stays
<1> QED
  BY <1>1, <1>2, <1>3, <1>4, <1>5 DEF Next, User

(* While a process is alone and is not killed, a live command is the one   *)
(* it waits for.                                                           *)
LEMMA AwaitedStep ==
    ASSUME OneProcess, TypeOK, CommandsAreAwaited, [Next]_vars, \A p \in Proc : ~Crash(p)
    PROVE  CommandsAreAwaited'
<1>0. LocalTypeOK
  BY DEF TypeOK
<1> SUFFICES ASSUME NEW child \in children'
             PROVE  \E p \in Proc :
                       /\ pc'[p] = "wait"
                       /\ child = [attempt_id |-> job'[p].attempt_id,
                                   outputs |-> Current(job'[p]).outputs]
  BY DEF CommandsAreAwaited, Current, Definition, CurrentStep, Order
<1>1. ASSUME NEW p \in Proc, Spawn(p)
      PROVE  /\ pc'[p] = "wait"
             /\ child = [attempt_id |-> job'[p].attempt_id,
                         outputs |-> Current(job'[p]).outputs]
  <2>1. children = {}
    BY <1>1 DEF CommandsAreAwaited, OneProcess, Spawn
  <2> QED
    BY <1>0, <1>1, <2>1 DEF Spawn, Goto, LocalTypeOK
<1>2. CASE CommandEnds
  <2>1. PICK ended \in children : children' = children \ {ended}
    BY <1>2 DEF CommandEnds, CommandExit
  <2>2. \A x, y \in children : x = y
    BY DEF CommandsAreAwaited, OneProcess
  <2> QED
    BY <2>1, <2>2
<1>3. CASE child \in children /\ ~CommandEnds
  <2>1. PICK p \in Proc : /\ pc[p] = "wait"
                          /\ child = [attempt_id |-> job[p].attempt_id,
                                      outputs |-> Current(job[p]).outputs]
    BY <1>3 DEF CommandsAreAwaited
  <2>2. Stays(p)
    BY <1>3, <2>1, WaitStep
  <2> QED
    BY <2>1, <2>2 DEF Stays
<1>4. children' \subseteq children \/ (\E p \in Proc : Spawn(p))
  <2>1. ASSUME NEW p \in Proc, Step(p) PROVE UNCHANGED children \/ Spawn(p)
    BY <2>1 DEF Step, Environment, ExecuteRunbook, ResumeRunbook, ResumeStale, StepReuse,
       StepUnconfirmed, StepBlocked, RecordBlocked, LoopEnd, ObserveBefore, ObserveRejected,
       SelectStarted, RecordStarted, SpawnError, ObserveAfter, SelectFinished, RecordFinished,
       RepairLoad, SurveyStep, SurveyFails, SurveyDone, EvaluateNext, SavePlan
  <2>2. ASSUME CommandEnds \/ User PROVE children' \subseteq children
    BY <2>2 DEF CommandEnds, CommandExit, User, Launch, Crash, Edit, Revise
  <2> QED
    BY <2>1, <2>2 DEF Next, vars
<1> QED
  BY <1>1, <1>2, <1>3, <1>4

(* Then a file changes only where a command that is awaited writes it.     *)
LEMMA FilesAlone ==
    ASSUME OneProcess, TypeOK, Bounded, CommandsAreAwaited, [Next]_vars,
           \A q, content : ~Edit(q, content), NEW p \in Proc
    PROVE  \/ files' = files
           \/ /\ pc[p] = "wait" /\ Answered(p)
              /\ UNCHANGED <<runs, steps, transitions, plans>>
              /\ history'.surveys = history.surveys /\ history'.settled = history.settled
              /\ \A q \in Path :
                    /\ q \notin Current(job[p]).outputs => files'[q] = files[q]
                    /\ files'[q] = files[q] \/ files'[q] # Missing
<1>0. LocalTypeOK /\ history \in History /\ clock \in Nat /\ clock # Missing
  BY DEF TypeOK, WorldTypeOK, Bounded, Missing
<1>1. ASSUME NEW child \in children, NEW kind \in CommandFailure \cup {Null},
             NEW written \in SUBSET child.outputs, CommandExit(child, kind, written)
      PROVE  /\ pc[p] = "wait" /\ Answered(p)
             /\ UNCHANGED <<runs, steps, transitions, plans>>
             /\ history'.surveys = history.surveys /\ history'.settled = history.settled
             /\ \A q \in Path :
                   /\ q \notin Current(job[p]).outputs => files'[q] = files[q]
                   /\ files'[q] = files[q] \/ files'[q] # Missing
  <2>1. /\ pc[p] = "wait" /\ Waiting(p, child.attempt_id)
        /\ child.outputs = Current(job[p]).outputs
    BY DEF CommandsAreAwaited, OneProcess, Waiting
  <2>2. Answered(p)
    BY <1>0, <1>1, <2>1 DEF CommandExit, Answered, LocalTypeOK
  <2>3. history'.surveys = history.surveys /\ history'.settled = history.settled
    BY <1>0, <1>1 DEF CommandExit, History
  <2>4. /\ UNCHANGED <<runs, steps, transitions, plans>>
        /\ files' = [q \in Path |-> IF q \in written THEN clock ELSE files[q]]
    BY <1>1 DEF CommandExit, Write, store
  <2> QED
    BY <1>0, <2>1, <2>2, <2>3, <2>4
<1> QED
  BY <1>1, FilesStep DEF CommandEnds

(* The only process is the only one that writes the store. *)
LEMMA RecordsAlone ==
    ASSUME OneProcess, [Next]_vars, NEW p \in Proc
    PROVE  UNCHANGED <<runs, steps, transitions>> \/ Records(p)
  BY StoryStays DEF OneProcess

(* A success is noted where a loop ends. *)
LEMMA SettledStep ==
    ASSUME TypeOK, [Next]_vars
    PROVE  \/ history'.settled = history.settled
           \/ \E p \in Proc : LoopEnd(p)
<1>0. history \in History
  BY DEF TypeOK, WorldTypeOK
<1>1. ASSUME NEW p \in Proc, RecordStarted(p) \/ Spawn(p) \/ SavePlan(p)
      PROVE  history'.settled = history.settled
  BY <1>0, <1>1 DEF SavePlan, RecordStarted, Spawn, History
<1>2. ASSUME NEW p \in Proc, Step(p),
             ~(LoopEnd(p) \/ RecordStarted(p) \/ Spawn(p) \/ SavePlan(p))
      PROVE  history' = history
  BY <1>2 DEF Step, Environment, ExecuteRunbook, ResumeRunbook, ResumeStale, StepReuse,
     StepUnconfirmed, StepBlocked, RecordBlocked, ObserveBefore, ObserveRejected,
     SelectStarted, SpawnError, ObserveAfter, SelectFinished, RecordFinished, RepairLoad,
     SurveyStep, SurveyFails, SurveyDone, EvaluateNext
<1>3. ASSUME CommandEnds \/ User PROVE history'.settled = history.settled
  BY <1>0, <1>3 DEF CommandEnds, CommandExit, User, Launch, Crash, Edit, Revise, History
<1>4. UNCHANGED vars => history' = history
  BY DEF vars
<1> QED
  BY <1>1, <1>2, <1>3, <1>4 DEF Next

(* The success that a loop notes is at the new end of the log of its run.  *)
LEMMA NotesItsSuccess ==
    ASSUME TypeOK, Course, NEW p \in Proc, LoopEnd(p)
    PROVE  LET end == [run_id |-> job[p].run_id, mark |-> Mark(job[p].run_id) + 1]
           IN  /\ MarkIn(transitions', job[p].run_id) = Mark(job[p].run_id) + 1
               /\ \/ history'.settled = history.settled
                  \/ /\ history'.settled = history.settled \cup {end}
                     /\ job[p].fresh /\ AllSucceeded(job[p])
<1> DEFINE r == job[p].run_id
           end == [run_id |-> r, mark |-> Mark(r) + 1]
           x == Transition(r, Null, Null, FinalStatus(job[p]), "RUN_FINISHED")
<1>1. r \in Nat /\ history \in History /\ transitions \in Seq(TransitionRow)
  BY JobFacts DEF Job, TypeOK, StoreTypeOK, WorldTypeOK
<1>2. x \in TransitionRow /\ x.run_id = r /\ transitions' = Append(transitions, x)
  BY <1>1 DEF Transition, TransitionRow, FinalStatus, StepStatus, Reason, LoopEnd, FinishRun
<1>3. MarkIn(transitions', r) = MarkIn(transitions, r) + 1
  <2> HIDE DEF x, r
  <2> QED
    BY <1>1, <1>2, MarkGrows
<1>4. MarkIn(transitions, r) = Mark(r)
  BY DEF MarkIn, Mark
<1>5. history'.settled = IF job[p].fresh /\ AllSucceeded(job[p])
                         THEN history.settled \cup {end} ELSE history.settled
  BY <1>1 DEF LoopEnd, History
<1> QED
  BY <1>3, <1>4, <1>5

(* The mark of a run never falls, and it grows where the run is written. *)
LEMMA MarksGrow ==
    ASSUME TypeOK, Course, [Next]_vars, NEW r
    PROVE  /\ MarkIn(transitions, r) = Mark(r) /\ Mark(r) \in Nat
           /\ MarkIn(transitions', r) \in Nat /\ MarkIn(transitions', r) >= Mark(r)
           /\ r \in DOMAIN runs /\ MarkIn(transitions', r) = Mark(r) => steps'[r] = steps[r]
           /\ \A p \in Proc : RecordStarted(p) /\ job[p].run_id = r =>
                 MarkIn(transitions', r) = Mark(r) + 1
<1>1. MarkIn(transitions, r) = Mark(r) /\ Mark(r) \in Nat
  BY MarkType DEF MarkIn, Mark
<1>2. transitions \in Seq(TransitionRow)
  BY DEF TypeOK, StoreTypeOK
<1>3. ASSUME NEW x \in TransitionRow, transitions' = Append(transitions, x)
      PROVE  MarkIn(transitions', r) = IF x.run_id = r THEN Mark(r) + 1 ELSE Mark(r)
  BY <1>1, <1>2, <1>3, MarkGrows
<1>4. ASSUME NEW p \in Proc, RecordStarted(p), job[p].run_id = r
      PROVE  MarkIn(transitions', r) = Mark(r) + 1
  <2>1. PICK x \in TransitionRow : transitions' = Append(transitions, x) /\ x.run_id = r
    BY <1>4, Writes
  <2> QED
    BY <1>3, <2>1
<1>5. CASE UNCHANGED <<runs, steps, transitions>>
  BY <1>1, <1>4, <1>5
<1>6. ASSUME NEW x \in TransitionRow, transitions' = Append(transitions, x),
             \A q \in DOMAIN runs : x.run_id = q \/ steps'[q] = steps[q]
      PROVE  /\ MarkIn(transitions', r) \in Nat /\ MarkIn(transitions', r) >= Mark(r)
             /\ r \in DOMAIN runs /\ MarkIn(transitions', r) = Mark(r) => steps'[r] = steps[r]
  <2>1. MarkIn(transitions', r) = IF x.run_id = r THEN Mark(r) + 1 ELSE Mark(r)
    BY <1>3, <1>6
  <2> QED
    BY <1>1, <1>6, <2>1
<1> QED
  BY <1>1, <1>4, <1>5, <1>6, TablesStep

(* The bounds stay. *)
LEMMA BoundedStep ==
    ASSUME TypeOK, Course, Bounded, [Next]_vars
    PROVE  Bounded'
<1>0. /\ clock \in Nat /\ budget \in [Event -> Nat] /\ TypeOK'
      /\ \A event \in Event : budget[event] \in Nat /\ Budget[event] \in Nat
      /\ \A event \in Event : budget'[event] \in Nat
  BY TypeStep, BudgetAssumption DEF TypeOK, WorldTypeOK
<1>1. clock' > 0
  <2>1. clock' \in {clock, clock + 1}
    <3>1. ASSUME NEW p \in Proc, Step(p) PROVE UNCHANGED clock
      BY <3>1 DEF Step, workspace, ExecuteRunbook, ResumeRunbook, ResumeStale, StepReuse,
         StepUnconfirmed, StepBlocked, RecordBlocked, LoopEnd, ObserveBefore,
         ObserveRejected, SelectStarted, RecordStarted, Spawn, SpawnError, ObserveAfter,
         SelectFinished, RecordFinished, RepairLoad, SurveyStep, SurveyFails, SurveyDone,
         EvaluateNext, SavePlan
    <3>2. ASSUME CommandEnds \/ User PROVE clock' \in {clock, clock + 1}
      BY <3>2 DEF CommandEnds, CommandExit, Write, User, Launch, Crash, Edit, Put, Revise,
         workspace
    <3> QED
      BY <3>1, <3>2 DEF Next, vars
  <2> QED
    BY <1>0, <2>1 DEF Bounded
<1>2. \A event \in Event : budget'[event] <= Budget[event]
  BY <1>0, BudgetFalls DEF Bounded
<1>3. ASSUME NEW e \in history'.settled
      PROVE  e.run_id \in DOMAIN runs' /\ e.mark <= MarkIn(transitions', e.run_id)
  <2>0. history.settled \subseteq [run_id : Nat, mark : Nat]
    BY DEF TypeOK, WorldTypeOK, History
  <2>1. CASE e \in history.settled
    <3>1. e.mark \in Nat /\ e.run_id \in DOMAIN runs /\ e.mark <= Mark(e.run_id)
      BY <2>0, <2>1 DEF Bounded
    <3> DEFINE r == e.run_id
    <3>2. Mark(r) \in Nat /\ MarkIn(transitions', r) \in Nat /\ MarkIn(transitions', r) >= Mark(r)
      BY MarksGrow
    <3> QED
      BY <3>1, <3>2, RunsKept
  <2>2. ASSUME NEW p \in Proc, LoopEnd(p), e \notin history.settled
        PROVE  e.run_id \in DOMAIN runs' /\ e.mark <= MarkIn(transitions', e.run_id)
    <3>1. /\ e.run_id = job[p].run_id /\ e.mark = Mark(job[p].run_id) + 1
          /\ MarkIn(transitions', job[p].run_id) = Mark(job[p].run_id) + 1
      BY <2>2, NotesItsSuccess
    <3>2. job[p].run_id \in DOMAIN runs
      BY <2>2 DEF LoopEnd, Working, Course, OnCourse, MadeFrom
    <3>3. Mark(job[p].run_id) \in Nat
      BY MarkType
    <3> QED
      BY <3>1, <3>2, <3>3, RunsKept
  <2> QED
    BY <2>1, <2>2, SettledStep
<1> QED
  BY <1>1, <1>2, <1>3 DEF Bounded, Mark, MarkIn

-----------------------------------------------------------------------------
(* What a loop goes by *)

(* What a loop relies on, a step at a time. *)
LEMMA ReliedIs ==
    ASSUME NEW j, NEW s
    PROVE  s \in Relied(j) <=>
              \/ s \in Evaluated(j) /\ j.statuses[s] = "SUCCEEDED"
              \/ j.command = "resume" /\ s \in Ahead(j) /\ j.decisions[s].decision = "REUSE"
  BY DEF Relied, Reused

(* A step that is being executed, or is blocked, is not relied on.         *)
LEMMA NotReliedOn ==
    ASSUME TypeOK, Course, NEW p \in Proc, LoopIsCurrent(p), pc[p] = "block" \/ Executing(p)
    PROVE  /\ job[p].position \in DOMAIN Order(job[p])
           /\ CurrentStep(job[p]) \in Steps(Book[job[p].runbook])
           /\ CurrentStep(job[p]) \notin Evaluated(job[p])
           /\ job[p].command = "resume" =>
                 job[p].decisions[CurrentStep(job[p])].decision # "REUSE"
           /\ CurrentStep(job[p]) \notin Relied(job[p])
<1>1. job[p].position \in DOMAIN Order(job[p])
  BY DEF Course, OnCourse
<1>2. CurrentStep(job[p]) \in Steps(Book[job[p].runbook])
  BY <1>1, AtAStep
<1>3. CurrentStep(job[p]) \notin Evaluated(job[p])
  BY <1>1, OrderIsValid
<1>4. job[p].command = "resume" => job[p].decisions[CurrentStep(job[p])].decision # "REUSE"
  BY DEF LoopIsCurrent, Planned
<1> QED
  BY <1>1, <1>2, <1>3, <1>4, ReliedIs

(* What a command writes is no input of a step that is relied on: those    *)
(* behind the loop do not depend on its step, nor do those to be reused.   *)
LEMMA WritesPastRelied ==
    ASSUME SourcesAreDependencies, TypeOK, Course, NEW p \in Proc, LoopIsCurrent(p),
           LoopStands(p), Executing(p), NEW s \in Relied(job[p])
    PROVE  Current(job[p]).outputs \cap Definition(job[p], s).inputs = {}
<1> DEFINE j == job[p]
           v == j.runbook
           t == CurrentStep(j)
           R == Reused(j.decisions, Steps(Book[v]))
<1>1. /\ v \in Version /\ t \in Steps(Book[v]) /\ t \notin Evaluated(j)
      /\ j.command = "resume" => t \notin R
  BY JobFacts, NotReliedOn DEF Reused
<1>2. /\ Evaluated(j) \subseteq Steps(Book[v])
      /\ \A c \in Evaluated(j) : Book[v].steps[c].depends_on \subseteq Evaluated(j)
  BY EvaluatedIsClosed DEF Definition
<1>3. CASE s \in Evaluated(j)
  BY <1>1, <1>2, <1>3, WritesElsewhere DEF Current, Definition
<1>4. ASSUME j.command = "resume", s \in R
      PROVE  Current(j).outputs \cap Definition(j, s).inputs = {}
  <2>1. Closed(j.decisions, Book[v], Steps(Book[v]))
    BY <1>4 DEF LoopStands, Working
  <2>2. \A c \in Steps(Book[v]) : Book[v].steps[c].depends_on \subseteq Steps(Book[v])
    BY <1>1, DependenciesKnown
  <2>3. \A c \in R : Book[v].steps[c].depends_on \subseteq R
    BY <2>1, <2>2 DEF Closed, Reused
  <2>4. R \subseteq Steps(Book[v])
    BY DEF Reused
  <2> QED
    BY <1>1, <1>4, <2>3, <2>4, WritesElsewhere DEF Current, Definition
<1>5. s \in Evaluated(j) \/ (j.command = "resume" /\ s \in R)
  BY ReliedIs DEF Ahead, Reused
<1> QED
  BY <1>3, <1>4, <1>5

(* What a loop relies on stays while it goes on.                           *)
LEMMA ReliedStep ==
    ASSUME OneProcess, SourcesAreDependencies, TypeOK, Course, Bounded, CommandsAreAwaited,
           \A p \in Proc : LoopIsCurrent(p), [Next]_vars, \A q, content : ~Edit(q, content),
           NEW p \in Proc, LoopStands(p), Working(p), Working(p)', SameInvocation(p),
           job'[p].fresh
    PROVE  AllFit(files', steps'[job'[p].run_id], Book[job'[p].runbook], Relied(job'[p]))
<1>0. job[p] \in Job /\ LocalTypeOK
  BY JobFacts DEF TypeOK
<1> DEFINE j == job[p]
           k == job'[p]
           t == CurrentStep(j)
           r == j.run_id
           book == Book[j.runbook]
<1>1. /\ k.run_id = r /\ k.runbook = j.runbook /\ k.command = j.command
      /\ k.decisions = j.decisions /\ AllFit(files, steps[r], book, Relied(j))
      /\ j.command = "resume" => \A s \in Ahead(j) : j.statuses[s] = "SUCCEEDED"
  BY DEF SameInvocation, LoopIsCurrent, LoopStands
<1>2. ASSUME k.position = j.position, k.statuses = j.statuses PROVE Relied(k) = Relied(j)
  <2>1. Evaluated(k) = Evaluated(j) /\ Ahead(k) = Ahead(j)
    BY <1>1, <1>2 DEF Evaluated, Ahead, Order
  <2> QED
    BY <1>1, <1>2, <2>1 DEF Relied
<1>3. Relied(j) \subseteq StepId
  BY ReliedIs, JobFacts, BookFacts DEF Evaluated, Ahead
<1>4. CASE files' # files
  <2>1. /\ pc[p] = "wait" /\ Answered(p) /\ steps' = steps
        /\ \A q \in Path :
              /\ q \notin Current(j).outputs => files'[q] = files[q]
              /\ files'[q] = files[q] \/ files'[q] # Missing
    BY <1>4, FilesAlone
  <2>2. k.position = j.position /\ k.statuses = j.statuses
    BY <1>0, <2>1 DEF Answered, Job
  <2>3. Executing(p)
    BY <2>1 DEF Executing
  <2>4. ASSUME NEW s \in Relied(j), NEW q \in book.steps[s].inputs
        PROVE  files'[q] = files[q]
    <3>1. Current(j).outputs \cap Definition(j, s).inputs = {}
      BY <2>3, WritesPastRelied
    <3>2. Definition(j, s) = book.steps[s] /\ book.steps[s].inputs \subseteq Path
      <4>1. s \in Steps(book)
        BY ReliedIs, EvaluatedIsClosed DEF Ahead
      <4> QED
        BY <4>1, JobFacts, BookFacts DEF Definition, StepDefinition
    <3> QED
      BY <2>1, <3>1, <3>2
  <2>5. Relied(k) = Relied(j)
    BY <1>2, <2>2
  <2> HIDE DEF j, k, t, r, book
  <2>6. AllFit(files', steps[r], book, Relied(j))
    BY <1>1, <2>1, <2>4, FitsStill
  <2> QED
    BY <1>1, <2>1, <2>5, <2>6 DEF book, k
<1>5. CASE files' = files
  <2>1. ASSUME Relied(k) \subseteq Relied(j), \A s \in Relied(k) : steps'[r][s] = steps[r][s]
        PROVE  AllFit(files', steps'[k.run_id], Book[k.runbook], Relied(k))
    <3> HIDE DEF k, j, r, book
    <3>1. AllFit(files, steps'[r], book, Relied(k))
      BY <1>1, <2>1, FitsFewer
    <3> QED
      BY <1>1, <1>5, <3>1 DEF book
  <2>2. CASE k.position = j.position /\ k.statuses = j.statuses
    <3>1. Relied(k) = Relied(j)
      BY <1>2, <2>2
    <3>2. CASE steps' = steps
      BY <2>1, <3>1, <3>2
    <3>3. ASSUME RecordBlocked(p) \/ RecordStarted(p) \/ RecordFinished(p),
                 \A s \in StepId : s # t => steps'[r][s] = steps[r][s]
          PROVE  AllFit(files', steps'[k.run_id], Book[k.runbook], Relied(k))
      <4>1. pc[p] = "block" \/ Executing(p)
        BY <3>3 DEF RecordBlocked, RecordStarted, RecordFinished, Executing
      <4>2. t \notin Relied(j)
        BY <4>1, NotReliedOn
      <4> QED
        BY <1>3, <2>1, <3>1, <3>3, <4>2
    <3> QED
      BY <3>2, <3>3, OthersKept
  <2>3. CASE StepReuse(p)
    <3>1. /\ j.position \in DOMAIN Order(j) /\ Planned(j, {"REUSE"})
          /\ k.position = j.position + 1 /\ k.statuses = j.statuses /\ steps' = steps
      BY <1>0, <2>3, JobFacts DEF StepReuse, AtStep, LocalTypeOK, Job, Course, OnCourse, store
    <3>2. /\ Evaluated(k) = Evaluated(j) \cup {t} /\ Ahead(k) = Ahead(j) \ {t}
          /\ t \in Ahead(j)
      BY <1>1, <3>1, GoesOn
    <3>3. j.command = "resume" /\ j.decisions[t].decision = "REUSE"
      BY <3>1 DEF Planned
    <3>4. Relied(k) \subseteq Relied(j)
      BY <1>1, <3>1, <3>2, <3>3, ReliedIs
    <3> QED
      BY <2>1, <3>1, <3>4
  <2>4. ASSUME NEW status, Advance(p, status), RecordBlocked(p) \/ RecordFinished(p)
        PROVE  /\ Relied(k) \subseteq Relied(j) \cup {t}
               /\ status # "SUCCEEDED" => t \notin Relied(k)
               /\ \A s \in Relied(j) : steps'[r][s] = steps[r][s]
    <3>1. pc[p] = "block" \/ Executing(p)
      BY <2>4 DEF RecordBlocked, RecordFinished, Executing
    <3>2. j.position \in DOMAIN Order(j) /\ t \notin Relied(j) /\ t \in StepId
      BY <2>4, <3>1, NotReliedOn, RecordsARow
    <3>3. k.position = j.position + 1 /\ k.statuses = [j.statuses EXCEPT ![t] = status]
      BY <1>0, <2>4 DEF Advance, LocalTypeOK, Job
    <3>4. \A s \in StepId : s # t => steps'[r][s] = steps[r][s]
      BY <2>4, OthersKept
    <3>5. /\ Evaluated(k) = Evaluated(j) \cup {t} /\ Ahead(k) = Ahead(j) \ {t}
          /\ Evaluated(j) \subseteq StepId
      BY <1>1, <3>2, <3>3, GoesOn
    <3>6. j.statuses \in [StepId -> StepStatus \cup {Null}]
      BY <1>0 DEF Job, Statuses
    <3>7. /\ \A s \in StepId : s # t => k.statuses[s] = j.statuses[s]
          /\ k.statuses[t] = status
      BY <3>2, <3>3, <3>6
    <3> HIDE DEF t, r, j, k
    <3>8. ASSUME NEW s \in Relied(k), s # t PROVE s \in Relied(j)
      BY <1>1, <3>5, <3>7, <3>8, ReliedIs
    <3>9. status # "SUCCEEDED" => t \notin Relied(k)
      BY <3>5, <3>7, ReliedIs
    <3> QED
      BY <1>3, <3>2, <3>4, <3>8, <3>9
  <2>5. CASE RecordBlocked(p)
    <3>1. /\ Relied(k) \subseteq Relied(j) \cup {t} /\ t \notin Relied(k)
          /\ \A s \in Relied(j) : steps'[r][s] = steps[r][s]
      BY <2>4, <2>5 DEF RecordBlocked
    <3> QED
      BY <2>1, <3>1
  <2>6. CASE RecordFinished(p)
    <3>1. /\ Relied(k) \subseteq Relied(j) \cup {t}
          /\ j.result.status # "SUCCEEDED" => t \notin Relied(k)
          /\ \A s \in Relied(j) : steps'[r][s] = steps[r][s]
      BY <2>4, <2>6 DEF RecordFinished
    <3>2. CASE t \notin Relied(k)
      BY <2>1, <3>1, <3>2
    <3>3. CASE t \in Relied(k)
      <4> DEFINE row == FinishedRow(steps[r][t], j.result, j.contract)
      <4>1. r \in DOMAIN runs /\ t \in StepId /\ steps[r][t] \in StepRow
        BY <2>6, RecordsARow
      <4>2. steps' = [steps EXCEPT ![r][t] = row] /\ StoreTypeOK
        BY <2>6 DEF RecordFinished, RecordStepFinished, TypeOK
      <4>3. steps'[r][t] = row
        <5>1. DOMAIN steps = DOMAIN runs /\ steps[r] \in StepTable
          BY <4>1, <4>2 DEF StoreTypeOK
        <5> HIDE DEF r, t, row
        <5> QED
          BY <4>1, <4>2, <5>1 DEF StepTable
      <4>4. row.status = "SUCCEEDED" /\ row.contract = j.contract
        BY <3>1, <3>3, <4>1 DEF FinishedRow, StepRow
      <4>5. /\ j.contract.input_fingerprints = PrintsIn(files, Current(j).inputs)
            /\ AllExist(PrintsIn(files, Current(j).outputs))
        BY <2>6, <3>1, <3>3 DEF RecordFinished, LoopStands
      <4>6. Current(j) = book.steps[t]
        BY DEF Current, Definition
      <4> HIDE DEF r, t, j, k, row, book
      <4>7. Fits(files, steps'[r][t], book.steps[t])
        BY <4>3, <4>4, <4>5, <4>6 DEF Fits
      <4>8. AllFit(files, steps'[r], book, Relied(j))
        BY <1>1, <3>1, FitsFewer
      <4>9. AllFit(files, steps'[r], book, Relied(k))
        BY <3>1, <4>7, <4>8 DEF AllFit
      <4> QED
        BY <1>1, <1>5, <4>9 DEF book, k
    <3> QED
      BY <3>2, <3>3
  <2> QED
    BY <2>2, <2>3, <2>5, <2>6, Loops
<1> QED
  BY <1>4, <1>5

(* A resume of a current plan starts from what the plan reuses. *)
LEMMA ReliedStart ==
    ASSUME TypeOK, Grounding, Dated, [Next]_vars, NEW p \in Proc, NEW k \in DOMAIN plans,
           NEW r \in DOMAIN runs, NEW confirmed, ResumeRunbook(p, r, k, confirmed),
           PlanStands(k), job'[p].fresh
    PROVE  AllFit(files', steps'[job'[p].run_id], Book[job'[p].runbook], Relied(job'[p]))
<1>0. job[p] \in Job /\ LocalTypeOK
  BY JobFacts DEF TypeOK
<1> DEFINE v == job[p].runbook
           survey == history.surveys[k]
           D == Reused(plans[k].decisions, Steps(PlanBook(k)))
<1>1. /\ job'[p].run_id = r /\ job'[p].decisions = plans[k].decisions
      /\ job'[p].runbook = v /\ job'[p].position = 1 /\ job'[p].command = "resume"
      /\ job'[p].fresh = (Mark(r) = survey.mark) /\ steps' = steps /\ files' = files
  BY <1>0 DEF ResumeRunbook, LocalTypeOK, Job, Grounding, store, workspace
<1>2. Evaluated(job'[p]) = {} /\ Ahead(job'[p]) = Steps(Book[v])
  <2>1. Order(job'[p]) \in Seq(StepId)
    BY <1>1, JobFacts DEF Order
  <2>2. Evaluated(job'[p]) = {}
    BY <1>1, <2>1 DEF Evaluated
  <2> QED
    BY <1>1, <2>2 DEF Ahead
<1>3. /\ plans[k].run_id = r /\ PlanBook(k).steps = Book[v].steps
      /\ Steps(PlanBook(k)) = Steps(Book[v])
  BY JobFacts, DigestFacts DEF ResumeRunbook, PlanMatches, PlanBook
<1>4. Relied(job'[p]) = D
  BY <1>1, <1>2, <1>3 DEF Relied, Reused
<1>5. steps[r] = survey.records
  <2>1. PlanIsDated(runs, steps, transitions, plans[k], survey)
    BY DEF Dated
  <2> QED
    BY <1>1, <1>3, <2>1 DEF PlanIsDated, UpToDate, Mark, MarkIn
<1>6. AllFit(files, survey.records, PlanBook(k), D)
  BY <1>1, <1>3 DEF PlanStands
<1> HIDE DEF v, survey, D
<1>7. AllFit(files, steps[r], Book[v], D)
  BY <1>3, <1>5, <1>6 DEF AllFit
<1> QED
  BY <1>1, <1>4, <1>7

(* The decisions that a resume goes by are closed. *)
LEMMA ResumeClosedStep ==
    ASSUME TypeOK, Closing, [Next]_vars, NEW p \in Proc, LoopStands(p),
           Working(p)', job'[p].command = "resume"
    PROVE  Closed(job'[p].decisions, Book[job'[p].runbook], Steps(Book[job'[p].runbook]))
<1>0. job[p] \in Job /\ LocalTypeOK
  BY JobFacts DEF TypeOK
<1>1. ASSUME ExecuteRunbook(p) PROVE FALSE
  BY <1>0, <1>1 DEF ExecuteRunbook, LocalTypeOK, Job
<1>2. ASSUME NEW k \in DOMAIN plans, NEW r \in DOMAIN runs, NEW confirmed,
             ResumeRunbook(p, r, k, confirmed)
      PROVE  Closed(job'[p].decisions, Book[job'[p].runbook], Steps(Book[job'[p].runbook]))
  <2> DEFINE v == job[p].runbook
  <2>1. job'[p].decisions = plans[k].decisions /\ job'[p].runbook = v
    BY <1>0, <1>2 DEF ResumeRunbook, LocalTypeOK, Job
  <2>2. PlanBook(k).steps = Book[v].steps /\ Steps(PlanBook(k)) = Steps(Book[v])
    BY <1>2, JobFacts, DigestFacts DEF ResumeRunbook, PlanMatches, PlanBook
  <2>3. Closed(plans[k].decisions, PlanBook(k), Steps(PlanBook(k)))
    BY DEF Closing, PlansAreClosed, Closed, Decided
  <2> HIDE DEF v
  <2> QED
    BY <2>1, <2>2, <2>3 DEF Closed
<1>3. CASE Working(p) /\ SameInvocation(p)
  BY <1>3 DEF LoopStands, SameInvocation
<1> QED
  BY <1>1, <1>2, <1>3, Works

(* A success about to be recorded is as the files are. *)
LEMMA FinishStep ==
    ASSUME OneProcess, TypeOK, Bounded, CommandsAreAwaited, [Next]_vars,
           \A q, content : ~Edit(q, content), NEW p \in Proc, LoopStands(p),
           pc'[p] \in {"finish", "record_finished"}, job'[p].result.status = "SUCCEEDED"
    PROVE  /\ job'[p].contract.input_fingerprints = PrintsIn(files', Current(job'[p]).inputs)
           /\ AllExist(PrintsIn(files', Current(job'[p]).outputs))
<1>0. job[p] \in Job /\ LocalTypeOK
  BY JobFacts DEF TypeOK
<1>1. ASSUME Current(job'[p]) = Current(job[p]), job'[p].result = job[p].result,
             job'[p].contract = job[p].contract, pc[p] \in {"finish", "record_finished"}
      PROVE  /\ job'[p].contract.input_fingerprints =
                   PrintsIn(files', Current(job'[p]).inputs)
             /\ AllExist(PrintsIn(files', Current(job'[p]).outputs))
  <2>1. files' = files
    BY <1>1, FilesAlone
  <2> QED
    BY <1>1, <2>1 DEF LoopStands
<1>2. CASE Stays(p)
  BY <1>1, <1>2 DEF Stays
<1>3. CASE SelectFinished(p)
  <2>1. /\ job'[p].position = job[p].position /\ job'[p].runbook = job[p].runbook
        /\ job'[p].result = job[p].result /\ job'[p].contract = job[p].contract
        /\ pc[p] = "finish"
    BY <1>0, <1>3 DEF SelectFinished, SeeRow, LocalTypeOK, Job
  <2>2. Current(job'[p]) = Current(job[p])
    BY <2>1 DEF Current, Definition, CurrentStep, Order
  <2> QED
    BY <1>1, <2>1, <2>2
<1>4. CASE ObserveAfter(p)
  <2> DEFINE def == Current(job[p])
             contract == MakeContract(def)
  <2>1. /\ job'[p].position = job[p].position /\ job'[p].runbook = job[p].runbook
        /\ job'[p].contract = contract /\ job'[p].result = CheckOutputs(job[p].result, contract)
        /\ files' = files
    BY <1>0, <1>4 DEF ObserveAfter, LocalTypeOK, Job, workspace
  <2>2. Current(job'[p]) = def
    BY <2>1 DEF Current, Definition, CurrentStep, Order
  <2>3. /\ contract.input_fingerprints = PrintsIn(files, def.inputs)
        /\ contract.output_fingerprints = PrintsIn(files, def.outputs)
    BY FingerprintIs DEF MakeContract
  <2>4. Result("OUTPUT_VIOLATION").status # "SUCCEEDED"
    BY AbsenceAssumption DEF Result, FailureKind
  <2> HIDE DEF def, contract
  <2>5. AllExist(contract.output_fingerprints)
    BY <2>1, <2>4 DEF CheckOutputs
  <2> QED
    BY <2>1, <2>2, <2>3, <2>5
<1>5. ~(Answered(p) \/ Spawn(p) \/ SpawnError(p))
  BY <1>0 DEF Answered, Spawn, SpawnError, Goto, LocalTypeOK
<1> QED
  BY <1>2, <1>3, <1>4, <1>5, Awaits

(* Plans and successes before an attempt are of the past. *)
LEMMA MovedOnStep ==
    ASSUME OneProcess, TypeOK, Course, Dated, Bounded, [Next]_vars, NEW p \in Proc,
           LoopStands(p), Recorded(p)'
    PROVE  /\ \A k \in DOMAIN plans' :
                 plans'[k].run_id = job'[p].run_id =>
                    history'.surveys[k].mark # MarkIn(transitions', job'[p].run_id)
           /\ [run_id |-> job'[p].run_id, mark |-> MarkIn(transitions', job'[p].run_id)]
                 \notin history'.settled
<1>0. job[p] \in Job /\ LocalTypeOK /\ \A q \in Proc : q = p
  BY JobFacts DEF TypeOK, OneProcess
<1> DEFINE r == job[p].run_id
           m == Mark(r)
           n == MarkIn(transitions', r)
<1>1. /\ job'[p].run_id = r
      /\ RecordStarted(p) \/ Recorded(p)
      /\ pc'[p] # "idle" /\ pc'[p] # "loop"
  BY Continues DEF Recorded, Executing, SameAttempt, SameInvocation
<1>2. ~SavePlan(p) /\ ~LoopEnd(p) /\ ~RecordFinished(p) /\ ~RecordBlocked(p)
      /\ ~ExecuteRunbook(p)
  BY <1>0, <1>1 DEF SavePlan, LoopEnd, RecordFinished, RecordBlocked, ExecuteRunbook, Exit,
     Advance, Goto, LocalTypeOK
<1>3. /\ plans' = plans /\ history'.surveys = history.surveys
      /\ history'.settled = history.settled
  BY <1>0, <1>2, HistoryStep, SettledStep
<1>4. m \in Nat /\ MarkIn(transitions, r) = m
  BY MarksGrow
<1>5. CASE RecordStarted(p)
  <2>1. n = m + 1
    BY <1>5, MarksGrow
  <2>2. ASSUME NEW k \in DOMAIN plans, plans[k].run_id = r
        PROVE  history.surveys[k].mark # n
    <3>1. history.surveys[k].mark <= m /\ history.surveys[k].mark \in Nat
      <4>1. history.surveys[k] \in Survey
        BY DEF TypeOK, StoreTypeOK, WorldTypeOK, History
      <4>2. PlanIsDated(runs, steps, transitions, plans[k], history.surveys[k])
        BY DEF Dated
      <4> QED
        BY <1>4, <2>2, <4>1, <4>2 DEF PlanIsDated, UpToDate, Survey
    <3> QED
      BY <1>4, <2>1, <3>1
  <2>3. [run_id |-> r, mark |-> n] \notin history.settled
    <3> SUFFICES ASSUME [run_id |-> r, mark |-> n] \in history.settled PROVE FALSE
      OBVIOUS
    <3>1. n <= m
      BY DEF Bounded
    <3> QED
      BY <1>4, <2>1, <3>1
  <2> QED
    BY <1>1, <1>3, <2>2, <2>3
<1>6. CASE Recorded(p) /\ ~RecordStarted(p)
  <2>1. UNCHANGED <<runs, steps, transitions>>
    BY <1>2, <1>6, RecordsAlone DEF Records
  <2>2. n = m
    BY <1>4, <2>1
  <2>3. HasMovedOn(r)
    BY <1>6 DEF LoopStands
  <2> HIDE DEF m, n, r
  <2> QED
    BY <1>1, <1>3, <2>2, <2>3 DEF HasMovedOn, IsSettled, m, n, r
<1> QED
  BY <1>1, <1>5, <1>6

(* All a loop goes by stays, while a process is alone and all is calm. *)
LEMMA LoopStandsStep ==
    ASSUME OneProcess, SourcesAreDependencies, TypeOK, Course, Grounding, Currency, Closing,
           Bounded, CommandsAreAwaited, \A k \in DOMAIN plans : PlanStands(k), [Next]_vars,
           \A q, content : ~Edit(q, content), NEW p \in Proc, LoopStands(p)
    PROVE  LoopStands(p)'
<1>0. job[p] \in Job /\ LocalTypeOK
  BY JobFacts DEF TypeOK
<1>1. ASSUME Working(p)', job'[p].fresh
      PROVE  AllFit(files', steps'[job'[p].run_id], Book[job'[p].runbook], Relied(job'[p]))
  <2>1. CASE ExecuteRunbook(p)
    <3>1. /\ job'[p].position = 1 /\ job'[p].command = "run"
          /\ job'[p].runbook = job[p].runbook
      BY <1>0, <2>1 DEF ExecuteRunbook, LocalTypeOK, Job, Grounding
    <3>2. Order(job'[p]) \in Seq(StepId)
      BY <3>1, JobFacts DEF Order
    <3>3. Evaluated(job'[p]) = {}
      BY <3>1, <3>2 DEF Evaluated
    <3>4. Relied(job'[p]) = {}
      BY <3>1, <3>3 DEF Relied
    <3> QED
      BY <3>4 DEF AllFit
  <2>2. CASE Working(p) /\ SameInvocation(p)
    BY <1>1, <2>2, ReliedStep DEF Currency
  <2> QED
    BY <1>1, <2>1, <2>2, Works, ReliedStart DEF Currency
<1>2. /\ Current(job[p])' = Current(job'[p]) /\ Relied(job[p])' = Relied(job'[p])
      /\ \A r : Mark(r)' = MarkIn(transitions', r)
  BY DEF Current, Definition, CurrentStep, Order, Relied, Evaluated, Ahead, Reused, Mark,
     MarkIn
<1>3. Recorded(p)' => HasMovedOn(job[p].run_id)'
  BY MovedOnStep DEF HasMovedOn, IsSettled, Mark, MarkIn, Currency
<1> QED
  BY <1>1, <1>2, <1>3, ResumeClosedStep, FinishStep DEF LoopStands

-----------------------------------------------------------------------------
(* What a repair goes by *)

(* A repair that is alone sees nothing change. *)
LEMMA RepairAlone ==
    ASSUME OneProcess, TypeOK, Bounded, CommandsAreAwaited, [Next]_vars,
           \A q, content : ~Edit(q, content), NEW p \in Proc,
           pc[p] \in {"dispatch", "survey", "evaluate"}, ~ExecuteRunbook(p)
    PROVE  /\ UNCHANGED <<files, runs, steps, transitions>>
           /\ history'.settled = history.settled
<1>0. \A q \in Proc : q = p
  BY DEF OneProcess
<1>1. ~LoopEnd(p) /\ ~RecordFinished(p) /\ ~RecordStarted(p) /\ ~RecordBlocked(p)
  BY DEF LoopEnd, RecordFinished, RecordStarted, RecordBlocked
<1>2. UNCHANGED <<runs, steps, transitions>>
  BY <1>1, RecordsAlone DEF Records
<1>3. history'.settled = history.settled
  BY <1>0, <1>1, SettledStep
<1>4. files' = files
  BY FilesAlone
<1> QED
  BY <1>2, <1>3, <1>4

(* What it has compared stays as it is. *)
LEMMA ContextStays ==
    ASSUME files' = files, runs' = runs, NEW p, NEW s, NEW j,
           job'[p].runbook = j.runbook, job'[p].run_id = j.run_id,
           job'[p].records = j.records
    PROVE  Context(job[p], s)' = Context(j, s)
<1>1. \A ps : Fingerprint(ps)' = Fingerprint(ps)
  BY DEF Fingerprint
<1>2. Definition(job[p], s)' = Definition(j, s)
  BY DEF Definition
<1> QED
  BY <1>1, <1>2 DEF Context, SameInputs, Fingerprint, Definition

(* What is compared, one by one. *)
LEMMA ContextIs ==
    ASSUME NEW j, NEW s, j.records[s].contract # Null
    PROVE  LET def == Definition(j, s)
               contract == j.records[s].contract
               context == Context(j, s)
           IN  /\ runs[j.run_id].runbook_digest = RunbookDigest(j.runbook) =>
                     context.runbook_digest_matches
               /\ contract.command_digest = CommandDigest(def) =>
                     context.command_digest_matches
               /\ contract.policy_digest = PolicyDigest(def) => context.policy_digest_matches
               /\ SameInputs(contract, def) => context.inputs_match
               /\ AllExist(Fingerprint(def.outputs)) => context.outputs_valid
<1> DEFINE def == Definition(j, s)
           contract == j.records[s].contract
           context == Context(j, s)
<1>1. runs[j.run_id].runbook_digest = RunbookDigest(j.runbook) => context.runbook_digest_matches
  BY Zenon DEF Context
<1>2. contract.command_digest = CommandDigest(def) => context.command_digest_matches
  BY Zenon DEF Context
<1>3. contract.policy_digest = PolicyDigest(def) => context.policy_digest_matches
  BY Zenon DEF Context
<1>4. SameInputs(contract, def) => context.inputs_match
  BY Zenon DEF Context
<1>5. AllExist(Fingerprint(def.outputs)) => context.outputs_valid
  BY Zenon DEF Context
<1> QED
  BY <1>1, <1>2, <1>3, <1>4, <1>5

(* A step that it reuses has a success that fits, *)
LEMMA ReusedFits ==
    ASSUME NEW j, NEW s, NEW decided,
           EvaluateStep(Definition(j, s), j.records[s], Context(j, s), decided).decision = "REUSE"
    PROVE  Fits(files, j.records[s], Definition(j, s))
<1> DEFINE def == Definition(j, s)
           context == Context(j, s)
<1>1. j.records[s].status = "SUCCEEDED" /\ context.inputs_match /\ context.outputs_valid
  <2> HIDE DEF def, context
  <2> QED
    BY EvaluateStepSound DEF def, context
<1>2. j.records[s].contract.input_fingerprints = Fingerprint(def.inputs)
  BY <1>1 DEF Context, SameInputs
<1>3. AllExist(Fingerprint(def.outputs))
  BY <1>1 DEF Context
<1> QED
  BY <1>1, <1>2, <1>3, FingerprintIs DEF Fits

(* and after a success that is all of them. *)
LEMMA SettledReuse ==
    ASSUME TypeOK, Course, Ownership, Grounding, Dated, NEW p \in Proc, pc[p] = "evaluate",
           RepairStands(p), \A e \in history.settled : SuccessStands(e),
           job[p].position \in DOMAIN Order(job[p]),
           IsSettled(job[p].run_id, job[p].mark), MadeFrom(job[p].run_id, job[p].runbook)
    PROVE  LET j == job[p]
               s == CurrentStep(j)
           IN  EvaluateStep(Current(j), j.records[s], j.contexts[s], j.decisions).decision
                  = "REUSE"
<1> DEFINE j == job[p]
           s == CurrentStep(j)
           r == j.run_id
           v == j.runbook
           def == Current(j)
           row == j.records[s]
           context == j.contexts[s]
           e == [run_id |-> r, mark |-> j.mark]
<1>1. /\ s \in StepId /\ s \in Steps(Book[v]) /\ def = Book[v].steps[s]
      /\ v \in Version
  BY AtAStep, JobFacts DEF Current, Definition
<1>2. \A ds : DependencyDecided(def, j.decisions, ds) => "REUSE" \in ds
  <2>1. def.depends_on \subseteq Evaluated(j)
    BY OrderIsValid
  <2>2. \A d \in Evaluated(j) : j.decisions[d].decision = "REUSE"
    BY DEF RepairStands, Reused
  <2> QED
    BY <2>1, <2>2 DEF DependencyDecided
<1>3. j.records = steps[r] /\ j.mark = Mark(r)
  BY DEF Dated, RepairIsDated, UpToDate, RepairStands, Mark, MarkIn
<1>4. runs[r].runbook_digest = RunbookDigest(v) /\ r \in DOMAIN runs
  BY DEF MadeFrom
<1>5. Fits(files, row, def)
  <2>1. SuccessStands(e)
    BY DEF IsSettled
  <2>2. AllFit(files, steps[r], BookOf(r), Steps(BookOf(r)))
    BY <1>3, <2>1 DEF SuccessStands
  <2>3. BookOf(r).steps = Book[v].steps /\ Steps(BookOf(r)) = Steps(Book[v])
    BY <1>1, <1>4, DigestFacts DEF BookOf
  <2> QED
    BY <1>1, <1>3, <2>2, <2>3 DEF AllFit
<1>6. /\ row.contract # Null
      /\ row.contract.command_digest = CommandDigest(def)
      /\ row.contract.policy_digest = PolicyDigest(def)
  <2>1. row # Null /\ row.status = "SUCCEEDED"
    BY <1>1, <1>5 DEF Fits, Grounding, RepairIsSound, Compared
  <2>2. PICK a \in DOMAIN attempts : MadeBy(a, r, s, row)
    BY <1>1, <2>1 DEF Grounding, RepairIsSound, Backed
  <2>3. attempts[a] \in AttemptRow
    BY DEF TypeOK, StoreTypeOK
  <2>4. row.contract \in StepContract
    BY <2>2, <2>3 DEF MadeBy, AttemptRow
  <2>5. Book[runs[attempts[a].run_id].runbook_digest].steps[attempts[a].step_id] = def
    BY <1>1, <1>4, <2>2, DigestFacts DEF MadeBy
  <2> QED
    BY <2>2, <2>4, <2>5, AbsenceAssumption DEF MadeBy, Ownership, ContractsOfRun
<1>7. ContractReason(context) = "SUCCESS_CONTRACT_MATCH"
  <2>1. context = Context(j, s) /\ def = Definition(j, s)
    BY <1>1 DEF RepairStands, Current
  <2>2. /\ RunbookDigest(v) = runs[r].runbook_digest
        /\ row.contract.command_digest = CommandDigest(def)
        /\ row.contract.policy_digest = PolicyDigest(def)
    BY <1>4, <1>6
  <2>3. SameInputs(row.contract, def) /\ AllExist(Fingerprint(def.outputs))
    BY <1>5, FingerprintIs DEF Fits, SameInputs
  <2>4. Definition(j, s) = def
    BY DEF Current
  <2>5. /\ Context(j, s).runbook_digest_matches /\ Context(j, s).command_digest_matches
        /\ Context(j, s).policy_digest_matches /\ Context(j, s).inputs_match
        /\ Context(j, s).outputs_valid
    <3> HIDE DEF def
    <3> QED
      BY <1>6, <2>2, <2>3, <2>4, ContextIs
  <2> HIDE DEF context
  <2> QED
    BY <2>1, <2>5 DEF ContractReason
<1>8. row.status = "SUCCEEDED"
  BY <1>5 DEF Fits
<1> HIDE DEF j, s, r, v, def, row, context
<1>9. EvaluateStep(def, row, context, j.decisions) = EvaluateSuccess(def, context)
  BY <1>2, <1>8 DEF EvaluateStep, HasSucceeded
<1>10. EvaluateStep(def, row, context, j.decisions).decision = "REUSE"
  BY <1>7, <1>9 DEF EvaluateSuccess, Decide
<1> QED
  BY <1>10 DEF j, s, def, row, context

(* What a repair compares is as the files are, *)
LEMMA SurveyStandsStep ==
    ASSUME OneProcess, TypeOK, Course, Grounding, Bounded, CommandsAreAwaited, [Next]_vars,
           \A q, content : ~Edit(q, content), NEW p \in Proc, RepairStands(p),
           pc'[p] = "survey"
    PROVE  /\ job'[p].mark = MarkIn(transitions', job'[p].run_id)
           /\ \A s \in SurveyedSteps(job'[p]) : job'[p].contexts[s] = Context(job[p], s)'
<1>0. job[p] \in Job /\ LocalTypeOK /\ (\A r : MarkIn(transitions, r) = Mark(r))
  BY JobFacts DEF TypeOK, MarkIn, Mark
<1>1. pc[p] \in {"dispatch", "survey"} /\ ~ExecuteRunbook(p)
  BY <1>0, Surveys DEF Stays, SurveyStep, Surveying, RepairLoad, ExecuteRunbook, Goto,
     LocalTypeOK
<1>2. UNCHANGED <<files, runs, steps, transitions>>
  BY <1>1, RepairAlone
<1> DEFINE j == job[p]
<1>3. CASE Stays(p)
  <2>1. /\ job'[p] = j /\ pc[p] = "survey" /\ \A s : Context(job[p], s)' = Context(j, s)
    BY <1>2, <1>3, ContextStays DEF Stays
  <2> QED
    BY <1>0, <1>2, <2>1 DEF RepairStands
<1>4. ASSUME NEW r \in DOMAIN runs, RepairLoad(p, r)
      PROVE  /\ job'[p].mark = MarkIn(transitions', job'[p].run_id)
             /\ \A s \in SurveyedSteps(job'[p]) : job'[p].contexts[s] = Context(job[p], s)'
  <2>1. /\ job'[p].run_id = r /\ job'[p].mark = Mark(r)
        /\ job'[p].position = 1 /\ job'[p].runbook = j.runbook
    BY <1>0, <1>4 DEF RepairLoad, LocalTypeOK, Job, Grounding
  <2>2. Declared(job'[p]) \in Seq(StepId)
    BY <2>1, JobFacts, BookFacts DEF Declared
  <2>3. SurveyedSteps(job'[p]) = {}
    BY <2>1, <2>2 DEF SurveyedSteps
  <2> QED
    BY <1>0, <1>2, <2>1, <2>3
<1>5. CASE SurveyStep(p)
  <2> DEFINE s == Surveyed(j)
             context == Context(j, s)
  <2>1. /\ job'[p].records = j.records /\ job'[p].position = j.position + 1
        /\ job'[p].runbook = j.runbook /\ job'[p].run_id = j.run_id
        /\ job'[p].contexts = [j.contexts EXCEPT ![s] = context] /\ job'[p].mark = j.mark
        /\ pc[p] = "survey" /\ j.position <= Len(Declared(j))
    BY <1>0, <1>5 DEF SurveyStep, Surveying, LocalTypeOK, Job
  <2>2. /\ Declared(j) \in Seq(StepId) /\ Declared(job'[p]) = Declared(j)
        /\ j.position \in Nat /\ j.position >= 1
    BY <2>1, JobFacts DEF Declared, Course, OnCourse
  <2>3. s \in StepId /\ SurveyedSteps(j) \subseteq StepId
    BY <2>1, <2>2 DEF Surveyed, SurveyedSteps
  <2>4. SurveyedSteps(job'[p]) \subseteq SurveyedSteps(j) \cup {s}
    BY <2>1, <2>2 DEF SurveyedSteps, Surveyed
  <2>5. j.contexts \in [StepId -> RecoveryContext \cup {Null}]
    BY <1>0 DEF Job, Contexts
  <2>6. /\ \A t \in SurveyedSteps(j) : j.contexts[t] = Context(j, t)
        /\ j.mark = Mark(j.run_id)
    BY <2>1 DEF RepairStands
  <2>7. \A t : Context(job[p], t)' = Context(j, t)
    BY <1>2, <2>1, ContextStays
  <2>8. ASSUME NEW t \in SurveyedSteps(job'[p]) PROVE job'[p].contexts[t] = Context(j, t)
    <3> HIDE DEF context, j
    <3>1. CASE t = s
      BY <2>1, <2>3, <2>5, <3>1 DEF context
    <3>2. CASE t # s
      <4> HIDE DEF s
      <4> QED
        BY <2>1, <2>3, <2>4, <2>5, <2>6, <3>2
    <3> QED
      BY <3>1, <3>2
  <2> QED
    BY <1>0, <1>2, <2>1, <2>6, <2>7, <2>8
<1> QED
  BY <1>3, <1>4, <1>5, Surveys

(* and so is what it decides. *)
LEMMA EvaluateStandsStep ==
    ASSUME OneProcess, TypeOK, Course, Ownership, Grounding, Dated, Bounded,
           CommandsAreAwaited, \A e \in history.settled : SuccessStands(e), [Next]_vars,
           \A q, content : ~Edit(q, content), NEW p \in Proc, RepairStands(p),
           pc'[p] = "evaluate"
    PROVE  LET k == job'[p]
               book == Book[k.runbook]
           IN  /\ k.mark = MarkIn(transitions', k.run_id)
               /\ \A s \in Steps(book) : k.contexts[s] = Context(job[p], s)'
               /\ AllFit(files', k.records, book, Reused(k.decisions, Evaluated(k)))
               /\ /\ [run_id |-> k.run_id, mark |-> k.mark] \in history'.settled
                  /\ k.run_id \in DOMAIN runs'
                  /\ runs'[k.run_id].runbook_digest = RunbookDigest(k.runbook)
                  => Evaluated(k) = Reused(k.decisions, Evaluated(k))
<1>0. job[p] \in Job /\ LocalTypeOK /\ (\A r : MarkIn(transitions, r) = Mark(r))
  BY JobFacts DEF TypeOK, MarkIn, Mark
<1>1. pc[p] \in {"survey", "evaluate"} /\ ~ExecuteRunbook(p)
  BY <1>0, Evaluates DEF Stays, SurveyDone, EvaluateNext, ExecuteRunbook, LocalTypeOK
<1>2. /\ UNCHANGED <<files, runs, steps, transitions>>
      /\ history'.settled = history.settled
  BY <1>1, RepairAlone
<1> DEFINE j == job[p]
           k == job'[p]
           book == Book[j.runbook]
           SameRepair == /\ k.records = j.records /\ k.run_id = j.run_id
                         /\ k.runbook = j.runbook /\ k.contexts = j.contexts
                         /\ k.mark = j.mark
<1>3. ASSUME SameRepair
      PROVE  /\ k.mark = MarkIn(transitions', k.run_id)
             /\ \A s : Context(job[p], s)' = Context(j, s)
  BY <1>0, <1>1, <1>2, <1>3, ContextStays DEF RepairStands
<1>4. CASE Stays(p)
  <2>1. k = j /\ pc[p] = "evaluate"
    BY <1>4 DEF Stays
  <2> QED
    BY <1>2, <1>3, <2>1 DEF RepairStands, IsSettled, MadeFrom
<1>5. CASE SurveyDone(p)
  <2>1. SameRepair /\ k.position = 1 /\ pc[p] = "survey"
    BY <1>0, <1>5 DEF SurveyDone, LocalTypeOK, Job
  <2>2. \A s \in Steps(book) : k.contexts[s] = Context(j, s)
    BY <1>5, <2>1, SurveyedAll DEF RepairStands
  <2>3. Order(k) \in Seq(StepId)
    BY <2>1, JobFacts DEF Order
  <2>4. Evaluated(k) = {}
    BY <2>1, <2>3 DEF Evaluated
  <2> QED
    BY <1>3, <2>1, <2>2, <2>4 DEF AllFit, Reused
<1>6. CASE EvaluateNext(p)
  <2> DEFINE s == CurrentStep(j)
             d == EvaluateStep(Current(j), j.records[s], j.contexts[s], j.decisions)
  <2>1. j.position \in DOMAIN Order(j)
    BY <1>6, JobFacts DEF EvaluateNext, Course, OnCourse
  <2>2. /\ k.position = j.position + 1 /\ k.decisions = [j.decisions EXCEPT ![s] = d]
        /\ SameRepair /\ pc[p] = "evaluate"
    BY <1>0, <1>6 DEF EvaluateNext, LocalTypeOK, Job
  <2>3. Order(k) = Order(j) /\ Order(j) \in Seq(StepId)
    BY <2>2, JobFacts DEF Order
  <2>4. Evaluated(k) \subseteq Evaluated(j) \cup {s} /\ Evaluated(j) \subseteq StepId
    BY <2>1, <2>2, <2>3, JobFacts DEF Evaluated, CurrentStep
  <2>5. s \in StepId /\ s \in Steps(book)
    BY <2>1, AtAStep
  <2>6. j.decisions \in [StepId -> RepairDecision \cup {Null}]
    BY <1>0 DEF Job, Decisions
  <2>7. \A t \in StepId : k.decisions[t] = IF t = s THEN d ELSE j.decisions[t]
    <3> HIDE DEF s, d, j, k
    <3> QED
      BY <2>2, <2>5, <2>6
  <2>8. \A t \in Steps(book) : k.contexts[t] = Context(j, t)
    BY <2>2 DEF RepairStands
  <2>9. d.decision = "REUSE" => Fits(files, j.records[s], book.steps[s])
    <3>1. Current(j) = Definition(j, s) /\ Definition(j, s) = book.steps[s]
      BY DEF Current, Definition
    <3>2. j.contexts[s] = Context(j, s)
      BY <2>2, <2>5, <2>8
    <3> HIDE DEF s, j, book
    <3> QED
      BY <3>1, <3>2, ReusedFits
  <2>10. AllFit(files, j.records, book, Reused(j.decisions, Evaluated(j)))
    BY <2>2 DEF RepairStands
  <2>11. IsSettled(j.run_id, j.mark) /\ MadeFrom(j.run_id, j.runbook) =>
            d.decision = "REUSE" /\ Evaluated(j) = Reused(j.decisions, Evaluated(j))
    BY <2>1, <2>2, SettledReuse DEF RepairStands
  <2>12. AllFit(files, j.records, book, Reused(k.decisions, Evaluated(k)))
    <3> HIDE DEF s, d, j, k, book
    <3>1. \A t \in Reused(k.decisions, Evaluated(k)) :
             \/ t \in Reused(j.decisions, Evaluated(j))
             \/ t = s /\ d.decision = "REUSE"
      <4> SUFFICES ASSUME NEW t \in Reused(k.decisions, Evaluated(k))
                   PROVE  \/ t \in Reused(j.decisions, Evaluated(j))
                          \/ t = s /\ d.decision = "REUSE"
        OBVIOUS
      <4>1. t \in Evaluated(k) /\ k.decisions[t].decision = "REUSE"
        BY DEF Reused
      <4>2. t = s => k.decisions[t] = d
        BY <2>5, <2>7
      <4>3. t # s => t \in Evaluated(j) /\ k.decisions[t] = j.decisions[t]
        BY <2>4, <2>7, <4>1
      <4> QED
        BY <4>1, <4>2, <4>3 DEF Reused
    <3> QED
      BY <2>9, <2>10, <3>1 DEF AllFit
  <2>13. IsSettled(j.run_id, j.mark) /\ MadeFrom(j.run_id, j.runbook) =>
            Evaluated(k) = Reused(k.decisions, Evaluated(k))
    <3> SUFFICES ASSUME d.decision = "REUSE",
                        Evaluated(j) = Reused(j.decisions, Evaluated(j))
                 PROVE  Evaluated(k) = Reused(k.decisions, Evaluated(k))
      BY <2>11
    <3> HIDE DEF s, d, j, k, book
    <3>1. \A t \in Evaluated(k) : k.decisions[t].decision = "REUSE"
      BY <2>4, <2>5, <2>7 DEF Reused
    <3> QED
      BY <3>1 DEF Reused
  <2> QED
    BY <1>2, <1>3, <2>2, <2>8, <2>12, <2>13 DEF IsSettled, MadeFrom
<1> QED
  BY <1>4, <1>5, <1>6, Evaluates

(* So what a repair goes by stays.                                         *)
LEMMA RepairStandsStep ==
    ASSUME OneProcess, TypeOK, Course, Ownership, Grounding, Dated, Bounded,
           CommandsAreAwaited, \A e \in history.settled : SuccessStands(e), [Next]_vars,
           \A q, content : ~Edit(q, content), NEW p \in Proc, RepairStands(p)
    PROVE  RepairStands(p)'
<1>1. /\ SurveyedSteps(job[p])' = SurveyedSteps(job'[p])
      /\ Evaluated(job[p])' = Evaluated(job'[p])
      /\ Reused(job[p].decisions, Evaluated(job[p]))'
            = Reused(job'[p].decisions, Evaluated(job'[p]))
      /\ \A r : Mark(r)' = MarkIn(transitions', r)
  BY DEF SurveyedSteps, Evaluated, Order, Declared, Reused, Mark, MarkIn
<1>2. pc'[p] = "survey" =>
         /\ job'[p].mark = Mark(job[p].run_id)'
         /\ \A s \in SurveyedSteps(job[p])' : job'[p].contexts[s] = Context(job[p], s)'
  BY <1>1, SurveyStandsStep DEF Mark, MarkIn
<1>3. pc'[p] = "evaluate" =>
         LET book == Book[job'[p].runbook]
         IN  /\ job'[p].mark = Mark(job[p].run_id)'
             /\ \A s \in Steps(book) : job'[p].contexts[s] = Context(job[p], s)'
             /\ AllFit(files', job'[p].records, book,
                       Reused(job[p].decisions, Evaluated(job[p]))')
             /\ IsSettled(job[p].run_id, job[p].mark)' /\ MadeFrom(job[p].run_id, job[p].runbook)'
                => Evaluated(job[p])' = Reused(job[p].decisions, Evaluated(job[p]))'
  BY <1>1, EvaluateStandsStep DEF Mark, MarkIn, IsSettled, MadeFrom
<1> QED
  BY <1>1, <1>2, <1>3 DEF RepairStands

-----------------------------------------------------------------------------
(* Plans and successes *)

(* What is current after a step was current before it, in the same files.  *)
LEMMA CurrentStays ==
    ASSUME OneProcess, TypeOK, Course, Dated, Bounded, CommandsAreAwaited,
           \A p \in Proc : LoopStands(p), [Next]_vars, \A q, content : ~Edit(q, content),
           \A r, x \in DOMAIN runs' : r = x
    PROVE  /\ \A k \in DOMAIN plans :
                 history.surveys[k].mark = MarkIn(transitions', plans[k].run_id) =>
                    /\ files' = files
                    /\ history.surveys[k].mark = Mark(plans[k].run_id)
           /\ \A e \in history.settled :
                 e.mark = MarkIn(transitions', e.run_id) =>
                    /\ files' = files
                    /\ e.mark = Mark(e.run_id) /\ steps'[e.run_id] = steps[e.run_id]
<1>1. \/ files' = files
      \/ \E p \in Proc :
            /\ Recorded(p) /\ HasMovedOn(job[p].run_id)
            /\ UNCHANGED <<runs, transitions>>
            /\ \A r \in DOMAIN runs : r = job[p].run_id
  <2>1. CASE Proc = {}
    <3>1. ~CommandEnds
      BY <2>1 DEF CommandEnds, CommandsAreAwaited
    <3> QED
      BY <3>1, FilesStep
  <2>2. ASSUME NEW p \in Proc, files' # files
        PROVE  /\ Recorded(p) /\ HasMovedOn(job[p].run_id)
               /\ UNCHANGED <<runs, transitions>>
               /\ \A r \in DOMAIN runs : r = job[p].run_id
    <3>1. pc[p] = "wait" /\ UNCHANGED <<runs, transitions>>
      BY <2>2, FilesAlone
    <3>2. Recorded(p) /\ Working(p)
      BY <3>1 DEF Recorded, Working, Executing
    <3>3. job[p].run_id \in DOMAIN runs
      BY <3>2 DEF Course, OnCourse, MadeFrom
    <3> QED
      BY <3>1, <3>2, <3>3 DEF LoopStands
  <2> QED
    BY <2>1, <2>2
<1>2. ASSUME NEW k \in DOMAIN plans,
             history.surveys[k].mark = MarkIn(transitions', plans[k].run_id)
      PROVE  files' = files /\ history.surveys[k].mark = Mark(plans[k].run_id)
  <2> DEFINE r == plans[k].run_id
             m == history.surveys[k].mark
  <2>1. m \in Nat
    <3>1. history.surveys[k] \in Survey
      BY DEF TypeOK, StoreTypeOK, WorldTypeOK, History
    <3> QED
      BY <3>1 DEF Survey
  <2>2. r \in DOMAIN runs /\ m <= MarkIn(transitions, r)
    BY DEF Dated, PlanIsDated, UpToDate
  <2>3. /\ MarkIn(transitions, r) = Mark(r) /\ Mark(r) \in Nat
        /\ MarkIn(transitions', r) \in Nat /\ MarkIn(transitions', r) >= Mark(r)
    BY MarksGrow
  <2>4. m = Mark(r)
    BY <1>2, <2>1, <2>2, <2>3
  <2> QED
    BY <1>1, <2>2, <2>4 DEF HasMovedOn
<1>3. ASSUME NEW e \in history.settled, e.mark = MarkIn(transitions', e.run_id)
      PROVE  /\ files' = files
             /\ e.mark = Mark(e.run_id) /\ steps'[e.run_id] = steps[e.run_id]
  <2> DEFINE r == e.run_id
             m == e.mark
  <2>1. m \in Nat /\ r \in Nat /\ e = [run_id |-> r, mark |-> m]
    <3>1. e \in [run_id : Nat, mark : Nat]
      BY DEF TypeOK, WorldTypeOK, History
    <3> QED
      BY <3>1
  <2>2. r \in DOMAIN runs /\ m <= Mark(r)
    BY DEF Bounded
  <2>3. /\ Mark(r) \in Nat
        /\ MarkIn(transitions', r) \in Nat /\ MarkIn(transitions', r) >= Mark(r)
        /\ r \in DOMAIN runs /\ MarkIn(transitions', r) = Mark(r) => steps'[r] = steps[r]
    BY MarksGrow
  <2>4. m = Mark(r) /\ steps'[r] = steps[r]
    BY <1>3, <2>1, <2>2, <2>3
  <2>5. IsSettled(r, Mark(r))
    BY <2>1, <2>4 DEF IsSettled
  <2> QED
    BY <1>1, <2>2, <2>4, <2>5 DEF HasMovedOn
<1> QED
  BY <1>2, <1>3

(* A plan that a repair saves is as its decisions are. *)
LEMMA SavedPlan ==
    ASSUME TypeOK, Grounding, NEW p \in Proc, RepairStands(p), SavePlan(p), NEW k \in DOMAIN plans',
           k \notin DOMAIN plans
    PROVE  LET book == Book[plans'[k].source_runbook_digest]
               survey == history'.surveys[k]
           IN  /\ survey.mark = job[p].mark /\ plans'[k].run_id = job[p].run_id
               /\ AllFit(files, survey.records, book,
                         Reused(plans'[k].decisions, Steps(book)))
               /\ /\ IsSettled(job[p].run_id, job[p].mark)
                  /\ plans'[k].source_runbook_digest = runs[job[p].run_id].runbook_digest
                  => \A s \in Steps(book) : plans'[k].decisions[s].decision = "REUSE"
<1> DEFINE j == job[p]
           new == [run_id |-> j.run_id, source_runbook_digest |-> RunbookDigest(j.runbook),
                   decisions |-> j.decisions]
           seen == [inputs |-> j.inputs, records |-> j.records, mark |-> j.mark]
<1>0. /\ plans \in Seq(PlanRow) /\ history \in History
      /\ Len(history.surveys) = Len(plans) /\ history.surveys \in Seq(Survey)
  BY DEF TypeOK, StoreTypeOK, WorldTypeOK, History
<1>1. plans' = Append(plans, new) /\ history'.surveys = Append(history.surveys, seen)
  BY <1>0 DEF SavePlan, SaveRepairPlan, History
<1>2. plans'[k] = new /\ history'.surveys[k] = seen
  <2> HIDE DEF new, seen
  <2> QED
    BY <1>0, <1>1
<1>3. /\ Evaluated(j) = Steps(Book[j.runbook])
      /\ Book[RunbookDigest(j.runbook)].steps = Book[j.runbook].steps
      /\ Steps(Book[RunbookDigest(j.runbook)]) = Steps(Book[j.runbook])
  BY SavedOrder, JobFacts, DigestFacts
<1>4. /\ pc[p] = "evaluate" /\ j.run_id \in DOMAIN runs
      /\ AllFit(files, j.records, Book[j.runbook], Reused(j.decisions, Evaluated(j)))
      /\ IsSettled(j.run_id, j.mark) /\ MadeFrom(j.run_id, j.runbook) =>
            Evaluated(j) = Reused(j.decisions, Evaluated(j))
  BY DEF SavePlan, RepairStands, Grounding, RepairIsSound
<1> DEFINE D == Reused(j.decisions, Evaluated(j))
           digest == RunbookDigest(j.runbook)
<1>5. /\ plans'[k].decisions = j.decisions /\ plans'[k].source_runbook_digest = digest
      /\ plans'[k].run_id = j.run_id
      /\ history'.surveys[k].records = j.records /\ history'.surveys[k].mark = j.mark
  BY <1>2
<1> HIDE DEF j, new, seen, digest
<1>6. AllFit(files, j.records, Book[digest], Reused(j.decisions, Steps(Book[digest])))
  BY <1>3, <1>4 DEF AllFit, digest
<1>7. IsSettled(j.run_id, j.mark) /\ digest = runs[j.run_id].runbook_digest =>
         \A s \in Steps(Book[digest]) : j.decisions[s].decision = "REUSE"
  BY <1>3, <1>4 DEF MadeFrom, Reused, digest
<1> QED
  BY <1>5, <1>6, <1>7 DEF j

(* Plans and surveys of old stay what they were. *)
LEMMA OldPlan ==
    ASSUME TypeOK, [Next]_vars, NEW k \in DOMAIN plans
    PROVE  k \in DOMAIN plans' /\ plans'[k] = plans[k] /\ history'.surveys[k] = history.surveys[k]
<1>0. /\ plans \in Seq(PlanRow) /\ history \in History
      /\ Len(history.surveys) = Len(plans) /\ history.surveys \in Seq(Survey)
  BY DEF TypeOK, StoreTypeOK, WorldTypeOK, History
<1>1. ASSUME NEW p \in Proc, SavePlan(p)
      PROVE  /\ k \in DOMAIN plans' /\ plans'[k] = plans[k]
             /\ history'.surveys[k] = history.surveys[k]
  <2>1. PICK new, seen : plans' = Append(plans, new) /\ history'.surveys = Append(history.surveys, seen)
    BY <1>0, <1>1 DEF SavePlan, SaveRepairPlan, History
  <2> QED
    BY <1>0, <2>1
<1> QED
  BY <1>1, HistoryStep

(* What a current plan reuses fits, and goes on to.                        *)
LEMMA PlanStandsStep ==
    ASSUME OneProcess, TypeOK, Course, Grounding, Dated, Bounded, CommandsAreAwaited,
           \A p \in Proc : LoopStands(p) /\ RepairStands(p),
           \A k \in DOMAIN plans : PlanStands(k), [Next]_vars,
           \A q, content : ~Edit(q, content), \A r, x \in DOMAIN runs' : r = x,
           NEW k \in DOMAIN plans'
    PROVE  PlanStands(k)'
<1> SUFFICES ASSUME history'.surveys[k].mark = MarkIn(transitions', plans'[k].run_id)
             PROVE  LET book == Book[plans'[k].source_runbook_digest]
                    IN  AllFit(files', history'.surveys[k].records, book,
                               Reused(plans'[k].decisions, Steps(book)))
  BY DEF PlanStands, Mark, MarkIn, PlanBook, AllFit, Reused
<1>1. CASE k \in DOMAIN plans
  <2>1. plans'[k] = plans[k] /\ history'.surveys[k] = history.surveys[k]
    BY <1>1, OldPlan
  <2>2. files' = files /\ history.surveys[k].mark = Mark(plans[k].run_id)
    BY <1>1, <2>1, CurrentStays
  <2> QED
    BY <1>1, <2>1, <2>2 DEF PlanStands, PlanBook
<1>2. ASSUME NEW p \in Proc, SavePlan(p), k \notin DOMAIN plans
      PROVE  LET book == Book[plans'[k].source_runbook_digest]
             IN  AllFit(files', history'.surveys[k].records, book,
                        Reused(plans'[k].decisions, Steps(book)))
  <2>1. files' = files
    BY <1>2 DEF SavePlan, workspace
  <2> QED
    BY <1>2, <2>1, SavedPlan
<1> QED
  BY <1>1, <1>2, PlansStep

(* What has succeeded last fits, and goes on to.                           *)
LEMMA SuccessStandsStep ==
    ASSUME OneProcess, TypeOK, Course, Dated, Bounded, CommandsAreAwaited,
           \A p \in Proc : LoopStands(p), \A e \in history.settled : SuccessStands(e),
           [Next]_vars, \A q, content : ~Edit(q, content), \A r, x \in DOMAIN runs' : r = x,
           NEW e \in history'.settled
    PROVE  SuccessStands(e)'
<1> DEFINE r == e.run_id
<1> SUFFICES ASSUME e.mark = MarkIn(transitions', r)
             PROVE  LET book == Book[runs'[r].runbook_digest]
                    IN  AllFit(files', steps'[r], book, Steps(book))
  BY DEF SuccessStands, Mark, MarkIn, BookOf, AllFit
<1>1. CASE e \in history.settled
  <2>1. files' = files /\ e.mark = Mark(r) /\ steps'[r] = steps[r]
    BY <1>1, CurrentStays
  <2>2. runs'[r].runbook_digest = runs[r].runbook_digest
    BY <1>1, RunsKept DEF Bounded
  <2> QED
    BY <1>1, <2>1, <2>2 DEF SuccessStands, BookOf
<1>2. ASSUME NEW p \in Proc, LoopEnd(p), e \notin history.settled
      PROVE  LET book == Book[runs'[r].runbook_digest]
             IN  AllFit(files', steps'[r], book, Steps(book))
  <2> DEFINE j == job[p]
             v == j.runbook
  <2>1. r = j.run_id /\ j.fresh /\ AllSucceeded(j)
    BY <1>2, NotesItsSuccess
  <2>2. files' = files /\ steps' = steps /\ Working(p)
    BY <1>2 DEF LoopEnd, FinishRun, workspace, Working
  <2>3. Steps(Book[v]) \subseteq Relied(j)
    BY <1>2, <2>1, WholeOrder DEF LoopEnd, AllSucceeded, Relied
  <2>4. AllFit(files, steps[r], Book[v], Steps(Book[v]))
    <3>1. AllFit(files, steps[j.run_id], Book[v], Relied(j))
      BY <2>1, <2>2 DEF LoopStands
    <3> QED
      BY <2>1, <2>3, <3>1 DEF AllFit
  <2>5. runs'[r].runbook_digest = RunbookDigest(v)
    BY <2>1, <2>2, RunsKept DEF Course, OnCourse, MadeFrom
  <2>6. /\ Book[RunbookDigest(v)].steps = Book[v].steps
        /\ Steps(Book[RunbookDigest(v)]) = Steps(Book[v])
    BY JobFacts, DigestFacts
  <2> QED
    BY <2>2, <2>4, <2>5, <2>6 DEF AllFit
<1> QED
  BY <1>1, <1>2, SettledStep

(* A plan that is made after a success reuses all of it, and no success is *)
(* noted that an old plan comes after.                                     *)
LEMMA ReusesSettledStep ==
    ASSUME OneProcess, TypeOK, Course, Grounding, Dated, Bounded, CommandsAreAwaited,
           \A p \in Proc : RepairStands(p), SuccessIsReused, Calm, [Next]_vars,
           NEW k \in DOMAIN plans',
           [run_id |-> plans'[k].run_id, mark |-> history'.surveys[k].mark] \in history'.settled,
           plans'[k].source_runbook_digest = runs'[plans'[k].run_id].runbook_digest,
           NEW s \in Steps(Book[plans'[k].source_runbook_digest])
    PROVE  plans'[k].decisions[s].decision = "REUSE"
<1>1. CASE k \in DOMAIN plans
  <2> DEFINE r == plans[k].run_id
             m == history.surveys[k].mark
             end == [run_id |-> r, mark |-> m]
  <2>1. plans'[k] = plans[k] /\ history'.surveys[k] = history.surveys[k]
    BY <1>1, OldPlan
  <2>2. r \in DOMAIN runs /\ m <= Mark(r) /\ m \in Nat /\ Mark(r) \in Nat
    <3>1. history.surveys[k] \in Survey
      BY <1>1 DEF TypeOK, StoreTypeOK, WorldTypeOK, History
    <3>2. MarkIn(transitions, r) = Mark(r) /\ Mark(r) \in Nat
      BY MarksGrow
    <3> QED
      BY <1>1, <3>1, <3>2 DEF Dated, PlanIsDated, UpToDate, Survey
  <2>3. end \in history.settled
    <3>1. ASSUME NEW p \in Proc, LoopEnd(p), end \notin history.settled PROVE FALSE
      <4>1. end = [run_id |-> job[p].run_id, mark |-> Mark(job[p].run_id) + 1]
        BY <2>1, <3>1, NotesItsSuccess
      <4> QED
        BY <2>2, <4>1
    <3> QED
      BY <2>1, <3>1, SettledStep
  <2>4. runs'[r].runbook_digest = runs[r].runbook_digest
    BY <2>2, RunsKept
  <2> QED
    BY <1>1, <2>1, <2>3, <2>4 DEF SuccessIsReused, AfterSuccess, PlanBook, Decided
<1>2. ASSUME NEW p \in Proc, SavePlan(p), k \notin DOMAIN plans
      PROVE  plans'[k].decisions[s].decision = "REUSE"
  <2>1. runs' = runs /\ history'.settled = history.settled
    <3>1. \A q \in Proc : ~LoopEnd(q)
      BY <1>2 DEF OneProcess, SavePlan, LoopEnd
    <3> QED
      BY <1>2, <3>1, SettledStep DEF SavePlan, SaveRepairPlan
  <2> QED
    BY <1>2, <2>1, SavedPlan DEF IsSettled
<1> QED
  BY <1>1, <1>2, PlansStep

(* All of this holds together. *)
LEMMA LastingStep ==
    ASSUME OneProcess, SourcesAreDependencies, TypeOK, Course, Ownership, Grounding,
           Currency, Closing, Bounded, Lasting, SuccessIsReused, [Next]_vars
    PROVE  Lasting' /\ SuccessIsReused'
<1>1. ASSUME Calm'
      PROVE  /\ CommandsAreAwaited'
             /\ \A p \in Proc : LoopStands(p)' /\ RepairStands(p)'
             /\ \A k \in DOMAIN plans' : PlanStands(k)'
             /\ \A e \in history'.settled : SuccessStands(e)'
             /\ \A k \in DOMAIN plans' : \A s \in Steps(Book[plans'[k].source_runbook_digest]) :
                   /\ [run_id |-> plans'[k].run_id, mark |-> history'.surveys[k].mark]
                         \in history'.settled
                   /\ plans'[k].source_runbook_digest = runs'[plans'[k].run_id].runbook_digest
                   => plans'[k].decisions[s].decision = "REUSE"
  <2>1. /\ Calm /\ (\A p \in Proc : ~Crash(p)) /\ (\A q, content : ~Edit(q, content))
        /\ \A r, x \in DOMAIN runs' : r = x
    BY <1>1, CalmStep
  <2>2. /\ CommandsAreAwaited
        /\ \A p \in Proc : LoopStands(p) /\ RepairStands(p)
        /\ \A k \in DOMAIN plans : PlanStands(k)
        /\ \A e \in history.settled : SuccessStands(e)
        /\ Dated
    BY <2>1 DEF Lasting, Currency
  <2>3. CommandsAreAwaited'
    BY <2>1, <2>2, AwaitedStep
  <2>4. \A p \in Proc : LoopStands(p)'
    BY <2>1, <2>2, LoopStandsStep
  <2>5. \A p \in Proc : RepairStands(p)'
    BY <2>1, <2>2, RepairStandsStep
  <2>6. \A k \in DOMAIN plans' : PlanStands(k)'
    BY <2>1, <2>2, PlanStandsStep
  <2>7. \A e \in history'.settled : SuccessStands(e)'
    BY <2>1, <2>2, SuccessStandsStep
  <2> QED
    BY <2>1, <2>2, <2>3, <2>4, <2>5, <2>6, <2>7, ReusesSettledStep
<1>2. Lasting'
  BY <1>1 DEF Lasting
<1>3. SuccessIsReused'
  BY <1>1 DEF SuccessIsReused, AfterSuccess, PlanBook, Decided
<1> QED
  BY <1>2, <1>3

(* It holds at the start. *)
LEMMA InitLasting == Init => Bounded /\ Lasting /\ SuccessIsReused
<1> SUFFICES ASSUME Init PROVE Bounded /\ Lasting /\ SuccessIsReused
  OBVIOUS
<1>1. /\ clock = 2 /\ budget = Budget /\ children = {} /\ plans = <<>>
      /\ pc = [p \in Proc |-> "idle"] /\ history.settled = {}
  BY DEF Init, StoreInit, WorkspaceInit
<1>2. Bounded
  BY <1>1, BudgetAssumption DEF Bounded
<1>3. \A p \in Proc : LoopStands(p) /\ RepairStands(p)
  BY <1>1 DEF LoopStands, RepairStands, Working, Executing, Recorded
<1>4. DOMAIN plans = {}
  BY <1>1
<1>5. CommandsAreAwaited
  BY <1>1 DEF CommandsAreAwaited
<1>6. Lasting
  BY <1>1, <1>3, <1>4, <1>5 DEF Lasting
<1> QED
  BY <1>2, <1>4, <1>6 DEF SuccessIsReused

(* As long as one process at a time works on one run, nobody edits a file  *)
(* and no process is killed, a repair right after a success reuses every   *)
(* step: whatever failed, was repaired, resumed from old plans or revised  *)
(* before, if every step depends on those that write what it reads.        *)
THEOREM SuccessLasts ==
    ASSUME OneProcess, SourcesAreDependencies
    PROVE  Spec => []SuccessIsReused
<1>1. Init => Bounded /\ Lasting /\ SuccessIsReused
  BY InitLasting
<1>2. TypeOK /\ Course /\ Bounded /\ [Next]_vars => Bounded'
  BY BoundedStep
<1>3. /\ TypeOK /\ Course /\ Ownership /\ Grounding /\ Currency /\ Closing
      /\ Bounded /\ Lasting /\ SuccessIsReused /\ [Next]_vars
      => Lasting' /\ SuccessIsReused'
  BY LastingStep
<1>4. Spec => [](TypeOK /\ Course /\ Ownership /\ Grounding)
  BY GroundingCorrect
<1>5. Spec => []Currency
  BY CurrencyCorrect, PTL
<1> QED
  BY <1>1, <1>2, <1>3, <1>4, <1>5, ClosingCorrect, PTL DEF Spec

=============================================================================
