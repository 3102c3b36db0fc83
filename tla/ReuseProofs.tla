------------------------------ MODULE ReuseProofs ------------------------------
(***************************************************************************)
(* What a plan reuses, what a resume skips and what a run calls done was   *)
(* done: some attempt of the step has succeeded in this run.               *)
(*                                                                         *)
(* The proof follows a success from the attempt that had it: to the row of *)
(* the step, to the records a repair loads, to the decision REUSE, to the  *)
(* plan, to the resume that applies it, perhaps much later.  Each of these *)
(* may be out of date when it is used; but attempts stay (JobProofs),      *)
(* so what was done once remains done.                                     *)
(***************************************************************************)
EXTENDS JobProofs

(* evaluate_step reuses only a recorded success of this very book, and     *)
(* blocks only behind a dependency.                                        *)
LEMMA EvaluateStepSound ==
    ASSUME NEW def, NEW record, NEW context, NEW decided
    PROVE  LET decision == EvaluateStep(def, record, context, decided).decision
           IN  /\ decision = "REUSE" =>
                     /\ record.status = "SUCCEEDED"
                     /\ context.runbook_digest_matches
                     /\ context.inputs_match /\ context.outputs_valid
               /\ decision = "BLOCK" => def.depends_on # {}
<1> DEFINE d == EvaluateStep(def, record, context, decided)
<1>1. ASSUME d.decision = "BLOCK" PROVE def.depends_on # {}
  <2>1. CASE DependencyDecided(def, decided, {"BLOCK", "CONFIRM"})
    BY <2>1 DEF DependencyDecided
  <2>2. CASE ~DependencyDecided(def, decided, {"BLOCK", "CONFIRM"})
    BY <1>1, <2>2 DEF EvaluateStep, EvaluateSuccess, EvaluateFailure, Decide, OrConfirm
  <2> QED
    BY <2>1, <2>2
<1>2. ASSUME d.decision = "REUSE"
      PROVE  HasSucceeded(record) /\ d = EvaluateSuccess(def, context)
  <2>1. EvaluateFailure(def, record).decision # "REUSE"
    BY DEF EvaluateFailure, Decide, OrConfirm
  <2> QED
    BY <1>2, <2>1 DEF EvaluateStep, Decide
<1>3. ASSUME d.decision = "REUSE"
      PROVE  ContractReason(context) = "SUCCESS_CONTRACT_MATCH"
  BY <1>2, <1>3 DEF EvaluateSuccess, Decide, OrConfirm
<1>4. ContractReason(context) = "SUCCESS_CONTRACT_MATCH" =>
         context.runbook_digest_matches /\ context.inputs_match /\ context.outputs_valid
  BY DEF ContractReason
<1> QED
  BY <1>1, <1>2, <1>3, <1>4 DEF HasSucceeded

(* An attempt that has succeeded stays what it was, *)
LEMMA MadeKept ==
    ASSUME TypeOK, Course, Ownership, [Next]_vars, NEW a, NEW r, NEW s, NEW row,
           MadeBy(a, r, s, row)
    PROVE  MadeBy(a, r, s, row)'
<1>1. \A p \in Proc : RecordFinished(p) => attempts[job[p].attempt_id].status = "RUNNING"
  BY DEF RecordFinished, Ownership, Owns, Recorded
<1>2. a \in DOMAIN attempts' /\ attempts'[a] = attempts[a]
  BY <1>1, AttemptsKept DEF MadeBy
<1> QED
  BY <1>2 DEF MadeBy

(* so what was done remains done.                                          *)
LEMMA DoneKept ==
    ASSUME TypeOK, Course, Ownership, [Next]_vars, NEW r, NEW s, EverDone(r, s)
    PROVE  EverDone(r, s)'
<1>1. PICK a \in DOMAIN attempts : MadeBy(a, r, s, attempts[a])
  BY DEF EverDone, MadeBy
<1>2. PICK row : row = attempts[a]
  OBVIOUS
<1>3. MadeBy(a, r, s, row)'
  BY <1>1, <1>2, MadeKept
<1> QED
  BY <1>3 DEF EverDone, MadeBy

(* So sound decisions remain sound, and backed records remain backed. *)
LEMMA SoundKept ==
    ASSUME TypeOK, Course, Ownership, [Next]_vars,
           NEW decisions, NEW digest, NEW r, NEW S, Sound(decisions, digest, r, S)
    PROVE  Sound(decisions, digest, r, S)'
  BY DoneKept, RunsKept DEF Sound

LEMMA BackedKept ==
    ASSUME TypeOK, Course, Ownership, [Next]_vars, NEW r, NEW records, Backed(r, records)
    PROVE  Backed(r, records)'
  BY MadeKept DEF Backed, MadeBy

-----------------------------------------------------------------------------
(* The rows *)

(* Replacing one row of the table. *)
LEMMA RowReplaced ==
    ASSUME StoreTypeOK, NEW r \in DOMAIN runs, NEW s \in StepId, NEW row,
           steps' = [steps EXCEPT ![r][s] = row]
    PROVE  \A q \in DOMAIN runs, t \in StepId :
              steps'[q][t] = IF q = r /\ t = s THEN row ELSE steps[q][t]
<1>1. DOMAIN steps = DOMAIN runs /\ \A q \in DOMAIN runs : steps[q] \in StepTable
  BY DEF StoreTypeOK
<1> QED
  BY <1>1 DEF StepTable

(* A process that records stands at a row of its run. *)
LEMMA RecordsARow ==
    ASSUME TypeOK, Course, NEW p \in Proc,
           RecordBlocked(p) \/ RecordStarted(p) \/ RecordFinished(p)
    PROVE  /\ job[p].run_id \in DOMAIN runs /\ CurrentStep(job[p]) \in StepId
           /\ steps[job[p].run_id][CurrentStep(job[p])] \in StepRow
           /\ CurrentStep(job[p]) \in Steps(Book[job[p].runbook])
<1>1. Working(p) /\ job[p].position \in DOMAIN Order(job[p])
  BY DEF RecordBlocked, RecordStarted, RecordFinished, Working, Executing, Course, OnCourse
<1>2. /\ job[p].run_id \in DOMAIN runs
      /\ steps[job[p].run_id][CurrentStep(job[p])] # Null
  BY <1>1, AtARow
<1>3. CurrentStep(job[p]) \in StepId /\ CurrentStep(job[p]) \in Steps(Book[job[p].runbook])
  BY <1>1, AtAStep
<1> QED
  BY <1>2, <1>3, SelectType DEF TypeOK

(* A row says SUCCEEDED only after a success. *)
LEMMA RowsBackedStep ==
    ASSUME TypeOK, Course, Ownership, Grounding, [Next]_vars
    PROVE  RowsAreBacked'
<1>0. StoreTypeOK /\ LocalTypeOK
  BY DEF TypeOK
<1> SUFFICES ASSUME NEW r \in DOMAIN runs', NEW s \in StepId,
                    steps'[r][s] # Null, steps'[r][s].status = "SUCCEEDED"
             PROVE  \E a \in DOMAIN attempts' : MadeBy(a, r, s, steps[r][s])'
  BY DEF RowsAreBacked, Backed
<1> DEFINE Done == \E a \in DOMAIN attempts' : MadeBy(a, r, s, steps[r][s])'
<1>1. ASSUME r \in DOMAIN runs, steps'[r][s] = steps[r][s] PROVE Done
  <2>1. PICK row : row = steps[r][s]
    OBVIOUS
  <2>2. PICK a \in DOMAIN attempts : MadeBy(a, r, s, row)
    BY <1>1, <2>1 DEF Grounding, RowsAreBacked, Backed
  <2>3. MadeBy(a, r, s, row)'
    BY <2>2, MadeKept
  <2> QED
    BY <1>1, <2>1, <2>3 DEF MadeBy
<1>2. ASSUME NEW p \in Proc, ExecuteRunbook(p) PROVE Done
  <2> DEFINE new == [t \in StepId |-> IF t \in Steps(Book[job[p].runbook])
                                      THEN PendingRow ELSE Null]
  <2>1. /\ steps' = Append(steps, new) /\ Len(runs') = Len(runs) + 1
        /\ DOMAIN runs' = 1..Len(runs) + 1
    BY <1>0, <1>2 DEF ExecuteRunbook, CreateRun, StoreTypeOK
  <2>2. CASE r = Len(runs) + 1
    <3>1. steps'[r] = new
      BY <1>0, <2>1, <2>2 DEF StoreTypeOK
    <3> QED
      BY <3>1 DEF PendingRow
  <2>3. CASE r # Len(runs) + 1
    <3>1. r \in DOMAIN runs /\ steps'[r] = steps[r]
      BY <1>0, <2>1, <2>3 DEF StoreTypeOK
    <3> QED
      BY <1>1, <3>1
  <2> QED
    BY <2>2, <2>3
<1>3. ASSUME NEW p \in Proc, RecordBlocked(p) \/ RecordStarted(p) \/ RecordFinished(p)
      PROVE  Done
  <2> DEFINE q == job[p].run_id
             t == CurrentStep(job[p])
  <2>1. q \in DOMAIN runs /\ t \in StepId /\ steps[q][t] \in StepRow
    BY <1>3, RecordsARow
  <2>2. runs' = runs
    BY <1>3 DEF RecordBlocked, UpdateStepStatus, RecordStarted, RecordStepStarted,
       RecordFinished, RecordStepFinished
  <2>3. CASE RecordBlocked(p)
    <3> DEFINE row == [steps[q][t] EXCEPT !.status = "BLOCKED"]
    <3>1. steps' = [steps EXCEPT ![q][t] = row] /\ row.status = "BLOCKED"
      BY <2>1, <2>3 DEF RecordBlocked, UpdateStepStatus, StepRow
    <3> HIDE DEF row
    <3> QED
      BY <1>0, <1>1, <2>1, <2>2, <3>1, RowReplaced
  <2>4. CASE RecordStarted(p)
    <3> DEFINE row == StartedRow(steps[q][t], job[p].seen, Len(attempts) + 1, job[p].contract)
    <3>1. steps' = [steps EXCEPT ![q][t] = row] /\ row.status = "RUNNING"
      BY <2>1, <2>4 DEF RecordStarted, RecordStepStarted, StartedRow, StepRow
    <3> HIDE DEF row
    <3> QED
      BY <1>0, <1>1, <2>1, <2>2, <3>1, RowReplaced
  <2>5. CASE RecordFinished(p)
    <3> DEFINE row == FinishedRow(steps[q][t], job[p].result, job[p].contract)
    <3>1. steps' = [steps EXCEPT ![q][t] = row] /\ row.status = job[p].result.status
          /\ row.contract = job[p].contract
      BY <2>1, <2>5 DEF RecordFinished, RecordStepFinished, FinishedRow, StepRow
    <3> HIDE DEF row
    <3>2. CASE r = q /\ s = t
      <4>1. steps'[r][s] = row
        <5>1. DOMAIN steps = DOMAIN runs /\ steps[q] \in StepTable
          BY <1>0, <2>1 DEF StoreTypeOK
        <5> HIDE DEF q, t
        <5> QED
          BY <2>1, <3>1, <3>2, <5>1 DEF StepTable
      <4>2. job[p].result.status = "SUCCEEDED"
        BY <3>1, <4>1
      <4> QED
        BY <2>5, <3>1, <3>2, <4>1, <4>2, FinishedAttempt DEF MadeBy
    <3>3. CASE ~(r = q /\ s = t)
      BY <1>0, <1>1, <2>1, <2>2, <3>1, <3>3, RowReplaced
    <3> QED
      BY <3>2, <3>3
  <2> QED
    BY <1>3, <2>3, <2>4, <2>5
<1>4. ASSUME NEW p \in Proc, LoopEnd(p) PROVE Done
  <2>1. steps' = steps /\ DOMAIN runs' = DOMAIN runs
    BY <1>0, <1>4 DEF LoopEnd, FinishRun, StoreTypeOK
  <2> QED
    BY <1>1, <2>1
<1>5. CASE UNCHANGED <<runs, steps, attempts>>
  BY <1>1, <1>5
<1> QED
  BY <1>2, <1>3, <1>4, <1>5, StoreStep DEF Records

-----------------------------------------------------------------------------
(* The plans *)

(* A saved plan reuses only what was done. *)
LEMMA PlansSoundStep ==
    ASSUME TypeOK, Course, Ownership, Grounding, [Next]_vars
    PROVE  PlansAreSound'
<1>1. ASSUME NEW plan, SoundPlan(plan) PROVE SoundPlan(plan)'
  BY <1>1, DoneKept, RunsKept DEF SoundPlan, Sound
<1>2. ASSUME NEW k \in DOMAIN plans', NEW plan, plan = plans'[k] PROVE SoundPlan(plan)
  <2>1. CASE plans' = plans
    BY <1>2, <2>1 DEF Grounding, PlansAreSound
  <2>2. ASSUME NEW p \in Proc, SavePlan(p) PROVE SoundPlan(plan)
    <3> DEFINE v == job[p].runbook
               new == [run_id |-> job[p].run_id, source_runbook_digest |-> RunbookDigest(v),
                       decisions |-> job[p].decisions]
    <3>1. plans' = Append(plans, new) /\ plans \in Seq(PlanRow)
      BY <2>2 DEF SavePlan, SaveRepairPlan, TypeOK, StoreTypeOK
    <3>2. Evaluated(job[p]) = Steps(Book[RunbookDigest(v)])
      BY <2>2, SavedOrder, JobFacts, DigestFacts
    <3>3. SoundPlan(new)
      BY <2>2, <3>2 DEF SavePlan, Grounding, RepairIsSound, SoundPlan
    <3> HIDE DEF new
    <3>4. plan = new \/ (k \in DOMAIN plans /\ plan = plans[k])
      BY <1>2, <3>1
    <3> QED
      BY <3>3, <3>4 DEF Grounding, PlansAreSound
  <2> QED
    BY <2>1, <2>2, PlansStep
<1>3. ASSUME NEW k \in DOMAIN plans' PROVE SoundPlan(plans[k])'
  <2>1. PICK plan : plan = plans'[k]
    OBVIOUS
  <2>2. SoundPlan(plan)'
    BY <1>1, <1>2, <2>1
  <2> QED
    BY <2>1, <2>2 DEF SoundPlan, Sound
<1> QED
  BY <1>3 DEF PlansAreSound

(* A process that surveys has just loaded the records, or went on. *)
LEMMA Surveys ==
    ASSUME TypeOK, [Next]_vars, NEW p \in Proc, pc'[p] = "survey"
    PROVE  Stays(p) \/ SurveyStep(p) \/ \E r \in DOMAIN runs : RepairLoad(p, r)
<1>0. LocalTypeOK
  BY DEF TypeOK
<1>1. ASSUME NEW command, Launch(p, command) \/ Crash(p) \/ Answered(p) PROVE FALSE
  BY <1>0, <1>1 DEF Launch, Crash, Answered, Goto, Exit, LocalTypeOK
<1>2. CASE Step(p)
  <2>1. /\ \A status : ~Exit(p, status) /\ ~Advance(p, status)
        /\ \A label : Goto(p, label) => label = "survey"
        /\ pc'[p] = pc[p] => pc[p] = "survey"
    BY <1>0 DEF Exit, Advance, Goto, LocalTypeOK
  <2>2. ~(\/ ExecuteRunbook(p) \/ (\E k, r, confirmed : ResumeRunbook(p, r, k, confirmed))
          \/ (\E k, r : ResumeStale(p, r, k)))
    BY <2>1 DEF ExecuteRunbook, ResumeRunbook, ResumeStale
  <2>3. ~(\/ StepReuse(p) \/ StepBlocked(p) \/ RecordBlocked(p) \/ RecordFinished(p)
          \/ StepUnconfirmed(p) \/ LoopEnd(p) \/ ObserveRejected(p) \/ ObserveBefore(p))
    BY <2>1 DEF StepReuse, AtStep, StepBlocked, RecordBlocked, RecordFinished,
       StepUnconfirmed, LoopEnd, ObserveRejected, ObserveBefore
  <2>4. ~(\/ SelectStarted(p) \/ RecordStarted(p) \/ Spawn(p) \/ SpawnError(p)
          \/ ObserveAfter(p) \/ SelectFinished(p))
    BY <2>1 DEF SelectStarted, RecordStarted, Spawn, SpawnError, ObserveAfter, SelectFinished
  <2>5. ~(SurveyDone(p) \/ SurveyFails(p) \/ EvaluateNext(p) \/ SavePlan(p))
    BY <2>1 DEF SurveyDone, Surveying, SurveyFails, SavePlan, EvaluateNext
  <2> QED
    BY <1>2, <2>2, <2>3, <2>4, <2>5 DEF Step
<1> QED
  BY <1>0, <1>1, <1>2, ProcessStep

-----------------------------------------------------------------------------
(* The processes *)

(* A process dispatches before anything else. *)
LEMMA DispatchStep ==
    ASSUME TypeOK, Grounding, [Next]_vars, NEW p \in Proc, pc'[p] = "dispatch"
    PROVE  job'[p].position = 1
<1>0. LocalTypeOK
  BY DEF TypeOK
<1>1. CASE Stays(p)
  BY <1>1 DEF Stays, Grounding
<1>2. ASSUME NEW command, Launch(p, command) PROVE job'[p].position = 1
  BY <1>0, <1>2 DEF Launch, LocalTypeOK, NoJob
<1>3. CASE Crash(p) \/ Answered(p)
  BY <1>0, <1>3 DEF Crash, Answered, Exit, LocalTypeOK
<1>4. CASE Step(p)
  <2>1. /\ \A status : ~Exit(p, status) /\ ~Advance(p, status)
        /\ \A label : Goto(p, label) => label = "dispatch"
        /\ pc'[p] = pc[p] => pc[p] = "dispatch"
    BY <1>0 DEF Exit, Advance, Goto, LocalTypeOK
  <2>2. ~(\/ ExecuteRunbook(p) \/ (\E k, r, confirmed : ResumeRunbook(p, r, k, confirmed))
          \/ (\E k, r : ResumeStale(p, r, k)) \/ (\E r : RepairLoad(p, r)))
    BY <2>1 DEF ExecuteRunbook, ResumeRunbook, ResumeStale, RepairLoad
  <2>3. ~(\/ StepReuse(p) \/ StepBlocked(p) \/ RecordBlocked(p) \/ RecordFinished(p)
          \/ StepUnconfirmed(p) \/ LoopEnd(p) \/ ObserveRejected(p) \/ ObserveBefore(p))
    BY <2>1 DEF StepReuse, AtStep, StepBlocked, RecordBlocked, RecordFinished,
       StepUnconfirmed, LoopEnd, ObserveRejected, ObserveBefore
  <2>4. ~(\/ SelectStarted(p) \/ RecordStarted(p) \/ Spawn(p) \/ SpawnError(p)
          \/ ObserveAfter(p) \/ SelectFinished(p))
    BY <2>1 DEF SelectStarted, RecordStarted, Spawn, SpawnError, ObserveAfter, SelectFinished
  <2>5. ~(SurveyStep(p) \/ SurveyDone(p) \/ SurveyFails(p) \/ EvaluateNext(p) \/ SavePlan(p))
    BY <2>1 DEF SurveyStep, SurveyDone, Surveying, SurveyFails, SavePlan, EvaluateNext
  <2> QED
    BY <1>4, <2>2, <2>3, <2>4, <2>5 DEF Step
<1> QED
  BY <1>0, <1>1, <1>2, <1>3, <1>4, ProcessStep

(* The records of a repair stay backed, and a comparison that says the     *)
(* digests match was right.                                                *)
LEMMA SurveySoundStep ==
    ASSUME TypeOK, Course, Ownership, Grounding, [Next]_vars, NEW p \in Proc,
           pc'[p] = "survey"
    PROVE  /\ job'[p].run_id \in DOMAIN runs'
           /\ Backed(job[p].run_id, job[p].records)'
           /\ Compared(job[p], SurveyedSteps(job[p]))'
<1>0. job[p] \in Job /\ LocalTypeOK
  BY JobFacts DEF TypeOK
<1>1. \A a, r, s, row : MadeBy(a, r, s, row) => MadeBy(a, r, s, row)'
  BY MadeKept
<1>2. \A r, v : MadeFrom(r, v) => r \in DOMAIN runs' /\ runs'[r].runbook_digest = RunbookDigest(v)
  BY RunsKept DEF MadeFrom
<1>3. CASE Stays(p)
  BY <1>1, <1>2, <1>3, RunsKept DEF Stays, Grounding, RepairIsSound, Backed, MadeBy, Compared,
     SurveyedSteps, MadeFrom, Declared
<1>4. ASSUME NEW r \in DOMAIN runs, RepairLoad(p, r)
      PROVE  /\ job'[p].run_id \in DOMAIN runs'
             /\ Backed(job[p].run_id, job[p].records)'
             /\ Compared(job[p], SurveyedSteps(job[p]))'
  <2>1. /\ job'[p].run_id = r /\ job'[p].records = steps[r]
        /\ job'[p].position = 1 /\ job'[p].runbook = job[p].runbook
    BY <1>0, <1>4 DEF RepairLoad, LocalTypeOK, Job, Grounding
  <2>2. Backed(job[p].run_id, job[p].records)'
    BY <1>1, <2>1 DEF Grounding, RowsAreBacked, Backed, MadeBy
  <2>3. Declared(job'[p]) \in Seq(StepId)
    BY <2>1, JobFacts, BookFacts DEF Declared
  <2>4. SurveyedSteps(job'[p]) = {}
    BY <2>1, <2>3 DEF SurveyedSteps
  <2> QED
    BY <2>1, <2>2, <2>4, RunsKept DEF Compared, SurveyedSteps, Declared
<1>5. CASE SurveyStep(p)
  <2> DEFINE s == Surveyed(job[p])
             context == Context(job[p], s)
  <2>1. /\ job'[p].run_id = job[p].run_id /\ job'[p].records = job[p].records
        /\ job'[p].runbook = job[p].runbook /\ job'[p].position = job[p].position + 1
        /\ job'[p].contexts = [job[p].contexts EXCEPT ![s] = context]
        /\ job[p].records[s] # Null /\ pc[p] = "survey"
        /\ job[p].position <= Len(Declared(job[p]))
    BY <1>0, <1>5 DEF SurveyStep, Surveying, LocalTypeOK, Job
  <2>2. Backed(job[p].run_id, job[p].records)'
    <3>1. Backed(job[p].run_id, job[p].records)
      BY <2>1 DEF Grounding, RepairIsSound
    <3> HIDE DEF s, context
    <3> QED
      BY <1>1, <2>1, <3>1 DEF Backed, MadeBy
  <2>3. /\ Declared(job[p]) \in Seq(StepId) /\ Declared(job'[p]) = Declared(job[p])
        /\ job[p].position \in Nat /\ job[p].position >= 1
    BY <2>1, JobFacts DEF Declared, Course, OnCourse
  <2>4. job[p].position \in DOMAIN Declared(job[p]) /\ s \in StepId
    BY <2>1, <2>3 DEF Surveyed
  <2>5. SurveyedSteps(job'[p]) \subseteq SurveyedSteps(job[p]) \cup {s}
    BY <2>1, <2>3 DEF SurveyedSteps, Surveyed
  <2>6. context.runbook_digest_matches => MadeFrom(job[p].run_id, job[p].runbook)
    <3>1. job[p].run_id \in DOMAIN runs
      BY <2>1 DEF Grounding, RepairIsSound
    <3> QED
      BY <3>1 DEF Context, MadeFrom
  <2>7. job[p].contexts \in [StepId -> RecoveryContext \cup {Null}]
    BY <1>0 DEF Job, Contexts
  <2>8. SurveyedSteps(job[p]) \subseteq StepId
    BY <2>3 DEF SurveyedSteps
  <2>9. Compared(job[p], SurveyedSteps(job[p]))
    BY <2>1 DEF Grounding, RepairIsSound
  <2> HIDE DEF s, context
  <2>10. ASSUME NEW t \in SurveyedSteps(job'[p])
         PROVE  /\ job'[p].records[t] # Null
                /\ job'[p].contexts[t].runbook_digest_matches =>
                      MadeFrom(job[p].run_id, job[p].runbook)
    BY <2>1, <2>4, <2>5, <2>6, <2>7, <2>8, <2>9, <2>10 DEF Compared
  <2>11. Compared(job[p], SurveyedSteps(job[p]))'
    BY <1>2, <2>1, <2>10 DEF Compared, MadeFrom, SurveyedSteps, Declared
  <2>12. job'[p].run_id \in DOMAIN runs'
    BY <2>1, RunsKept DEF Grounding, RepairIsSound
  <2> QED
    BY <2>2, <2>11, <2>12
<1> QED
  BY <1>3, <1>4, <1>5, Surveys

(* When its first loop is done a repair has surveyed every step. *)
LEMMA SurveyedAll ==
    ASSUME TypeOK, NEW p \in Proc, SurveyDone(p)
    PROVE  SurveyedSteps(job[p]) = Steps(Book[job[p].runbook])
<1>1. /\ Declared(job[p]) \in Seq(StepId) /\ job[p].position \in Nat
      /\ Valid(Book[job[p].runbook])
  BY JobFacts, BookAssumption
<1>2. Steps(Book[job[p].runbook]) = {Declared(job[p])[i] : i \in DOMAIN Declared(job[p])}
  BY <1>1 DEF Valid, Enumerates, Declared
<1>3. \A i \in DOMAIN Declared(job[p]) : i < job[p].position
  BY <1>1 DEF SurveyDone
<1> QED
  BY <1>2, <1>3 DEF SurveyedSteps

(* The decisions of a repair are sound as far as they go. *)
LEMMA EvaluateSoundStep ==
    ASSUME TypeOK, Course, Ownership, Grounding, [Next]_vars, NEW p \in Proc,
           pc'[p] = "evaluate"
    PROVE  /\ job'[p].run_id \in DOMAIN runs'
           /\ Backed(job[p].run_id, job[p].records)'
           /\ Compared(job[p], Steps(Book[job[p].runbook]))'
           /\ Sound(job[p].decisions, RunbookDigest(job[p].runbook), job[p].run_id,
                    Evaluated(job[p]))'
<1>0. job[p] \in Job /\ LocalTypeOK
  BY JobFacts DEF TypeOK
<1>1. /\ \A r, s : EverDone(r, s) => EverDone(r, s)'
      /\ \A a, r, s, row : MadeBy(a, r, s, row) => MadeBy(a, r, s, row)'
  BY DoneKept, MadeKept
<1>2. \A r, v : MadeFrom(r, v) => r \in DOMAIN runs' /\ runs'[r].runbook_digest = RunbookDigest(v)
  BY RunsKept DEF MadeFrom
<1> DEFINE v == job[p].runbook
           r == job[p].run_id
           J == /\ r \in DOMAIN runs
                /\ Backed(r, job[p].records)
                /\ Compared(job[p], Steps(Book[v]))
           SameRepair == /\ job'[p].run_id = r /\ job'[p].records = job[p].records
                         /\ job'[p].runbook = v /\ job'[p].contexts = job[p].contexts
<1>3. ASSUME J, SameRepair
      PROVE  /\ job'[p].run_id \in DOMAIN runs'
             /\ Backed(job[p].run_id, job[p].records)'
             /\ Compared(job[p], Steps(Book[job[p].runbook]))'
  BY <1>1, <1>2, <1>3, RunsKept DEF Backed, MadeBy, Compared, MadeFrom
<1>4. ASSUME NEW decisions, NEW S, Sound(decisions, RunbookDigest(v), r, S), SameRepair,
             job'[p].decisions = decisions, Evaluated(job'[p]) \subseteq S
      PROVE  Sound(job[p].decisions, RunbookDigest(job[p].runbook), job[p].run_id,
                   Evaluated(job[p]))'
  <2>1. RunbookDigest(job'[p].runbook) = RunbookDigest(v)
    BY <1>4
  <2>2. Evaluated(job[p])' = Evaluated(job'[p])
    BY DEF Evaluated, Order
  <2> QED
    BY <1>1, <1>4, <2>1, <2>2, RunsKept DEF Sound, EverDone
<1>5. CASE Stays(p)
  <2>1. J /\ SameRepair /\ Evaluated(job'[p]) = Evaluated(job[p])
    BY <1>5 DEF Stays, Grounding, RepairIsSound
  <2>2. Sound(job[p].decisions, RunbookDigest(v), r, Evaluated(job[p]))
    BY <1>5 DEF Stays, Grounding, RepairIsSound
  <2> HIDE DEF J, SameRepair
  <2>3. job'[p].decisions = job[p].decisions
    BY <1>5 DEF Stays
  <2> QED
    BY <1>3, <1>4, <2>1, <2>2, <2>3
<1>6. CASE SurveyDone(p)
  <2>1. /\ SameRepair /\ job'[p].position = 1 /\ pc[p] = "survey"
        /\ job[p].position > Len(Declared(job[p]))
    BY <1>0, <1>6 DEF SurveyDone, LocalTypeOK, Job
  <2>3. SurveyedSteps(job[p]) = Steps(Book[v])
    BY <1>6, SurveyedAll
  <2>4. J
    BY <2>1, <2>3 DEF Grounding, RepairIsSound
  <2>5. Order(job'[p]) \in Seq(StepId)
    BY <2>1, JobFacts DEF Order
  <2>6. Evaluated(job'[p]) = {}
    BY <2>1, <2>5 DEF Evaluated
  <2>7. Evaluated(job[p])' = {}
    BY <2>6 DEF Evaluated, Order
  <2> HIDE DEF J, SameRepair
  <2> QED
    BY <1>3, <2>1, <2>4, <2>7 DEF Sound
<1>7. CASE EvaluateNext(p)
  <2> DEFINE s == CurrentStep(job[p])
             d == EvaluateStep(Current(job[p]), job[p].records[s], job[p].contexts[s],
                               job[p].decisions)
  <2>1. job[p].position \in DOMAIN Order(job[p])
    BY <1>7, JobFacts DEF EvaluateNext, Course, OnCourse
  <2>2. /\ job'[p].position = job[p].position + 1
        /\ job'[p].decisions = [job[p].decisions EXCEPT ![s] = d]
        /\ SameRepair /\ pc[p] = "evaluate"
    BY <1>0, <1>7 DEF EvaluateNext, LocalTypeOK, Job
  <2>3. Order(job'[p]) = Order(job[p]) /\ Order(job[p]) \in Seq(StepId)
    BY <2>2, JobFacts DEF Order
  <2>4. Evaluated(job'[p]) \subseteq Evaluated(job[p]) \cup {s}
    BY <2>1, <2>2, <2>3, JobFacts DEF Evaluated, CurrentStep
  <2>5. /\ s \in StepId /\ s \in Steps(Book[v])
        /\ Current(job[p]) = Book[RunbookDigest(v)].steps[s]
    BY <2>1, AtAStep, JobFacts, DigestFacts DEF Current, Definition
  <2>6. J /\ Sound(job[p].decisions, RunbookDigest(v), r, Evaluated(job[p]))
    BY <2>2 DEF Grounding, RepairIsSound
  <2>7. /\ d.decision = "REUSE" => /\ EverDone(r, s)
                                   /\ r \in DOMAIN runs
                                   /\ runs[r].runbook_digest = RunbookDigest(v)
        /\ d.decision = "BLOCK" => Book[RunbookDigest(v)].steps[s].depends_on # {}
    BY <2>5, <2>6, EvaluateStepSound DEF Compared, Backed, MadeBy, EverDone, MadeFrom
  <2>8. job[p].decisions \in [StepId -> RepairDecision \cup {Null}]
    BY <1>0 DEF Job, Decisions
  <2>9. Evaluated(job[p]) \subseteq StepId
    BY <2>3 DEF Evaluated
  <2> HIDE DEF d, s, J, SameRepair, v, r
  <2>10. Sound(job'[p].decisions, RunbookDigest(v), r, Evaluated(job[p]) \cup {s})
    BY <2>2, <2>5, <2>6, <2>7, <2>8, <2>9 DEF Sound
  <2> QED
    BY <1>3, <1>4, <2>2, <2>4, <2>6, <2>10
<1> QED
  BY <1>5, <1>6, <1>7, Evaluates

(* A process in its loop stays at its place, or goes on to the next step.  *)
LEMMA Loops ==
    ASSUME TypeOK, [Next]_vars, NEW p \in Proc, Working(p), Working(p)'
    PROVE  \/ job'[p].position = job[p].position /\ job'[p].statuses = job[p].statuses
           \/ StepReuse(p) \/ RecordBlocked(p) \/ RecordFinished(p)
<1>0. job[p] \in Job /\ LocalTypeOK
  BY JobFacts DEF TypeOK
<1>1. CASE Stays(p)
  BY <1>1 DEF Stays
<1>2. CASE Answered(p)
  BY <1>0, <1>2 DEF Answered, Job
<1>3. ASSUME NEW command, Launch(p, command) \/ Crash(p) PROVE FALSE
  BY <1>0, <1>3 DEF Launch, Crash, Goto, Exit, LocalTypeOK, Working, Executing
<1>4. CASE Step(p)
  <2>1. /\ pc[p] \notin {"dispatch", "survey", "evaluate"}
        /\ \A status : ~Exit(p, status)
    BY <1>0 DEF Working, Executing, Exit, LocalTypeOK
  <2>2. \/ StepReuse(p) \/ RecordBlocked(p) \/ RecordFinished(p)
        \/ StepBlocked(p) \/ ObserveBefore(p) \/ SelectStarted(p) \/ RecordStarted(p)
        \/ Spawn(p) \/ SpawnError(p) \/ ObserveAfter(p) \/ SelectFinished(p)
    BY <1>4, <2>1 DEF Step, ExecuteRunbook, ResumeRunbook, ResumeStale, StepUnconfirmed,
       LoopEnd, ObserveRejected, RepairLoad, SurveyStep, Surveying, SurveyFails, SurveyDone,
       EvaluateNext, SavePlan
  <2>3. CASE StepBlocked(p) \/ ObserveBefore(p) \/ SelectStarted(p) \/ RecordStarted(p)
    BY <1>0, <2>3 DEF StepBlocked, ObserveBefore, SelectStarted, RecordStarted, SeeRow,
       LocalTypeOK, Job
  <2>4. CASE Spawn(p) \/ SpawnError(p) \/ ObserveAfter(p) \/ SelectFinished(p)
    BY <1>0, <2>4 DEF Spawn, SpawnError, ObserveAfter, SelectFinished, SeeRow,
       LocalTypeOK, Job
  <2> QED
    BY <2>2, <2>3, <2>4
<1> QED
  BY <1>0, <1>1, <1>2, <1>3, <1>4, ProcessStep

(* A resume goes by sound decisions. *)
LEMMA ResumeSoundStep ==
    ASSUME TypeOK, Course, Ownership, Grounding, [Next]_vars, NEW p \in Proc,
           Working(p)', job'[p].command = "resume"
    PROVE  Sound(job[p].decisions, RunbookDigest(job[p].runbook), job[p].run_id,
                 Steps(Book[job[p].runbook]))'
<1>0. job[p] \in Job /\ LocalTypeOK
  BY JobFacts DEF TypeOK
<1>1. \A r, s : EverDone(r, s) => EverDone(r, s)'
  BY DoneKept
<1>2. ASSUME NEW decisions, NEW r, NEW v,
             Sound(decisions, RunbookDigest(v), r, Steps(Book[v])),
             job'[p].decisions = decisions, job'[p].run_id = r, job'[p].runbook = v
      PROVE  Sound(job[p].decisions, RunbookDigest(job[p].runbook), job[p].run_id,
                   Steps(Book[job[p].runbook]))'
  <2>1. RunbookDigest(job[p].runbook)' = RunbookDigest(v)
    BY <1>2
  <2> QED
    BY <1>1, <1>2, <2>1, RunsKept DEF Sound, EverDone
<1>3. ASSUME ExecuteRunbook(p) PROVE FALSE
  BY <1>0, <1>3 DEF ExecuteRunbook, LocalTypeOK, Job
<1>4. ASSUME NEW k \in DOMAIN plans, NEW r \in DOMAIN runs, NEW confirmed,
             ResumeRunbook(p, r, k, confirmed)
      PROVE  Sound(job[p].decisions, RunbookDigest(job[p].runbook), job[p].run_id,
                   Steps(Book[job[p].runbook]))'
  <2> DEFINE v == job[p].runbook
  <2>1. /\ job'[p].decisions = plans[k].decisions /\ job'[p].runbook = v
        /\ job'[p].run_id = r
    BY <1>0, <1>4 DEF ResumeRunbook, LocalTypeOK, Job
  <2>2. plans[k].source_runbook_digest = RunbookDigest(v) /\ plans[k].run_id = r
    BY <1>4 DEF ResumeRunbook, PlanMatches
  <2>3. Steps(Book[RunbookDigest(v)]) = Steps(Book[v])
    BY JobFacts, DigestFacts
  <2>4. Sound(plans[k].decisions, RunbookDigest(v), r, Steps(Book[v]))
    BY <2>2, <2>3 DEF Grounding, PlansAreSound, SoundPlan
  <2> HIDE DEF v
  <2> QED
    BY <1>2, <2>1, <2>4
<1>5. CASE Working(p) /\ SameInvocation(p)
  <2>1. Sound(job[p].decisions, RunbookDigest(job[p].runbook), job[p].run_id,
              Steps(Book[job[p].runbook]))
    BY <1>5 DEF SameInvocation, Grounding, LoopIsSound
  <2> QED
    BY <1>2, <1>5, <2>1 DEF SameInvocation
<1> QED
  BY <1>3, <1>4, <1>5, Works

(* What the loop takes for done was done. *)
LEMMA StatusesSoundStep ==
    ASSUME TypeOK, Course, Ownership, Grounding, [Next]_vars, NEW p \in Proc, Working(p)'
    PROVE  \A s \in Evaluated(job'[p]) :
              job'[p].statuses[s] = "SUCCEEDED" => EverDone(job[p].run_id, s)'
<1>0. job[p] \in Job /\ LocalTypeOK
  BY JobFacts DEF TypeOK
<1>1. \A r, s : EverDone(r, s) => EverDone(r, s)'
  BY DoneKept
<1>2. ASSUME pc[p] = "dispatch", job'[p].position = job[p].position,
             job'[p].runbook = job[p].runbook
      PROVE  Evaluated(job'[p]) = {}
  <2>1. job'[p].position = 1 /\ Order(job'[p]) \in Seq(StepId)
    BY <1>2, JobFacts DEF Grounding, Order
  <2> QED
    BY <2>1 DEF Evaluated
<1>3. CASE ExecuteRunbook(p)
  BY <1>0, <1>2, <1>3 DEF ExecuteRunbook, LocalTypeOK, Job
<1>4. ASSUME NEW k \in DOMAIN plans, NEW r \in DOMAIN runs, NEW confirmed,
             ResumeRunbook(p, r, k, confirmed)
      PROVE  Evaluated(job'[p]) = {}
  BY <1>0, <1>2, <1>4 DEF ResumeRunbook, LocalTypeOK, Job
<1>5. ASSUME Working(p), SameInvocation(p)
      PROVE  \A s \in Evaluated(job'[p]) :
                job'[p].statuses[s] = "SUCCEEDED" => EverDone(job[p].run_id, s)'
  <2> DEFINE E == Evaluated(job[p])
  <2>a. PICK t : t = CurrentStep(job[p])
    OBVIOUS
  <2>b. PICK r : r = job[p].run_id
    OBVIOUS
  <2>0. /\ job'[p].run_id = r /\ job'[p].runbook = job[p].runbook
        /\ \A s \in E : job[p].statuses[s] = "SUCCEEDED" => EverDone(r, s)
    BY <1>5, <2>b DEF SameInvocation, Grounding, LoopIsSound
  <2>c. \A s : EverDone(job[p].run_id, s)' <=> EverDone(r, s)'
    BY <2>0 DEF EverDone
  <2> SUFFICES \A s \in Evaluated(job'[p]) :
                  job'[p].statuses[s] = "SUCCEEDED" => EverDone(r, s)'
    BY <2>c
  <2>1. CASE job'[p].position = job[p].position /\ job'[p].statuses = job[p].statuses
    BY <1>1, <2>0, <2>1 DEF Evaluated, Order
  <2>2. ASSUME job[p].position \in DOMAIN Order(job[p]),
               job'[p].position = job[p].position + 1,
               \A s \in E : job'[p].statuses[s] = job[p].statuses[s],
               job'[p].statuses[t] = "SUCCEEDED" => EverDone(r, t)'
        PROVE  \A s \in Evaluated(job'[p]) :
                  job'[p].statuses[s] = "SUCCEEDED" => EverDone(r, s)'
    <3>1. Order(job'[p]) = Order(job[p]) /\ Order(job[p]) \in Seq(StepId)
      BY <2>0, JobFacts DEF Order
    <3>2. Evaluated(job'[p]) \subseteq E \cup {t}
      BY <2>2, <2>a, <3>1, JobFacts DEF Evaluated, CurrentStep
    <3> HIDE DEF E
    <3> QED
      BY <1>1, <2>0, <2>2, <3>2
  <2>3. job[p].statuses \in [StepId -> StepStatus \cup {Null}]
    BY <1>0 DEF Job, Statuses
  <2>4. E \subseteq StepId
    BY JobFacts DEF Evaluated
  <2>5. CASE StepReuse(p)
    <3>1. /\ job[p].position \in DOMAIN Order(job[p])
          /\ Planned(job[p], {"REUSE"})
          /\ job'[p].position = job[p].position + 1 /\ job'[p].statuses = job[p].statuses
      BY <1>0, <2>5, JobFacts DEF StepReuse, AtStep, LocalTypeOK, Job, Course, OnCourse
    <3>2. EverDone(r, t)
      BY <1>5, <2>a, <2>b, <3>1, AtAStep DEF Planned, Grounding, LoopIsSound, Sound
    <3>3. EverDone(r, t)'
      BY <1>1, <3>2
    <3> QED
      BY <2>2, <3>1, <3>3
  <2>6. ASSUME NEW status, Advance(p, status), pc[p] = "block" \/ Executing(p),
               status = "SUCCEEDED" => EverDone(r, t)'
        PROVE  \A s \in Evaluated(job'[p]) :
                  job'[p].statuses[s] = "SUCCEEDED" => EverDone(r, s)'
    <3>1. job[p].position \in DOMAIN Order(job[p])
      BY <2>6 DEF Course, OnCourse
    <3>2. t \in StepId /\ t \notin E
      BY <2>a, <3>1, AtAStep, OrderIsValid
    <3>3. /\ job'[p].position = job[p].position + 1
          /\ job'[p].statuses = [job[p].statuses EXCEPT ![t] = status]
      BY <1>0, <2>6, <2>a DEF Advance, LocalTypeOK, Job
    <3> HIDE DEF E
    <3>4. job'[p].statuses[t] = status /\ \A s \in E : job'[p].statuses[s] = job[p].statuses[s]
      BY <2>3, <2>4, <3>2, <3>3
    <3> QED
      BY <2>2, <2>6, <3>1, <3>3, <3>4
  <2>7. CASE RecordBlocked(p)
    BY <2>6, <2>7 DEF RecordBlocked
  <2>8. CASE RecordFinished(p)
    <3>1. job[p].result.status = "SUCCEEDED" => EverDone(r, t)'
      BY <2>8, <2>a, <2>b, FinishedAttempt DEF EverDone
    <3> QED
      BY <2>6, <2>8, <3>1 DEF RecordFinished, Executing
  <2> QED
    BY <1>5, <2>1, <2>5, <2>7, <2>8, Loops
<1> QED
  BY <1>3, <1>4, <1>5, Works

(* A step that executes has all it depends on. *)
LEMMA ReadyStep ==
    ASSUME TypeOK, Course, Ownership, Grounding, [Next]_vars, NEW p \in Proc, Executing(p)'
    PROVE  \A d \in Current(job'[p]).depends_on : EverDone(job[p].run_id, d)'
<1>0. job[p] \in Job /\ LocalTypeOK
  BY JobFacts DEF TypeOK
<1>1. \A r, s : EverDone(r, s) => EverDone(r, s)'
  BY DoneKept
<1>2. SameInvocation(p) /\ job'[p].position = job[p].position =>
         Current(job'[p]) = Current(job[p]) /\ job'[p].run_id = job[p].run_id
  BY DEF SameInvocation, CurrentStep, Current, Definition, Order
<1>3. ASSUME SameInvocation(p), job'[p].position = job[p].position,
             \A d \in Current(job[p]).depends_on : EverDone(job[p].run_id, d)
      PROVE  \A d \in Current(job'[p]).depends_on : EverDone(job[p].run_id, d)'
  BY <1>1, <1>2, <1>3 DEF EverDone
<1>4. CASE ObserveBefore(p)
  <2>1. /\ SameInvocation(p) /\ job'[p].position = job[p].position
        /\ DependenciesReady(job[p]) /\ Working(p)
        /\ job[p].position \in DOMAIN Order(job[p])
    BY <1>0, <1>4, JobFacts DEF ObserveBefore, AtStep, SameInvocation, LocalTypeOK, Job,
       Working, Course, OnCourse
  <2>2. Current(job[p]).depends_on \subseteq Evaluated(job[p])
    BY <2>1, OrderIsValid
  <2>3. \A d \in Current(job[p]).depends_on : EverDone(job[p].run_id, d)
    BY <2>1, <2>2 DEF DependenciesReady, Grounding, LoopIsSound
  <2> QED
    BY <1>3, <2>1, <2>3
<1>5. CASE Executing(p) /\ SameAttempt(p)
  BY <1>3, <1>5 DEF SameAttempt, Grounding, LoopIsSound
<1> QED
  BY <1>4, <1>5, Continues

(* A process at a blocked step has just come to it, or stays there. *)
LEMMA Blocks ==
    ASSUME TypeOK, [Next]_vars, NEW p \in Proc, pc'[p] = "block"
    PROVE  Stays(p) \/ StepBlocked(p)
<1>0. LocalTypeOK
  BY DEF TypeOK
<1>1. ASSUME NEW command, Launch(p, command) \/ Crash(p) \/ Answered(p) PROVE FALSE
  BY <1>0, <1>1 DEF Launch, Crash, Answered, Goto, Exit, LocalTypeOK
<1>2. CASE Step(p) /\ ~StepBlocked(p)
  <2>1. /\ \A status : ~Exit(p, status) /\ ~Advance(p, status)
        /\ \A label : Goto(p, label) => label = "block"
        /\ pc'[p] = pc[p] => pc[p] = "block"
    BY <1>0 DEF Exit, Advance, Goto, LocalTypeOK
  <2>2. ~(\/ ExecuteRunbook(p) \/ (\E k, r, confirmed : ResumeRunbook(p, r, k, confirmed))
          \/ (\E k, r : ResumeStale(p, r, k)) \/ (\E r : RepairLoad(p, r)))
    BY <2>1 DEF ExecuteRunbook, ResumeRunbook, ResumeStale, RepairLoad
  <2>3. ~(\/ StepReuse(p) \/ RecordBlocked(p) \/ RecordFinished(p) \/ StepUnconfirmed(p)
          \/ LoopEnd(p) \/ ObserveRejected(p) \/ ObserveBefore(p))
    BY <2>1 DEF StepReuse, AtStep, RecordBlocked, RecordFinished,
       StepUnconfirmed, LoopEnd, ObserveRejected, ObserveBefore
  <2>4. ~(\/ SelectStarted(p) \/ RecordStarted(p) \/ Spawn(p) \/ SpawnError(p)
          \/ ObserveAfter(p) \/ SelectFinished(p))
    BY <2>1 DEF SelectStarted, RecordStarted, Spawn, SpawnError, ObserveAfter, SelectFinished
  <2>5. ~(SurveyStep(p) \/ SurveyDone(p) \/ SurveyFails(p) \/ EvaluateNext(p) \/ SavePlan(p))
    BY <2>1 DEF SurveyStep, SurveyDone, Surveying, SurveyFails, SavePlan, EvaluateNext
  <2> QED
    BY <1>2, <2>2, <2>3, <2>4, <2>5 DEF Step
<1> QED
  BY <1>0, <1>1, <1>2, ProcessStep

(* A step that is blocked depends on something. *)
LEMMA BlockStep ==
    ASSUME TypeOK, Course, Grounding, [Next]_vars, NEW p \in Proc, pc'[p] = "block"
    PROVE  Current(job'[p]).depends_on # {}
<1>0. job[p] \in Job /\ LocalTypeOK
  BY JobFacts DEF TypeOK
<1>1. CASE Stays(p)
  BY <1>1 DEF Stays, Grounding, LoopIsSound
<1>2. CASE StepBlocked(p)
  <2>1. /\ job'[p].position = job[p].position /\ job'[p].runbook = job[p].runbook
        /\ Blocked(job[p]) /\ Working(p)
        /\ job[p].position \in DOMAIN Order(job[p])
    BY <1>0, <1>2, JobFacts DEF StepBlocked, SeeRow, AtStep, LocalTypeOK, Job, Working,
       Course, OnCourse
  <2>2. Current(job'[p]) = Current(job[p])
    BY <2>1 DEF CurrentStep, Current, Definition, Order
  <2>3. ASSUME Planned(job[p], {"BLOCK"}) PROVE Current(job[p]).depends_on # {}
    <3>1. CurrentStep(job[p]) \in Steps(Book[job[p].runbook])
      BY <2>1, AtAStep
    <3>2. Book[RunbookDigest(job[p].runbook)].steps = Book[job[p].runbook].steps
      BY JobFacts, DigestFacts
    <3> QED
      BY <2>1, <2>3, <3>1, <3>2
         DEF Planned, Grounding, LoopIsSound, Sound, Current, Definition
  <2>4. ~DependenciesReady(job[p]) => Current(job[p]).depends_on # {}
    BY DEF DependenciesReady
  <2> QED
    BY <2>1, <2>2, <2>3, <2>4 DEF Blocked
<1> QED
  BY <1>1, <1>2, Blocks

(* Every step keeps the grounds. *)
LEMMA GroundingStep ==
    ASSUME TypeOK, Course, Ownership, Grounding, [Next]_vars
    PROVE  Grounding'
<1>1. RowsAreBacked' /\ PlansAreSound'
  BY RowsBackedStep, PlansSoundStep
<1>2. ASSUME NEW p \in Proc PROVE RepairIsSound(p)'
  BY SurveySoundStep, EvaluateSoundStep DEF RepairIsSound
<1>3. ASSUME NEW p \in Proc PROVE LoopIsSound(p)'
  <2>1. Working(p)' => \A s \in Evaluated(job[p])' :
           (job[p].statuses[s] = "SUCCEEDED")' => EverDone(job[p].run_id, s)'
    BY StatusesSoundStep DEF Evaluated, Order
  <2>2. Executing(p)' => \A d \in Current(job[p]).depends_on' : EverDone(job[p].run_id, d)'
    BY ReadyStep DEF Current, Definition, CurrentStep, Order
  <2>3. (pc[p] = "block" => Current(job[p]).depends_on # {})'
    BY BlockStep DEF Current, Definition, CurrentStep, Order
  <2> QED
    BY <2>1, <2>2, <2>3, ResumeSoundStep DEF LoopIsSound
<1>4. \A p \in Proc : (pc[p] = "dispatch" => job[p].position = 1)'
  BY DispatchStep
<1> QED
  BY <1>1, <1>2, <1>3, <1>4 DEF Grounding

(* At the start there is nothing to be backed. *)
LEMMA InitGrounding == Init => Grounding
  BY DEF Init, StoreInit, Grounding, RowsAreBacked, PlansAreSound, RepairIsSound, LoopIsSound,
     Working, Executing

(* What the store, the plans and the processes take for done was done. *)
LEMMA GroundingCorrect == Spec => [](TypeOK /\ Course /\ Ownership /\ Grounding)
<1>1. Init => Grounding
  BY InitGrounding
<1>2. TypeOK /\ Course /\ Ownership /\ Grounding /\ [Next]_vars => Grounding'
  BY GroundingStep
<1> QED
  BY <1>1, <1>2, OwnershipCorrect, PTL DEF Spec

-----------------------------------------------------------------------------
(* What was compared *)

(* What a repair has seen changes only where a repair saves its plan. *)
LEMMA HistoryStep ==
    ASSUME TypeOK, [Next]_vars
    PROVE  \/ plans' = plans /\ history'.surveys = history.surveys
           \/ \E p \in Proc : SavePlan(p)
<1>0. history \in History
  BY DEF TypeOK, WorldTypeOK
<1>1. ASSUME NEW p \in Proc, LoopEnd(p) \/ RecordStarted(p) \/ Spawn(p)
      PROVE  history'.surveys = history.surveys
  BY <1>0, <1>1 DEF LoopEnd, RecordStarted, Spawn, History
<1>2. ASSUME NEW p \in Proc, Step(p), ~(LoopEnd(p) \/ RecordStarted(p) \/ Spawn(p) \/ SavePlan(p))
      PROVE  history' = history
  BY <1>2 DEF Step, Environment, ExecuteRunbook, ResumeRunbook, ResumeStale, StepReuse,
     StepUnconfirmed, StepBlocked, RecordBlocked, ObserveBefore, ObserveRejected,
     SelectStarted, SpawnError, ObserveAfter, SelectFinished, RecordFinished, RepairLoad,
     SurveyStep, SurveyFails, SurveyDone, EvaluateNext
<1>3. ASSUME CommandEnds \/ User PROVE history'.surveys = history.surveys
  BY <1>0, <1>3 DEF CommandEnds, CommandExit, User, Launch, Crash, Edit, Revise, History
<1>4. UNCHANGED vars => history' = history
  BY DEF vars
<1> QED
  BY <1>1, <1>2, <1>3, <1>4, PlansStep DEF Next

(* A repair that surveys has seen the inputs of what it found unchanged.   *)
LEMMA SurveyComparesStep ==
    ASSUME TypeOK, Course, Grounding, Comparing, [Next]_vars, NEW p \in Proc,
           pc'[p] = "survey"
    PROVE  SawInputs(job'[p], SurveyedSteps(job'[p]))
<1>0. job[p] \in Job /\ LocalTypeOK
  BY JobFacts DEF TypeOK
<1>1. CASE Stays(p)
  BY <1>1 DEF Stays, Comparing, RepairCompares
<1>2. ASSUME NEW r \in DOMAIN runs, RepairLoad(p, r)
      PROVE  SawInputs(job'[p], SurveyedSteps(job'[p]))
  <2>1. job'[p].position = 1 /\ job'[p].runbook = job[p].runbook
    BY <1>0, <1>2 DEF RepairLoad, LocalTypeOK, Job, Grounding
  <2>2. Declared(job'[p]) \in Seq(StepId)
    BY <2>1, JobFacts, BookFacts DEF Declared
  <2>3. SurveyedSteps(job'[p]) = {}
    BY <2>1, <2>2 DEF SurveyedSteps
  <2> QED
    BY <2>3 DEF SawInputs
<1>3. CASE SurveyStep(p)
  <2> DEFINE j == job[p]
             s == Surveyed(j)
             context == Context(j, s)
             prints == Fingerprint(Definition(j, s).inputs)
  <2>1. /\ job'[p].records = j.records /\ job'[p].position = j.position + 1
        /\ job'[p].runbook = j.runbook
        /\ job'[p].contexts = [j.contexts EXCEPT ![s] = context]
        /\ job'[p].inputs = [j.inputs EXCEPT ![s] = prints]
        /\ pc[p] = "survey" /\ j.position <= Len(Declared(j))
    BY <1>0, <1>3 DEF SurveyStep, Surveying, LocalTypeOK, Job
  <2>2. /\ Declared(j) \in Seq(StepId) /\ Declared(job'[p]) = Declared(j)
        /\ j.position \in Nat /\ j.position >= 1
    BY <2>1, JobFacts DEF Declared, Course, OnCourse
  <2>3. s \in StepId /\ SurveyedSteps(j) \subseteq StepId
    BY <2>1, <2>2 DEF Surveyed, SurveyedSteps
  <2>4. SurveyedSteps(job'[p]) \subseteq SurveyedSteps(j) \cup {s}
    BY <2>1, <2>2 DEF SurveyedSteps, Surveyed
  <2>5. context.inputs_match => j.records[s].contract.input_fingerprints = prints
    BY DEF Context, SameInputs
  <2>6. j.contexts \in [StepId -> RecoveryContext \cup {Null}] /\ j.inputs \in InputPrints
    BY <1>0 DEF Job, Contexts
  <2>7. SawInputs(j, SurveyedSteps(j))
    BY <2>1 DEF Comparing, RepairCompares
  <2> HIDE DEF s, context, prints, j
  <2> QED
    BY <2>1, <2>3, <2>4, <2>5, <2>6, <2>7 DEF SawInputs, InputPrints
<1> QED
  BY <1>1, <1>2, <1>3, Surveys

(* What a repair decides to reuse has the inputs it has seen. *)
LEMMA EvaluateComparesStep ==
    ASSUME TypeOK, Course, Grounding, Comparing, [Next]_vars, NEW p \in Proc,
           pc'[p] = "evaluate"
    PROVE  /\ SawInputs(job'[p], Steps(Book[job'[p].runbook]))
           /\ ReusesWhatFits(job'[p].decisions, job'[p].records, job'[p].inputs,
                             Evaluated(job'[p]))
<1>0. job[p] \in Job /\ LocalTypeOK
  BY JobFacts DEF TypeOK
<1> DEFINE j == job[p]
           SameRepair == /\ job'[p].records = j.records /\ job'[p].inputs = j.inputs
                         /\ job'[p].runbook = j.runbook /\ job'[p].contexts = j.contexts
<1>1. CASE Stays(p)
  BY <1>1 DEF Stays, Comparing, RepairCompares
<1>2. CASE SurveyDone(p)
  <2>1. SameRepair /\ job'[p].position = 1 /\ pc[p] = "survey"
    BY <1>0, <1>2 DEF SurveyDone, LocalTypeOK, Job
  <2>2. SurveyedSteps(j) = Steps(Book[j.runbook])
    BY <1>2, SurveyedAll
  <2>3. SawInputs(j, Steps(Book[j.runbook]))
    BY <2>1, <2>2 DEF Comparing, RepairCompares
  <2>4. Order(job'[p]) \in Seq(StepId)
    BY <2>1, JobFacts DEF Order
  <2>5. Evaluated(job'[p]) = {}
    BY <2>1, <2>4 DEF Evaluated
  <2> QED
    BY <2>1, <2>3, <2>5 DEF SawInputs, ReusesWhatFits
<1>3. CASE EvaluateNext(p)
  <2> DEFINE s == CurrentStep(j)
             d == EvaluateStep(Current(j), j.records[s], j.contexts[s], j.decisions)
  <2>1. j.position \in DOMAIN Order(j)
    BY <1>3, JobFacts DEF EvaluateNext, Course, OnCourse
  <2>2. /\ job'[p].position = j.position + 1
        /\ job'[p].decisions = [j.decisions EXCEPT ![s] = d]
        /\ SameRepair /\ pc[p] = "evaluate"
    BY <1>0, <1>3 DEF EvaluateNext, LocalTypeOK, Job
  <2>3. Order(job'[p]) = Order(j) /\ Order(j) \in Seq(StepId)
    BY <2>2, JobFacts DEF Order
  <2>4. Evaluated(job'[p]) \subseteq Evaluated(j) \cup {s} /\ Evaluated(j) \subseteq StepId
    BY <2>1, <2>2, <2>3, JobFacts DEF Evaluated, CurrentStep
  <2>5. s \in StepId /\ s \in Steps(Book[j.runbook])
    BY <2>1, AtAStep
  <2>6. /\ SawInputs(j, Steps(Book[j.runbook]))
        /\ ReusesWhatFits(j.decisions, j.records, j.inputs, Evaluated(j))
        /\ Compared(j, Steps(Book[j.runbook]))
    BY <2>2 DEF Comparing, RepairCompares, Grounding, RepairIsSound
  <2>7. d.decision = "REUSE" =>
           /\ j.records[s] # Null /\ j.records[s].status = "SUCCEEDED"
           /\ j.records[s].contract.input_fingerprints = j.inputs[s]
    BY <2>5, <2>6, EvaluateStepSound DEF SawInputs, Compared
  <2>8. j.decisions \in [StepId -> RepairDecision \cup {Null}]
    BY <1>0 DEF Job, Decisions
  <2> HIDE DEF d, s, j
  <2> QED
    BY <2>2, <2>4, <2>5, <2>6, <2>7, <2>8 DEF SawInputs, ReusesWhatFits
<1> QED
  BY <1>1, <1>2, <1>3, Evaluates

(* What a plan reuses has the inputs its survey has seen. *)
LEMMA PlansFitStep ==
    ASSUME TypeOK, Course, Ownership, Grounding, Comparing, [Next]_vars,
           NEW k \in DOMAIN plans'
    PROVE  PlanFits(plans[k], history.surveys[k])'
<1>0. /\ plans \in Seq(PlanRow) /\ history \in History
      /\ Len(history.surveys) = Len(plans) /\ history.surveys \in Seq(Survey)
  BY DEF TypeOK, StoreTypeOK, WorldTypeOK, History
<1>1. ASSUME NEW plan, NEW survey, PlanFits(plan, survey) PROVE PlanFits(plan, survey)'
  BY <1>1, BackedKept DEF PlanFits, ReusesWhatFits
<1>2. ASSUME NEW plan, NEW survey, PlanFits(plan, survey),
             plans'[k] = plan, history'.surveys[k] = survey
      PROVE  PlanFits(plans[k], history.surveys[k])'
  <2>1. PlanFits(plan, survey)'
    BY <1>1, <1>2
  <2> QED
    BY <1>2, <2>1 DEF PlanFits, Backed, MadeBy, ReusesWhatFits
<1>3. ASSUME NEW i \in DOMAIN plans,
             plans'[i] = plans[i], history'.surveys[i] = history.surveys[i], i = k
      PROVE  PlanFits(plans[k], history.surveys[k])'
  <2>1. PICK plan, survey : plan = plans[i] /\ survey = history.surveys[i]
    OBVIOUS
  <2> QED
    BY <1>2, <1>3, <2>1 DEF Comparing
<1>4. CASE plans' = plans /\ history'.surveys = history.surveys
  BY <1>3, <1>4
<1>5. ASSUME NEW p \in Proc, SavePlan(p)
      PROVE  PlanFits(plans[k], history.surveys[k])'
  <2> DEFINE j == job[p]
             new == [run_id |-> j.run_id, source_runbook_digest |-> RunbookDigest(j.runbook),
                     decisions |-> j.decisions]
             seen == [inputs |-> j.inputs, records |-> j.records, mark |-> j.mark]
  <2>1. plans' = Append(plans, new) /\ history'.surveys = Append(history.surveys, seen)
    BY <1>0, <1>5 DEF SavePlan, SaveRepairPlan, History
  <2>2. Evaluated(j) = Steps(Book[RunbookDigest(j.runbook)])
    BY <1>5, SavedOrder, JobFacts, DigestFacts
  <2>3. PlanFits(new, seen)
    BY <1>5, <2>2 DEF SavePlan, Grounding, RepairIsSound, Comparing, RepairCompares, PlanFits
  <2>4. PICK plan, survey : plan = new /\ survey = seen
    OBVIOUS
  <2> HIDE DEF new, seen
  <2>5. CASE k \in DOMAIN plans
    <3>1. plans'[k] = plans[k] /\ history'.surveys[k] = history.surveys[k]
      BY <1>0, <2>1, <2>5
    <3> QED
      BY <1>3, <2>5, <3>1
  <2>6. CASE k \notin DOMAIN plans
    <3>1. plans'[k] = plan /\ history'.surveys[k] = survey
      BY <1>0, <2>1, <2>4, <2>6
    <3> QED
      BY <1>2, <2>3, <2>4, <3>1
  <2> QED
    BY <2>5, <2>6
<1> QED
  BY <1>4, <1>5, HistoryStep

(* Every step keeps the comparisons. *)
LEMMA ComparingStep ==
    ASSUME TypeOK, Course, Ownership, Grounding, Comparing, [Next]_vars
    PROVE  Comparing'
<1>1. ASSUME NEW p \in Proc PROVE RepairCompares(p)'
  <2>1. /\ SurveyedSteps(job[p])' = SurveyedSteps(job'[p])
        /\ Evaluated(job[p])' = Evaluated(job'[p])
    BY DEF SurveyedSteps, Evaluated, Order, Declared
  <2>2. pc'[p] = "survey" => SawInputs(job[p], SurveyedSteps(job[p]))'
    BY <2>1, SurveyComparesStep DEF SawInputs
  <2>3. pc'[p] = "evaluate" =>
           /\ SawInputs(job[p], Steps(Book[job[p].runbook]))'
           /\ ReusesWhatFits(job[p].decisions, job[p].records, job[p].inputs,
                             Evaluated(job[p]))'
    BY <2>1, EvaluateComparesStep DEF SawInputs, ReusesWhatFits
  <2> QED
    BY <2>2, <2>3 DEF RepairCompares
<1> QED
  BY <1>1, PlansFitStep DEF Comparing

LEMMA InitComparing == Init => Comparing
  BY DEF Init, StoreInit, Comparing, RepairCompares

(* What a plan reuses was recorded with the inputs its survey has seen. *)
LEMMA ComparingCorrect ==
    Spec => [](TypeOK /\ Course /\ Ownership /\ Grounding /\ Comparing)
<1>1. Init => Comparing
  BY InitComparing
<1>2. TypeOK /\ Course /\ Ownership /\ Grounding /\ Comparing /\ [Next]_vars => Comparing'
  BY ComparingStep
<1> QED
  BY <1>1, <1>2, GroundingCorrect, PTL DEF Spec

(* Whatever crashes, revisions, edits, old plans and other processes come  *)
(* in between, a plan reuses a step only if an attempt of it has succeeded *)
(* in that run with the command and the policy of the plan's run book and  *)
(* on the inputs the repair has seen; and unless a file was written while  *)
(* its command ran, these are the inputs the command has read.             *)
THEOREM ReuseHolds == Spec => []ReuseNeedsSuccess
<1>1. Ownership /\ Grounding /\ Comparing /\ Reading => ReuseNeedsSuccess
  <2> SUFFICES ASSUME Ownership, Grounding, Comparing, Reading, NEW k \in DOMAIN plans,
                      NEW s \in Steps(PlanBook(k)), Decided(k, s) = "REUSE"
               PROVE  \E a \in DOMAIN attempts : Vouches(a, k, s)
    BY DEF ReuseNeedsSuccess
  <2> DEFINE row == history.surveys[k].records[s]
             r == plans[k].run_id
  <2>1. runs[r].runbook_digest = plans[k].source_runbook_digest
    BY DEF Grounding, PlansAreSound, SoundPlan, Sound, Decided, PlanBook
  <2>2. /\ row # Null /\ row.status = "SUCCEEDED"
        /\ row.contract.input_fingerprints = history.surveys[k].inputs[s]
    BY DEF Comparing, PlanFits, ReusesWhatFits, Decided, PlanBook
  <2>3. PICK a \in DOMAIN attempts : MadeBy(a, r, s, row)
    BY <2>2 DEF Comparing, PlanFits, Backed, Steps
  <2>4. DefinitionOf(a) = PlanBook(k).steps[s]
    BY <2>1, <2>3 DEF MadeBy, DefinitionOf, PlanBook
  <2>5. /\ attempts[a].contract.command_digest = CommandDigest(PlanBook(k).steps[s])
        /\ attempts[a].contract.policy_digest = PolicyDigest(PlanBook(k).steps[s])
    BY <2>4 DEF Ownership, ContractsOfRun, DefinitionOf
  <2>6. attempts[a].contract.input_fingerprints = history.surveys[k].inputs[s]
    BY <2>2, <2>3 DEF MadeBy
  <2>7. KeepsInputs(PlanBook(k).steps[s]) => WasRead(a, history.surveys[k].inputs[s])
    BY <2>3, <2>4, <2>6 DEF MadeBy, Reading, SuccessesHaveRead
  <2> QED
    BY <2>3, <2>5, <2>6, <2>7 DEF Vouches, MadeBy, KeepsInputs, WasRead
<1> QED
  BY <1>1, ComparingCorrect, ReadingCorrect, PTL

=============================================================================
