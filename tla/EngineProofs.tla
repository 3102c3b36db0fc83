----------------------------- MODULE EngineProofs -----------------------------
(***************************************************************************)
(* The types and the course of the processes are an inductive invariant of *)
(* Engine, for every run book, number of processes and budget; and lemmas  *)
(* on single steps, for the modules that prove the other properties.       *)
(***************************************************************************)
EXTENDS EngineInvariants, FiniteSetTheorems, TLAPS

(* Every version of the file is a valid run book. *)
LEMMA BookFacts ==
    ASSUME NEW v \in Version
    PROVE  /\ Book[v] \in Runbook
           /\ Book[v].order \in Seq(StepId)
           /\ Book[v].declared \in Seq(StepId)
           /\ Steps(Book[v]) \subseteq StepId
           /\ \A s \in Steps(Book[v]) : Book[v].steps[s] \in StepDefinition
           /\ \A i \in DOMAIN Book[v].order : Book[v].order[i] \in Steps(Book[v])
           /\ \A i \in DOMAIN Book[v].declared : Book[v].declared[i] \in Steps(Book[v])
           /\ \A s \in Steps(Book[v]) : \E i \in DOMAIN Book[v].order : Book[v].order[i] = s
<1>1. Book[v] \in Runbook /\ Valid(Book[v])
  BY BookAssumption
<1>2. Book[v].steps \in [StepId -> StepDefinition \cup {Null}]
  BY <1>1 DEF Runbook
<1>3. \A s \in Steps(Book[v]) : Book[v].steps[s] \in StepDefinition
  BY <1>2 DEF Steps
<1> QED
  BY <1>1, <1>3 DEF Runbook, Valid, Enumerates, Steps

(* Versions with the same digest define the same steps. *)
LEMMA DigestFacts ==
    ASSUME NEW v \in Version
    PROVE  /\ RunbookDigest(v) \in Version
           /\ Book[RunbookDigest(v)].steps = Book[v].steps
           /\ Steps(Book[RunbookDigest(v)]) = Steps(Book[v])
<1> DEFINE P(w) == w \in Version /\ DigestedFields(Book[w]) = DigestedFields(Book[v])
<1>1. P(v)
  OBVIOUS
<1>2. RunbookDigest(v) = CHOOSE w \in Version : DigestedFields(Book[w]) = DigestedFields(Book[v])
  BY DEF RunbookDigest
<1>3. /\ RunbookDigest(v) \in Version 
      /\ DigestedFields(Book[RunbookDigest(v)]) = DigestedFields(Book[v])
  BY <1>1, <1>2
<1> QED
  BY <1>3 DEF DigestedFields, Steps

(* A process without an invocation has well-typed locals. *)
LEMMA NoJobType == NoJob \in Job
  BY VersionAssumption DEF NoJob, Job, EmptyMap, Decisions, Statuses, Seen, StepStatus,
     AttemptResult, StepTable, Contexts, InputPrints

(* The types hold at the start. *)
LEMMA InitType == Init => TypeOK
<1> SUFFICES ASSUME Init PROVE TypeOK
  OBVIOUS
<1>1. files \in [Path -> Int] /\ clock \in Nat
  BY DEF Init, WorkspaceInit, Missing
<1>2. job \in [Proc -> Job]
  BY NoJobType DEF Init
<1>3. budget \in [Event -> Nat]
  BY BudgetAssumption DEF Init
<1> QED
  BY <1>1, <1>2, <1>3 DEF Init, StoreInit, TypeOK, StoreTypeOK, LocalTypeOK, WorldTypeOK,
     History, Label, Outcome

(* Replacing one element keeps a sequence in its type and length. *)
LEMMA SeqUpdate ==
    ASSUME NEW S, NEW q \in Seq(S), NEW i, NEW x \in S
    PROVE  [q EXCEPT ![i] = x] \in Seq(S) /\ Len([q EXCEPT ![i] = x]) = Len(q)
<1>1. CASE i \in DOMAIN q
  BY <1>1
<1>2. CASE i \notin DOMAIN q
  <2>1. [q EXCEPT ![i] = x] = q
    BY <1>2
  <2> QED
    BY <2>1
<1> QED
  BY <1>1, <1>2

-----------------------------------------------------------------------------
(* The operations of the store keep its types. *)

(* create_run *)
LEMMA CreateRunType ==
    ASSUME StoreTypeOK, NEW digest \in Version, NEW ids, CreateRun(digest, ids)
    PROVE  StoreTypeOK'
<1>1. PendingRow \in StepRow
  BY DEF PendingRow, StepRow, StepStatus
<1>2. [s \in StepId |-> IF s \in ids THEN PendingRow ELSE Null] \in StepTable
  BY <1>1 DEF StepTable
<1>3. Transition(Len(runs) + 1, Null, Null, "RUNNING", "RUN_CREATED") \in TransitionRow
  BY DEF Transition, TransitionRow, StepStatus, Reason, StoreTypeOK
<1> QED
  BY <1>2, <1>3 DEF StoreTypeOK, CreateRun, RunRow

(* The SELECT of a row that is there. *)
LEMMA SelectType ==
    ASSUME StoreTypeOK, NEW r \in DOMAIN runs, NEW s \in StepId, steps[r][s] # Null
    PROVE  /\ steps[r] \in StepTable
           /\ steps[r][s] \in StepRow
           /\ Select(r, s) \in Seen
  BY DEF StoreTypeOK, StepTable, Select, Seen, StepRow

(* Replacing a row of the step table. *)
LEMMA SetRowType ==
    ASSUME StoreTypeOK, NEW r \in DOMAIN runs, NEW s \in StepId, NEW row \in StepRow
    PROVE  LET new == [steps EXCEPT ![r][s] = row]
           IN  new \in Seq(StepTable) /\ Len(new) = Len(steps)
<1>1. [steps[r] EXCEPT ![s] = row] \in StepTable
  BY DEF StoreTypeOK, StepTable
<1> QED
  BY <1>1 DEF StoreTypeOK

(* The row of a step whose attempt starts. *)
LEMMA StartedRowType ==
    ASSUME NEW row \in StepRow, NEW seen \in Seen, NEW attempt \in Nat,
           NEW contract \in StepContract
    PROVE  StartedRow(row, seen, attempt, contract) \in StepRow
<1>1. seen.attempt_count + 1 \in Nat /\ "RUNNING" \in StepStatus
  BY DEF Seen, StepStatus
<1> HIDE DEF StepContract, StepStatus, FailureKind
<1> QED
  BY <1>1 DEF StartedRow, StepRow

(* The rows of a step and an attempt that end. *)
LEMMA FinishedRowType ==
    ASSUME NEW result \in AttemptResult, NEW contract \in StepContract
    PROVE  /\ \A row \in StepRow : FinishedRow(row, result, contract) \in StepRow
           /\ \A row \in AttemptRow : FinishedRow(row, result, contract) \in AttemptRow
<1>1. result.status \in StepStatus /\ result.failure_kind \in FailureKind \cup {Null}
  BY DEF AttemptResult, StepStatus
<1>2. ASSUME NEW row \in StepRow PROVE FinishedRow(row, result, contract) \in StepRow
  BY <1>1 DEF FinishedRow, StepRow
<1>3. ASSUME NEW row \in AttemptRow PROVE FinishedRow(row, result, contract) \in AttemptRow
  BY <1>1 DEF FinishedRow, AttemptRow
<1> QED
  BY <1>2, <1>3

(* record_step_started *)
LEMMA RecordStepStartedType ==
    ASSUME StoreTypeOK, NEW r \in DOMAIN runs, NEW s \in StepId, steps[r][s] # Null,
           NEW seen \in Seen, NEW contract \in StepContract,
           RecordStepStarted(r, s, seen, contract)
    PROVE  StoreTypeOK'
<1> DEFINE row == StartedRow(steps[r][s], seen, Len(attempts) + 1, contract)
<1>1. row \in StepRow
  <2>1. steps[r][s] \in StepRow
    BY SelectType
  <2>2. Len(attempts) + 1 \in Nat
    BY DEF StoreTypeOK
  <2> QED
    BY <2>1, <2>2, StartedRowType
<1>2. steps' = [steps EXCEPT ![r][s] = row]
  BY DEF RecordStepStarted
<1>3. steps' \in Seq(StepTable) /\ Len(steps') = Len(runs)
  BY <1>1, <1>2, SetRowType DEF StoreTypeOK
<1>4. [run_id |-> r, step_id |-> s, attempt_no |-> seen.attempt_count + 1,
       status |-> "RUNNING", failure_kind |-> Null, contract |-> contract] \in AttemptRow
  BY DEF AttemptRow, Seen, StepStatus, StoreTypeOK
<1>5. Transition(r, s, seen.status, "RUNNING", "ATTEMPT_STARTED") \in TransitionRow
  BY DEF Transition, TransitionRow, Seen, StepStatus, Reason, StoreTypeOK
<1> QED
  BY <1>3, <1>4, <1>5 DEF StoreTypeOK, RecordStepStarted

(* record_step_finished *)
LEMMA RecordStepFinishedType ==
    ASSUME StoreTypeOK, NEW r \in DOMAIN runs, NEW s \in StepId, steps[r][s] # Null,
           NEW attempt, NEW seen \in Seen, NEW result \in AttemptResult,
           NEW contract \in StepContract,
           RecordStepFinished(r, s, attempt, seen, result, contract)
    PROVE  StoreTypeOK' /\ Len(attempts') = Len(attempts)
<1>1. FinishedRow(steps[r][s], result, contract) \in StepRow
  BY SelectType, FinishedRowType
<1>2. steps' = [steps EXCEPT ![r][s] = FinishedRow(steps[r][s], result, contract)]
  BY DEF RecordStepFinished
<1>3. steps' \in Seq(StepTable) /\ Len(steps') = Len(runs)
  BY <1>1, <1>2, SetRowType DEF StoreTypeOK
<1>4. ASSUME NEW a \in DOMAIN attempts
      PROVE  FinishedRow(attempts[a], result, contract) \in AttemptRow
  BY FinishedRowType DEF StoreTypeOK
<1>5. attempts' \in Seq(AttemptRow) /\ Len(attempts') = Len(attempts)
  <2> DEFINE row == FinishedRow(attempts[attempt], result, contract)
  <2>1. attempts' = [attempts EXCEPT ![attempt] = row]
    BY DEF RecordStepFinished
  <2>2. CASE attempt \in DOMAIN attempts
    BY <1>4, <2>1, <2>2, SeqUpdate DEF StoreTypeOK
  <2>3. CASE attempt \notin DOMAIN attempts
    <3>1. attempts' = attempts
      BY <2>1, <2>3 DEF StoreTypeOK
    <3> QED
      BY <3>1 DEF StoreTypeOK
  <2> QED
    BY <2>2, <2>3
<1>6. FinishReason(result) \in Reason
  BY DEF FinishReason, Reason, AttemptResult, FailureKind
<1>7. Transition(r, s, seen.status, result.status, FinishReason(result)) \in TransitionRow
  BY <1>6 DEF Transition, TransitionRow, Seen, StepStatus, StoreTypeOK, AttemptResult
<1> QED
  BY <1>3, <1>5, <1>7 DEF StoreTypeOK, RecordStepFinished

(* update_step_status *)
LEMMA UpdateStepStatusType ==
    ASSUME StoreTypeOK, NEW r \in DOMAIN runs, NEW s \in StepId, steps[r][s] # Null,
           NEW seen \in Seen, NEW status \in StepStatus,
           UpdateStepStatus(r, s, seen, status)
    PROVE  StoreTypeOK'
<1>1. [steps[r][s] EXCEPT !.status = status] \in StepRow
  BY SelectType DEF StepRow
<1>2. steps' = [steps EXCEPT ![r][s] = [steps[r][s] EXCEPT !.status = status]]
  BY DEF UpdateStepStatus
<1>3. steps' \in Seq(StepTable) /\ Len(steps') = Len(runs)
  BY <1>1, <1>2, SetRowType DEF StoreTypeOK
<1>4. Transition(r, s, seen.status, status, "DEPENDENCY_STATE") \in TransitionRow
  BY DEF Transition, TransitionRow, Seen, Reason, StoreTypeOK
<1> QED
  BY <1>3, <1>4 DEF StoreTypeOK, UpdateStepStatus

(* finish_run *)
LEMMA FinishRunType ==
    ASSUME StoreTypeOK, NEW r \in DOMAIN runs, NEW status \in {"SUCCEEDED", "FAILED"},
           FinishRun(r, status)
    PROVE  StoreTypeOK'
<1>0. runs[r] \in RunRow
  BY DEF StoreTypeOK
<1>1. [runs[r] EXCEPT !.status = status] \in RunRow
  BY <1>0 DEF RunRow
<1>2. runs' \in Seq(RunRow) /\ Len(runs') = Len(runs)
  BY <1>1 DEF StoreTypeOK, FinishRun
<1>3. Transition(r, Null, Null, status, "RUN_FINISHED") \in TransitionRow
  BY DEF Transition, TransitionRow, StepStatus, Reason, StoreTypeOK
<1> QED
  BY <1>2, <1>3 DEF StoreTypeOK, FinishRun

(* save_repair_plan *)
LEMMA SaveRepairPlanType ==
    ASSUME StoreTypeOK, NEW r \in Nat, NEW digest \in Version, NEW decisions \in Decisions,
           SaveRepairPlan(r, digest, decisions)
    PROVE  StoreTypeOK' /\ Len(plans') = Len(plans) + 1
  BY DEF StoreTypeOK, SaveRepairPlan, PlanRow

-----------------------------------------------------------------------------
(* Where a process stands. *)

(* The run book a process has read and the loop over it. *)
LEMMA JobFacts ==
    ASSUME TypeOK, NEW p \in Proc
    PROVE  /\ job[p] \in Job
           /\ job[p].runbook \in Version
           /\ job[p].position \in Nat
           /\ Order(job[p]) \in Seq(StepId)
           /\ Declared(job[p]) \in Seq(StepId)
<1>1. job[p] \in Job
  BY DEF TypeOK, LocalTypeOK
<1>2. job[p].runbook \in Version /\ job[p].position \in Nat
  BY <1>1 DEF Job
<1> QED
  BY <1>1, <1>2, BookFacts DEF Order, Declared

(* The step at a position of the loop. *)
LEMMA AtAStep ==
    ASSUME TypeOK, NEW p \in Proc, job[p].position \in DOMAIN Order(job[p])
    PROVE  /\ CurrentStep(job[p]) \in StepId
           /\ CurrentStep(job[p]) \in Steps(Book[job[p].runbook])
           /\ Current(job[p]) \in StepDefinition
  BY JobFacts, BookFacts DEF Order, CurrentStep, Current, Definition

(* A process that works has a row for its step. *)
LEMMA AtARow ==
    ASSUME TypeOK, Course, NEW p \in Proc, Working(p),
           job[p].position \in DOMAIN Order(job[p])
    PROVE  /\ job[p].run_id \in DOMAIN runs
           /\ job[p].run_id \in Nat
           /\ steps[job[p].run_id][CurrentStep(job[p])] # Null
           /\ Select(job[p].run_id, CurrentStep(job[p])) \in Seen
<1>1. CurrentStep(job[p]) \in StepId /\ CurrentStep(job[p]) \in Steps(Book[job[p].runbook])
  BY AtAStep
<1>2. MadeFrom(job[p].run_id, job[p].runbook)
  BY DEF Course, OnCourse
<1>3. Steps(Book[RunbookDigest(job[p].runbook)]) = Steps(Book[job[p].runbook])
  BY JobFacts, DigestFacts
<1>4. job[p].run_id \in DOMAIN runs /\ steps[job[p].run_id][CurrentStep(job[p])] # Null
  BY <1>1, <1>2, <1>3 DEF Course, RowsExist, MadeFrom
<1>5. StoreTypeOK
  BY DEF TypeOK
<1>6. Select(job[p].run_id, CurrentStep(job[p])) \in Seen
  BY <1>1, <1>4, <1>5, SelectType
<1> QED
  BY <1>4, <1>5, <1>6 DEF StoreTypeOK

(* A fingerprint is taken of the paths as they are. *)
LEMMA FingerprintType ==
    ASSUME TypeOK, NEW ps
    PROVE  Fingerprint(ps) \in Fingerprints
  BY DEF TypeOK, WorldTypeOK, Fingerprint, Fingerprints

(* make_contract *)
LEMMA ContractType ==
    ASSUME TypeOK, NEW def \in StepDefinition
    PROVE  MakeContract(def) \in StepContract
<1>1. CommandDigest(def) \in Command /\ PolicyDigest(def) \in PolicyDigests
  BY DEF CommandDigest, PolicyDigest, PolicyDigests, StepDefinition
<1> QED
  BY <1>1, FingerprintType DEF MakeContract, StepContract

(* A run has a number of transitions. *)
LEMMA MarkType ==
    ASSUME TypeOK, NEW r
    PROVE  Mark(r) \in Nat
<1> DEFINE S == {i \in DOMAIN transitions : transitions[i].run_id = r}
<1>1. DOMAIN transitions = 1..Len(transitions) /\ Len(transitions) \in Nat
  BY DEF TypeOK, StoreTypeOK
<1>2. IsFiniteSet(1..Len(transitions))
  BY <1>1, FS_Interval
<1>3. IsFiniteSet(S)
  BY <1>1, <1>2, FS_Subset
<1> QED
  BY <1>3, FS_CardinalityType DEF Mark

(* evaluate_step returns a decision whatever it is given. *)
LEMMA EvaluateStepType ==
    ASSUME NEW def \in StepDefinition, NEW record, NEW context, NEW decided
    PROVE  EvaluateStep(def, record, context, decided) \in RepairDecision
<1>1. RequiresConfirmation(def) \in BOOLEAN
  BY DEF RequiresConfirmation
<1>2. ContractReason(context) \in ReasonCode
  BY DEF ContractReason, ReasonCode
<1>3. EvaluateSuccess(def, context) \in RepairDecision
  BY <1>1, <1>2 DEF EvaluateSuccess, RepairDecision, Decide, OrConfirm, Decision
<1>4. EvaluateFailure(def, record) \in RepairDecision
  BY <1>1 DEF EvaluateFailure, RepairDecision, Decide, OrConfirm, Decision, ReasonCode
<1> QED
  BY <1>1, <1>3, <1>4 DEF EvaluateStep, RepairDecision, Decide, Decision, ReasonCode

(* A comparison yields truth values, with a contract or without. *)
LEMMA ContextType ==
    ASSUME NEW j, NEW s
    PROVE  Context(j, s) \in RecoveryContext
<1>1. AllExist(Fingerprint(Definition(j, s).outputs)) \in BOOLEAN
  BY DEF AllExist
<1> QED
  BY <1>1 DEF Context, RecoveryContext, SameInputs

-----------------------------------------------------------------------------
(* Updates of the local variables. *)

(* The assignments to single locals keep the types. *)
LEMMA JobUpdates ==
    ASSUME NEW j \in Job
    PROVE  /\ \A x \in Nat : [j EXCEPT !.position = x] \in Job
           /\ \A x \in Nat : [j EXCEPT !.attempt_id = x] \in Job
           /\ \A x \in Seen : [j EXCEPT !.seen = x] \in Job
           /\ \A x \in AttemptResult : [j EXCEPT !.result = x] \in Job
           /\ \A x \in StepContract : [j EXCEPT !.contract = x] \in Job
           /\ \A s : \A x \in StepStatus : [j EXCEPT !.statuses[s] = x] \in Job
           /\ \A s : \A x \in RepairDecision : [j EXCEPT !.decisions[s] = x] \in Job
           /\ \A s : \A x \in RecoveryContext : [j EXCEPT !.contexts[s] = x] \in Job
           /\ \A s : \A x \in Fingerprints : [j EXCEPT !.inputs[s] = x] \in Job
<1>1. \A s : \A x \in StepStatus : [j.statuses EXCEPT ![s] = x] \in Statuses
  BY DEF Job, Statuses
<1>2. \A s : \A x \in RepairDecision : [j.decisions EXCEPT ![s] = x] \in Decisions
  BY DEF Job, Decisions
<1>3. \A s : \A x \in RecoveryContext : [j.contexts EXCEPT ![s] = x] \in Contexts
  BY DEF Job, Contexts
<1>4. \A s : \A x \in Fingerprints : [j.inputs EXCEPT ![s] = x] \in InputPrints
  BY DEF Job, InputPrints
<1> QED
  BY <1>1, <1>2, <1>3, <1>4 DEF Job

(* One process changes its locals. *)
LEMMA JobChange ==
    ASSUME LocalTypeOK, NEW p \in Proc, NEW j \in Job, job' = [job EXCEPT ![p] = j]
    PROVE  job' \in [Proc -> Job]
  BY DEF LocalTypeOK

(* A process ends. *)
LEMMA ExitType ==
    ASSUME LocalTypeOK, NEW p \in Proc, NEW result \in Outcome, Exit(p, result)
    PROVE  LocalTypeOK'
  BY NoJobType DEF LocalTypeOK, Exit, Label

(* The loop goes on. *)
LEMMA AdvanceType ==
    ASSUME TypeOK, NEW p \in Proc, NEW status \in StepStatus, Advance(p, status),
           outcome' = outcome
    PROVE  LocalTypeOK'
<1> DEFINE j == [job[p] EXCEPT !.statuses[CurrentStep(job[p])] = status]
           k == [j EXCEPT !.position = job[p].position + 1]
<1>1. job[p] \in Job /\ job[p].position + 1 \in Nat
  BY JobFacts
<1>2. k \in Job
  <2>1. j \in Job
    BY <1>1, JobUpdates, Zenon
  <2> HIDE DEF j
  <2> QED
    BY <1>1, <2>1, JobUpdates, Zenon
<1>3. job' = [job EXCEPT ![p] = k]
  BY DEF Advance, TypeOK, LocalTypeOK
<1>4. job' \in [Proc -> Job]
  BY <1>2, <1>3, JobChange, Zenon DEF TypeOK
<1> QED
  BY <1>4 DEF Advance, Goto, TypeOK, LocalTypeOK, Label

(* A process moves on. *)
LEMMA GotoType ==
    ASSUME LocalTypeOK, NEW p \in Proc, NEW label \in Label, Goto(p, label),
           job' \in [Proc -> Job], outcome' = outcome
    PROVE  LocalTypeOK'
  BY DEF LocalTypeOK, Goto

(* A process reads the row of its step. *)
LEMMA SeeRowType ==
    ASSUME TypeOK, Course, NEW p \in Proc, Working(p),
           job[p].position \in DOMAIN Order(job[p])
    PROVE  SeeRow(p) \in [Proc -> Job]
  BY JobFacts, JobUpdates, AtARow DEF SeeRow, TypeOK, LocalTypeOK

(* What is left alone keeps its type. *)
LEMMA UnchangedTypes ==
    ASSUME TypeOK
    PROVE  /\ UNCHANGED store => StoreTypeOK'
           /\ UNCHANGED <<store, workspace, Environment>> => WorldTypeOK' /\ StoreTypeOK'
  BY DEF TypeOK, StoreTypeOK, WorldTypeOK, store, workspace, Environment

-----------------------------------------------------------------------------
(* Every action keeps the types. *)

(* The loop of run and resume. *)
LEMMA LoopTypes ==
    ASSUME TypeOK, Course, NEW p \in Proc,
           \/ StepReuse(p) \/ StepUnconfirmed(p) \/ StepBlocked(p)
           \/ RecordBlocked(p) \/ LoopEnd(p)
    PROVE  TypeOK'
<1>0. StoreTypeOK /\ LocalTypeOK /\ WorldTypeOK
  BY DEF TypeOK
<1>1. CASE StepReuse(p)
  <2>1. job' \in [Proc -> Job]
    <3> DEFINE k == [job[p] EXCEPT !.position = job[p].position + 1]
    <3>1. k \in Job
      BY JobFacts, JobUpdates
    <3>2. job' = [job EXCEPT ![p] = k]
      BY <1>1 DEF StepReuse
    <3> QED
      BY <1>0, <3>1, <3>2, JobChange
  <2> QED
    BY <1>1, <2>1, UnchangedTypes DEF StepReuse, TypeOK, LocalTypeOK
<1>2. CASE StepUnconfirmed(p)
  BY <1>0, <1>2, UnchangedTypes, ExitType DEF StepUnconfirmed, TypeOK, Outcome
<1>3. CASE StepBlocked(p)
  <2>1. job[p].position \in DOMAIN Order(job[p]) /\ Working(p)
    BY <1>3, JobFacts DEF StepBlocked, AtStep, Working, Course, OnCourse
  <2>2. SeeRow(p) \in [Proc -> Job]
    BY <2>1, SeeRowType
  <2> QED
    BY <1>0, <1>3, <2>2, UnchangedTypes, GotoType DEF StepBlocked, TypeOK, Label
<1>4. CASE RecordBlocked(p)
  <2>1. job[p].position \in DOMAIN Order(job[p]) /\ Working(p)
    BY <1>4 DEF RecordBlocked, Working, Course, OnCourse
  <2>2. job[p].seen \in Seen /\ "BLOCKED" \in StepStatus
    BY JobFacts DEF Job, StepStatus
  <2>3. StoreTypeOK'
    BY <1>0, <1>4, <2>1, <2>2, AtAStep, AtARow, UpdateStepStatusType DEF RecordBlocked
  <2>4. LocalTypeOK'
    BY <1>4, <2>2, AdvanceType DEF RecordBlocked
  <2> QED
    BY <1>0, <1>4, <2>3, <2>4
       DEF RecordBlocked, TypeOK, WorldTypeOK, UpdateStepStatus, workspace, Environment
<1>5. CASE LoopEnd(p)
  <2>1. job[p].run_id \in DOMAIN runs
    BY <1>5 DEF LoopEnd, Working, Course, OnCourse, MadeFrom
  <2>2. StoreTypeOK'
    BY <1>0, <1>5, <2>1, FinishRunType DEF LoopEnd, FinalStatus
  <2>3. LocalTypeOK'
    BY <1>0, <1>5, ExitType DEF LoopEnd, Outcome
  <2>4. history' \in History /\ history'.read = history.read /\ history'.surveys = history.surveys
    <3> DEFINE end == [run_id |-> job[p].run_id, mark |-> Mark(job[p].run_id) + 1]
    <3>1. history \in History /\ end \in [run_id : Nat, mark : Nat]
      BY MarkType, JobFacts DEF TypeOK, WorldTypeOK, Job
    <3>2. \E S \in {history.settled, history.settled \cup {end}} :
             history' = [history EXCEPT !.settled = S]
      BY <1>5 DEF LoopEnd
    <3> HIDE DEF end
    <3> QED
      BY <3>1, <3>2 DEF History
  <2>5. UNCHANGED <<attempts, plans, files, clock, bookfile, children, budget>>
    BY <1>5 DEF LoopEnd, FinishRun, workspace
  <2>6. WorldTypeOK'
    BY <2>4, <2>5 DEF TypeOK, WorldTypeOK
  <2> QED
    BY <2>2, <2>3, <2>6 DEF TypeOK
<1> QED
  BY <1>1, <1>2, <1>3, <1>4, <1>5

(* A command ends without a failure or with one. *)
LEMMA ResultType == \A kind \in FailureKind \cup {Null} : Result(kind) \in AttemptResult
  BY DEF Result, AttemptResult

(* _execute_step *)
LEMMA AttemptTypes ==
    ASSUME TypeOK, Course, NEW p \in Proc,
           \/ ObserveBefore(p) \/ ObserveRejected(p) \/ SelectStarted(p) \/ RecordStarted(p)
           \/ Spawn(p) \/ SpawnError(p)
           \/ ObserveAfter(p) \/ SelectFinished(p) \/ RecordFinished(p)
    PROVE  TypeOK'
<1>0. StoreTypeOK /\ LocalTypeOK /\ WorldTypeOK
  BY DEF TypeOK
<1>a. AtStep(p) \/ Executing(p) => job[p].position \in DOMAIN Order(job[p]) /\ Working(p)
  BY JobFacts DEF AtStep, Working, Course, OnCourse
<1>b. Executing(p) => job[p].contract \in StepContract
  BY JobFacts DEF Course, OnCourse, Job
<1>c. /\ job[p] \in Job /\ job[p].seen \in Seen /\ job[p].result \in AttemptResult
      /\ job[p].attempt_id \in Nat
  BY JobFacts DEF Job
<1>1. CASE ObserveBefore(p)
  <2>1. MakeContract(Current(job[p])) \in StepContract
    BY <1>1, <1>a, AtAStep, ContractType DEF ObserveBefore
  <2>2. job' \in [Proc -> Job]
    BY <1>0, <1>1, <1>c, <2>1, JobUpdates DEF ObserveBefore, LocalTypeOK
  <2> QED
    BY <1>0, <1>1, <2>2, UnchangedTypes, GotoType DEF ObserveBefore, TypeOK, Label
<1>2. CASE ObserveRejected(p)
  BY <1>0, <1>2, UnchangedTypes, ExitType DEF ObserveRejected, TypeOK, Outcome
<1>3. CASE SelectStarted(p)
  <2>1. SeeRow(p) \in [Proc -> Job]
    BY <1>3, <1>a, SeeRowType DEF SelectStarted, Executing
  <2> QED
    BY <1>0, <1>3, <2>1, UnchangedTypes, GotoType DEF SelectStarted, TypeOK, Label
<1>4. CASE RecordStarted(p)
  <2>1. Executing(p)
    BY <1>4 DEF RecordStarted, Executing
  <2>2. StoreTypeOK'
    BY <1>0, <1>4, <1>a, <1>b, <1>c, <2>1, AtAStep, AtARow, RecordStepStartedType
       DEF RecordStarted
  <2>3. Len(attempts) + 1 \in Nat
    BY <1>0 DEF StoreTypeOK
  <2>4. job' \in [Proc -> Job]
    BY <1>0, <1>4, <1>c, <2>3, JobUpdates DEF RecordStarted, LocalTypeOK
  <2>5. LocalTypeOK'
    BY <1>0, <1>4, <2>4, GotoType DEF RecordStarted, Label
  <2>6. history' \in History /\ Len(history'.read) = Len(attempts')
    <3>1. /\ Append(history.read, Null) \in Seq(Fingerprints \cup {Null})
          /\ Len(Append(history.read, Null)) = Len(history.read) + 1
      <4>1. history.read \in Seq(Fingerprints \cup {Null})
        BY <1>0 DEF WorldTypeOK, History
      <4> QED
        BY <4>1
    <3>2. history' = [history EXCEPT !.read = Append(history.read, Null)]
      BY <1>4 DEF RecordStarted
    <3>3. Len(attempts') = Len(attempts) + 1
      BY <1>0, <1>4 DEF RecordStarted, RecordStepStarted, StoreTypeOK
    <3> QED
      BY <1>0, <3>1, <3>2, <3>3 DEF WorldTypeOK, History
  <2> QED
    BY <1>0, <1>4, <2>2, <2>5, <2>6
       DEF RecordStarted, TypeOK, WorldTypeOK, RecordStepStarted, workspace, History
<1>5. CASE Spawn(p)
  <2>1. Current(job[p]) \in StepDefinition
    BY <1>5, <1>a, AtAStep DEF Spawn, Executing
  <2>2. Fingerprint(Current(job[p]).inputs) \in Fingerprints
    BY FingerprintType
  <2>3. history' \in History /\ Len(history'.read) = Len(history.read)
    <3> DEFINE read == [history.read EXCEPT ![job[p].attempt_id] =
                           Fingerprint(Current(job[p]).inputs)]
    <3>1. read \in Seq(Fingerprints \cup {Null}) /\ Len(read) = Len(history.read)
      <4> DEFINE S == Fingerprints \cup {Null}
                 q == history.read
                 x == Fingerprint(Current(job[p]).inputs)
      <4>1. q \in Seq(S) /\ x \in S
        BY <1>0, <2>2 DEF WorldTypeOK, History
      <4> HIDE DEF S, q, x
      <4>2. \A i : [q EXCEPT ![i] = x] \in Seq(S) /\ Len([q EXCEPT ![i] = x]) = Len(q)
        BY <4>1, SeqUpdate
      <4> QED
        BY <4>2 DEF S, q, x
    <3>2. history' = [history EXCEPT !.read = read]
      BY <1>5 DEF Spawn
    <3> HIDE DEF read
    <3> QED
      BY <1>0, <3>1, <3>2 DEF WorldTypeOK, History
  <2>4. children' \subseteq [attempt_id : Nat, outputs : SUBSET Path]
    BY <1>0, <1>5, <1>c, <2>1 DEF Spawn, WorldTypeOK, StepDefinition
  <2>5. LocalTypeOK'
    BY <1>0, <1>5, GotoType DEF Spawn, Label, LocalTypeOK
  <2>6. StoreTypeOK'
    BY <1>5, UnchangedTypes DEF Spawn
  <2> QED
    BY <1>0, <1>5, <2>3, <2>4, <2>5, <2>6
       DEF Spawn, TypeOK, WorldTypeOK, store, workspace, History
<1>6. CASE SpawnError(p)
  <2>1. Result("INTERNAL") \in AttemptResult
    BY ResultType DEF FailureKind
  <2>2. job' \in [Proc -> Job]
    BY <1>0, <1>6, <1>c, <2>1, JobUpdates DEF SpawnError, LocalTypeOK
  <2> QED
    BY <1>0, <1>6, <2>2, UnchangedTypes, GotoType DEF SpawnError, TypeOK, Label
<1>7. CASE ObserveAfter(p)
  <2> DEFINE contract == MakeContract(Current(job[p]))
             result == CheckOutputs(job[p].result, contract)
             k == [job[p] EXCEPT !.contract = contract]
  <2>1. contract \in StepContract
    BY <1>7, <1>a, AtAStep, ContractType DEF ObserveAfter, Executing
  <2>2. result \in AttemptResult
    BY <1>c, ResultType DEF CheckOutputs, FailureKind
  <2>3. k \in Job
    BY <1>c, <2>1, JobUpdates
  <2>4. [k EXCEPT !.result = result] \in Job
    <3> HIDE DEF k, result
    <3> QED BY <2>2, <2>3, JobUpdates
  <2>5. job' = [job EXCEPT ![p] = [k EXCEPT !.result = result]]
    BY <1>0, <1>7 DEF ObserveAfter, LocalTypeOK
  <2>6. job' \in [Proc -> Job]
    <3> HIDE DEF k, result
    <3> QED BY <1>0, <2>4, <2>5, JobChange
  <2> QED
    BY <1>0, <1>7, <2>6, UnchangedTypes, GotoType DEF ObserveAfter, TypeOK, Label
<1>8. CASE SelectFinished(p)
  <2>1. SeeRow(p) \in [Proc -> Job]
    BY <1>8, <1>a, SeeRowType DEF SelectFinished, Executing
  <2> QED
    BY <1>0, <1>8, <2>1, UnchangedTypes, GotoType DEF SelectFinished, TypeOK, Label
<1>9. CASE RecordFinished(p)
  <2>1. Executing(p)
    BY <1>9 DEF RecordFinished, Executing
  <2>2. StoreTypeOK' /\ Len(attempts') = Len(attempts)
    BY <1>0, <1>9, <1>a, <1>b, <1>c, <2>1, AtAStep, AtARow, RecordStepFinishedType
       DEF RecordFinished
  <2>3. job[p].result.status \in StepStatus
    BY <1>c DEF AttemptResult, StepStatus
  <2>4. LocalTypeOK'
    BY <1>9, <2>3, AdvanceType DEF RecordFinished
  <2> QED
    BY <1>0, <1>9, <2>2, <2>4
       DEF RecordFinished, TypeOK, WorldTypeOK, RecordStepFinished, workspace, Environment
<1> QED
  BY <1>1, <1>2, <1>3, <1>4, <1>5, <1>6, <1>7, <1>8, <1>9

(* A budgeted event. *)
LEMMA SpendType ==
    ASSUME WorldTypeOK, NEW event \in Event, Spend(event)
    PROVE  budget' \in [Event -> Nat]
<1>1. budget \in [Event -> Nat]
  BY DEF WorldTypeOK
<1>2. budget[event] - 1 \in Nat
  BY <1>1 DEF Spend
<1>3. budget' = [budget EXCEPT ![event] = budget[event] - 1]
  BY DEF Spend
<1> QED
  BY <1>1, <1>2, <1>3

(* The starts of run, resume and repair. *)
LEMMA DispatchTypes ==
    ASSUME TypeOK, NEW p \in Proc,
           \/ \E command \in {"run", "repair", "resume"} : Launch(p, command)
           \/ ExecuteRunbook(p)
           \/ \E k \in DOMAIN plans, r \in DOMAIN runs :
                 \/ \E confirmed \in SUBSET GatedIn(plans[k]) :
                       ResumeRunbook(p, r, k, confirmed)
                 \/ ResumeStale(p, r, k)
           \/ \E r \in DOMAIN runs : RepairLoad(p, r)
    PROVE  TypeOK'
<1>0. StoreTypeOK /\ LocalTypeOK /\ WorldTypeOK
  BY DEF TypeOK
<1>a. job[p] \in Job /\ job[p].runbook \in Version
  BY JobFacts
<1>1. ASSUME NEW command \in {"run", "repair", "resume"}, Launch(p, command) PROVE TypeOK'
  <2>1. [NoJob EXCEPT !.command = command, !.runbook = bookfile] \in Job
    BY <1>0, NoJobType DEF Job, WorldTypeOK
  <2>2. job' \in [Proc -> Job]
    BY <1>0, <1>1, <2>1, JobChange DEF Launch
  <2>3. LocalTypeOK' /\ StoreTypeOK'
    BY <1>0, <1>1, <2>2, UnchangedTypes DEF Launch, Goto, LocalTypeOK, Label, Outcome
  <2>4. budget' \in [Event -> Nat]
    BY <1>0, <1>1, SpendType DEF Launch, Event
  <2> QED
    BY <1>0, <1>1, <2>3, <2>4 DEF Launch, TypeOK, WorldTypeOK, store, workspace
<1>2. CASE ExecuteRunbook(p)
  <2> DEFINE v == job[p].runbook
  <2>1. StoreTypeOK'
    BY <1>0, <1>2, <1>a, DigestFacts, CreateRunType DEF ExecuteRunbook
  <2>2. EveryStep(v, "PENDING") \in Statuses
    BY DEF EveryStep, Statuses, StepStatus
  <2>3. [job[p] EXCEPT !.run_id = Len(runs) + 1, !.statuses = EveryStep(v, "PENDING"),
                       !.fresh = TRUE] \in Job
    <3>1. Len(runs) + 1 \in Nat
      BY <1>0 DEF StoreTypeOK
    <3> QED
      BY <1>a, <2>2, <3>1 DEF Job
  <2>4. job' \in [Proc -> Job]
    BY <1>0, <1>2, <2>3 DEF ExecuteRunbook, LocalTypeOK
  <2>5. LocalTypeOK'
    BY <1>0, <1>2, <2>4, GotoType DEF ExecuteRunbook, Label
  <2> QED
    BY <1>0, <1>2, <2>1, <2>5
       DEF ExecuteRunbook, CreateRun, TypeOK, WorldTypeOK, workspace, Environment
<1>3. ASSUME NEW k \in DOMAIN plans, NEW r \in DOMAIN runs,
             NEW confirmed \in SUBSET GatedIn(plans[k]), ResumeRunbook(p, r, k, confirmed)
      PROVE  TypeOK'
  <2>1. EveryStep(job[p].runbook, "SUCCEEDED") \in Statuses
    BY DEF EveryStep, Statuses, StepStatus
  <2>2. plans[k].decisions \in Decisions /\ confirmed \subseteq StepId /\ r \in Nat
    <3>1. plans[k] \in PlanRow /\ r \in Nat
      BY <1>0 DEF StoreTypeOK
    <3> QED
      BY <3>1 DEF PlanRow, GatedIn, Steps
  <2>3. (Mark(r) = history.surveys[k].mark) \in BOOLEAN
    OBVIOUS
  <2>4. ASSUME NEW fresh \in BOOLEAN
        PROVE  [job[p] EXCEPT !.run_id = r, !.decisions = plans[k].decisions,
                              !.confirmed = confirmed,
                              !.statuses = EveryStep(job[p].runbook, "SUCCEEDED"),
                              !.fresh = fresh] \in Job
    BY <1>a, <2>1, <2>2 DEF Job
  <2>5. job' \in [Proc -> Job]
    BY <1>0, <1>3, <2>3, <2>4 DEF ResumeRunbook, LocalTypeOK
  <2> QED
    BY <1>0, <1>3, <2>5, UnchangedTypes, GotoType DEF ResumeRunbook, TypeOK, Label
<1>4. ASSUME NEW k \in DOMAIN plans, NEW r \in DOMAIN runs, ResumeStale(p, r, k)
      PROVE  TypeOK'
  BY <1>0, <1>4, UnchangedTypes, ExitType DEF ResumeStale, TypeOK, Outcome
<1>5. ASSUME NEW r \in DOMAIN runs, RepairLoad(p, r) PROVE TypeOK'
  <2>1. steps[r] \in StepTable /\ Mark(r) \in Nat /\ r \in Nat
    BY <1>0, MarkType DEF StoreTypeOK
  <2>2. [job[p] EXCEPT !.run_id = r, !.records = steps[r], !.mark = Mark(r)] \in Job
    BY <1>a, <2>1 DEF Job
  <2>3. job' \in [Proc -> Job]
    BY <1>0, <1>5, <2>2 DEF RepairLoad, LocalTypeOK
  <2> QED
    BY <1>0, <1>5, <2>3, UnchangedTypes, GotoType DEF RepairLoad, TypeOK, Label
<1> QED
  BY <1>1, <1>2, <1>3, <1>4, <1>5

(* build_repair_plan *)
LEMMA RepairTypes ==
    ASSUME TypeOK, Course, NEW p \in Proc,
           \/ SurveyStep(p) \/ SurveyFails(p) \/ SurveyDone(p) \/ EvaluateNext(p) \/ SavePlan(p)
    PROVE  TypeOK'
<1>0. StoreTypeOK /\ LocalTypeOK /\ WorldTypeOK
  BY DEF TypeOK
<1>a. job[p] \in Job /\ job[p].runbook \in Version /\ job[p].position + 1 \in Nat
  BY JobFacts
<1>1. CASE SurveyStep(p)
  <2> DEFINE s == Surveyed(job[p])
             context == Context(job[p], s)
             prints == Fingerprint(Definition(job[p], s).inputs)
             j == [job[p] EXCEPT !.contexts[s] = context]
             k == [j EXCEPT !.inputs[s] = prints]
             l == [k EXCEPT !.position = job[p].position + 1]
  <2>1. context \in RecoveryContext /\ prints \in Fingerprints
    BY ContextType, FingerprintType
  <2>2. j \in Job
    BY <1>a, <2>1, JobUpdates, Zenon
  <2>3. k \in Job
    <3> HIDE DEF j, prints
    <3> QED BY <2>1, <2>2, JobUpdates, Zenon
  <2>4. l \in Job
    <3> HIDE DEF k
    <3> QED BY <1>a, <2>3, JobUpdates, Zenon
  <2>5. job' = [job EXCEPT ![p] = l]
    BY <1>0, <1>1 DEF SurveyStep, LocalTypeOK
  <2>6. job' \in [Proc -> Job]
    <3> HIDE DEF l
    <3> QED BY <1>0, <2>4, <2>5, JobChange
  <2> QED
    BY <1>0, <1>1, <2>6, UnchangedTypes DEF SurveyStep, TypeOK, LocalTypeOK
<1>2. CASE SurveyFails(p)
  BY <1>0, <1>2, UnchangedTypes, ExitType DEF SurveyFails, TypeOK, Outcome
<1>3. CASE SurveyDone(p)
  <2>1. [job[p] EXCEPT !.position = 1] \in Job
    BY <1>a, JobUpdates
  <2>2. job' \in [Proc -> Job]
    BY <1>0, <1>3, <2>1 DEF SurveyDone, LocalTypeOK
  <2> QED
    BY <1>0, <1>3, <2>2, UnchangedTypes, GotoType DEF SurveyDone, TypeOK, Label
<1>4. CASE EvaluateNext(p)
  <2> DEFINE s == CurrentStep(job[p])
             d == EvaluateStep(Current(job[p]), job[p].records[s], job[p].contexts[s],
                               job[p].decisions)
             j == [job[p] EXCEPT !.decisions[s] = d]
             k == [j EXCEPT !.position = job[p].position + 1]
  <2>1. job[p].position \in DOMAIN Order(job[p])
    BY <1>4, JobFacts DEF EvaluateNext, Course, OnCourse
  <2>2. d \in RepairDecision
    BY <2>1, AtAStep, EvaluateStepType
  <2>3. j \in Job
    <3> HIDE DEF d
    <3> QED BY <1>a, <2>2, JobUpdates, Zenon
  <2>4. k \in Job
    <3> HIDE DEF j
    <3> QED BY <1>a, <2>3, JobUpdates, Zenon
  <2>5. job' = [job EXCEPT ![p] = k]
    BY <1>0, <1>4 DEF EvaluateNext, LocalTypeOK
  <2>6. job' \in [Proc -> Job]
    <3> HIDE DEF k
    <3> QED BY <1>0, <2>4, <2>5, JobChange
  <2> QED
    BY <1>0, <1>4, <2>6, UnchangedTypes DEF EvaluateNext, TypeOK, LocalTypeOK
<1>5. CASE SavePlan(p)
  <2> DEFINE survey == [inputs |-> job[p].inputs, records |-> job[p].records,
                        mark |-> job[p].mark]
  <2>1. /\ job[p].run_id \in Nat /\ job[p].decisions \in Decisions
        /\ survey \in Survey
    BY <1>a DEF Job, Survey
  <2>2. StoreTypeOK' /\ Len(plans') = Len(plans) + 1
    BY <1>0, <1>5, <1>a, <2>1, DigestFacts, SaveRepairPlanType DEF SavePlan
  <2>3. LocalTypeOK'
    BY <1>0, <1>5, ExitType DEF SavePlan, Outcome
  <2>4. /\ Append(history.surveys, survey) \in Seq(Survey)
        /\ Len(Append(history.surveys, survey)) = Len(history.surveys) + 1
    BY <1>0, <2>1 DEF WorldTypeOK, History
  <2>5. history' = [history EXCEPT !.surveys = Append(history.surveys, survey)]
    BY <1>5 DEF SavePlan
  <2>6. /\ history' \in History /\ Len(history'.surveys) = Len(history.surveys) + 1
        /\ history'.read = history.read
    <3> HIDE DEF survey
    <3> QED BY <1>0, <2>4, <2>5 DEF WorldTypeOK, History
  <2> QED
    BY <1>0, <1>5, <2>2, <2>3, <2>6
       DEF SavePlan, SaveRepairPlan, TypeOK, WorldTypeOK, workspace
<1> QED
  BY <1>1, <1>2, <1>3, <1>4, <1>5

(* Commands that end, kills, edits and revisions. *)
LEMMA WorldTypes ==
    ASSUME TypeOK,
           \/ CommandEnds
           \/ \E p \in Proc : Crash(p)
           \/ \E q \in Path, content \in {Missing, Symlink, clock} : Edit(q, content)
           \/ \E v \in Version : Revise(v)
    PROVE  TypeOK'
<1>0. StoreTypeOK /\ LocalTypeOK /\ WorldTypeOK
  BY DEF TypeOK
<1>a. InFlight \subseteq Nat
  BY JobFacts DEF InFlight, Job
<1>1. ASSUME NEW child \in children, NEW kind \in CommandFailure \cup {Null},
             NEW written \in SUBSET child.outputs, CommandExit(child, kind, written)
      PROVE  TypeOK'
  <2>1. Result(kind) \in AttemptResult
    BY FailureAssumption, ResultType DEF FailureKind
  <2>2. job' \in [Proc -> Job]
    BY <1>0, <1>1, <2>1, JobUpdates DEF CommandExit, LocalTypeOK
  <2>3. LocalTypeOK'
    BY <1>0, <1>1, <2>2 DEF CommandExit, LocalTypeOK, Label
  <2>4. files' \in [Path -> Int] /\ clock' \in Nat
    BY <1>0, <1>1 DEF CommandExit, Write, WorldTypeOK
  <2>5. history' \in History /\ history'.read = history.read
        /\ history'.surveys = history.surveys
    BY <1>0, <1>1, <1>a DEF CommandExit, WorldTypeOK, History
  <2> QED
    BY <1>0, <1>1, <2>3, <2>4, <2>5, UnchangedTypes
       DEF CommandExit, TypeOK, WorldTypeOK, store
<1>2. ASSUME NEW p \in Proc, Crash(p) PROVE TypeOK'
  <2>1. LocalTypeOK' /\ StoreTypeOK'
    BY <1>0, <1>2, ExitType, UnchangedTypes DEF Crash, Outcome
  <2>2. budget' \in [Event -> Nat]
    BY <1>0, <1>2, SpendType DEF Crash, Event
  <2> QED
    BY <1>0, <1>2, <2>1, <2>2 DEF Crash, TypeOK, WorldTypeOK, store, workspace
<1>3. ASSUME NEW q \in Path, NEW content \in {Missing, Symlink, clock}, Edit(q, content)
      PROVE  TypeOK'
  <2>1. files' \in [Path -> Int] /\ clock' \in Nat
    BY <1>0, <1>3 DEF Edit, Put, Missing, Symlink, WorldTypeOK
  <2>2. budget' \in [Event -> Nat]
    BY <1>0, <1>3, SpendType DEF Edit, Event
  <2>3. history' \in History /\ history'.read = history.read
        /\ history'.surveys = history.surveys
    BY <1>0, <1>3, <1>a DEF Edit, WorldTypeOK, History
  <2> QED
    BY <1>0, <1>3, <2>1, <2>2, <2>3, UnchangedTypes
       DEF Edit, TypeOK, LocalTypeOK, WorldTypeOK, store
<1>4. ASSUME NEW v \in Version, Revise(v) PROVE TypeOK'
  <2>1. budget' \in [Event -> Nat]
    BY <1>0, <1>4, SpendType DEF Revise, Event
  <2> QED
    BY <1>0, <1>4, <2>1, UnchangedTypes
       DEF Revise, TypeOK, LocalTypeOK, WorldTypeOK, store, workspace
<1> QED
  BY <1>1, <1>2, <1>3, <1>4 DEF CommandEnds

(* Every step keeps the types. *)
LEMMA TypeStep == TypeOK /\ Course /\ [Next]_vars => TypeOK'
<1> SUFFICES ASSUME TypeOK, Course, [Next]_vars PROVE TypeOK'
  OBVIOUS
<1>1. CASE UNCHANGED vars
  BY <1>1 DEF vars, TypeOK, StoreTypeOK, LocalTypeOK, WorldTypeOK
<1>2. ASSUME NEW p \in Proc, Step(p) PROVE TypeOK'
  BY <1>2, LoopTypes, AttemptTypes, DispatchTypes, RepairTypes DEF Step
<1>3. CASE CommandEnds
  BY <1>3, WorldTypes
<1>4. CASE User
  BY <1>4, DispatchTypes, WorldTypes DEF User
<1> QED
  BY <1>1, <1>2, <1>3, <1>4 DEF Next

-----------------------------------------------------------------------------
(* Every action keeps the processes on course. *)

(* The actions that change a run, a step or an attempt. *)
Records(p) ==
    ExecuteRunbook(p) \/ RecordBlocked(p) \/ LoopEnd(p) \/ RecordStarted(p) \/ RecordFinished(p)

(* Runs, steps and attempts change only where a process records. *)
LEMMA StoreStep ==
    ASSUME [Next]_vars
    PROVE  UNCHANGED <<runs, steps, attempts>> \/ \E p \in Proc : Records(p)
<1>1. ASSUME NEW p \in Proc, Step(p)
      PROVE  UNCHANGED <<runs, steps, attempts>> \/ Records(p)
  <2>1. \/ UNCHANGED store
        \/ Records(p)
        \/ SavePlan(p)
    BY <1>1 DEF Step, Records, ResumeRunbook, ResumeStale, StepReuse, StepUnconfirmed,
       StepBlocked, ObserveBefore, ObserveRejected, SelectStarted, Spawn, SpawnError,
       ObserveAfter, SelectFinished, RepairLoad, SurveyStep, SurveyFails, SurveyDone,
       EvaluateNext
  <2> QED
    BY <2>1 DEF store, SavePlan, SaveRepairPlan
<1>2. ASSUME CommandEnds \/ User PROVE UNCHANGED store
  BY <1>2 DEF CommandEnds, CommandExit, User, Launch, Crash, Edit, Revise
<1> QED
  BY <1>1, <1>2 DEF Next, vars, store

(* No run is lost or changes its run book. *)
LEMMA RunsKept ==
    ASSUME TypeOK, [Next]_vars
    PROVE  \A r \in DOMAIN runs :
              r \in DOMAIN runs' /\ runs'[r].runbook_digest = runs[r].runbook_digest
<1>0. runs \in Seq(RunRow)
  BY DEF TypeOK, StoreTypeOK
<1>1. ASSUME NEW p \in Proc, ExecuteRunbook(p), NEW r \in DOMAIN runs
      PROVE  r \in DOMAIN runs' /\ runs'[r] = runs[r]
  BY <1>0, <1>1 DEF ExecuteRunbook, CreateRun
<1>2. ASSUME NEW p \in Proc, RecordBlocked(p) \/ RecordStarted(p) \/ RecordFinished(p)
      PROVE  runs' = runs
  BY <1>2 DEF RecordBlocked, UpdateStepStatus, RecordStarted, RecordStepStarted,
     RecordFinished, RecordStepFinished
<1>3. ASSUME NEW p \in Proc, LoopEnd(p), NEW r \in DOMAIN runs
      PROVE  r \in DOMAIN runs' /\ runs'[r].runbook_digest = runs[r].runbook_digest
  <2>1. runs' = [runs EXCEPT ![job[p].run_id].status = FinalStatus(job[p])]
    BY <1>3 DEF LoopEnd, FinishRun
  <2>2. runs[r] \in RunRow
    BY <1>0
  <2> QED
    BY <1>0, <2>1, <2>2 DEF RunRow
<1> QED
  BY <1>1, <1>2, <1>3, StoreStep DEF Records

(* Replacing a row leaves no other missing. *)
LEMMA SetRowKeeps ==
    ASSUME TypeOK, RowsExist, NEW r \in DOMAIN runs, NEW s \in StepId, NEW row, row # Null,
           steps' = [steps EXCEPT ![r][s] = row], runs' = runs
    PROVE  RowsExist'
<1> SUFFICES ASSUME NEW q \in DOMAIN runs, NEW t \in Steps(Book[runs[q].runbook_digest])
             PROVE  steps'[q][t] # Null
  BY DEF RowsExist
<1>1. q \in DOMAIN steps /\ steps[q] \in StepTable /\ steps[q][t] # Null
  BY DEF RowsExist, TypeOK, StoreTypeOK
<1>2. t \in StepId
  BY DEF Steps
<1> QED
  BY <1>1, <1>2 DEF StepTable

(* The rows of a run stay. *)
LEMMA RowsStep == TypeOK /\ Course /\ [Next]_vars => RowsExist'
<1> SUFFICES ASSUME TypeOK, Course, [Next]_vars PROVE RowsExist'
  OBVIOUS
<1>0. StoreTypeOK /\ RowsExist
  BY DEF TypeOK, Course
<1>a. ASSUME NEW p \in Proc, RecordBlocked(p) \/ RecordStarted(p) \/ RecordFinished(p)
      PROVE  /\ job[p].run_id \in DOMAIN runs /\ CurrentStep(job[p]) \in StepId
             /\ steps[job[p].run_id][CurrentStep(job[p])] \in StepRow
  <2>1. Working(p) /\ job[p].position \in DOMAIN Order(job[p])
    BY <1>a DEF RecordBlocked, RecordStarted, RecordFinished, Working, Executing, Course,
       OnCourse
  <2> QED
    BY <1>0, <2>1, AtAStep, AtARow, SelectType
<1>1. ASSUME NEW p \in Proc, ExecuteRunbook(p) PROVE RowsExist'
  <2> DEFINE v == job[p].runbook
             row == [runbook_digest |-> RunbookDigest(v), status |-> "RUNNING"]
             table == [s \in StepId |-> IF s \in Steps(Book[v]) THEN PendingRow ELSE Null]
  <2>1. runs' = Append(runs, row) /\ steps' = Append(steps, table)
    BY <1>1 DEF ExecuteRunbook, CreateRun
  <2>2. PendingRow \in StepRow
    BY DEF PendingRow, StepRow, StepStatus
  <2>3. Steps(Book[RunbookDigest(v)]) = Steps(Book[v]) /\ Steps(Book[v]) \subseteq StepId
    BY JobFacts, DigestFacts, BookFacts
  <2>4. \A s \in Steps(Book[v]) : table[s] # Null
    BY <2>2, <2>3, AbsenceAssumption
  <2> HIDE DEF table
  <2>5. ASSUME NEW r \in DOMAIN runs', NEW s \in Steps(Book[runs'[r].runbook_digest])
        PROVE  steps'[r][s] # Null
    <3>1. CASE r = Len(runs) + 1
      BY <1>0, <2>1, <2>3, <2>4, <2>5, <3>1 DEF StoreTypeOK
    <3>2. CASE r \in DOMAIN runs
      BY <1>0, <2>1, <2>5, <3>2 DEF StoreTypeOK, RowsExist
    <3> QED
      BY <1>0, <2>1, <3>1, <3>2 DEF StoreTypeOK
  <2> QED
    BY <2>5 DEF RowsExist
<1>2. ASSUME NEW p \in Proc, RecordBlocked(p) PROVE RowsExist'
  <2> DEFINE row == [steps[job[p].run_id][CurrentStep(job[p])] EXCEPT !.status = "BLOCKED"]
  <2>1. row \in StepRow
    BY <1>2, <1>a DEF StepRow, StepStatus
  <2>2. /\ steps' = [steps EXCEPT ![job[p].run_id][CurrentStep(job[p])] = row]
        /\ runs' = runs
    BY <1>2 DEF RecordBlocked, UpdateStepStatus
  <2> QED
    BY <1>0, <1>2, <1>a, <2>1, <2>2, SetRowKeeps, AbsenceAssumption
<1>3. ASSUME NEW p \in Proc, RecordStarted(p) PROVE RowsExist'
  <2> DEFINE row == StartedRow(steps[job[p].run_id][CurrentStep(job[p])], job[p].seen,
                               Len(attempts) + 1, job[p].contract)
  <2>1. row \in StepRow
    <3>1. job[p].seen \in Seen /\ job[p].contract \in StepContract /\ Len(attempts) + 1 \in Nat
      BY <1>0, <1>3, JobFacts DEF RecordStarted, Job, Course, OnCourse, Executing, StoreTypeOK
    <3> QED
      BY <1>3, <1>a, <3>1, StartedRowType
  <2>2. /\ steps' = [steps EXCEPT ![job[p].run_id][CurrentStep(job[p])] = row]
        /\ runs' = runs
    BY <1>3 DEF RecordStarted, RecordStepStarted
  <2> QED
    BY <1>0, <1>3, <1>a, <2>1, <2>2, SetRowKeeps, AbsenceAssumption
<1>4. ASSUME NEW p \in Proc, RecordFinished(p) PROVE RowsExist'
  <2> DEFINE row == FinishedRow(steps[job[p].run_id][CurrentStep(job[p])], job[p].result,
                                job[p].contract)
  <2>1. row \in StepRow
    <3>1. job[p].result \in AttemptResult /\ job[p].contract \in StepContract
      BY <1>4, JobFacts DEF RecordFinished, Job, Course, OnCourse, Executing
    <3> QED
      BY <1>4, <1>a, <3>1, FinishedRowType
  <2>2. /\ steps' = [steps EXCEPT ![job[p].run_id][CurrentStep(job[p])] = row]
        /\ runs' = runs
    BY <1>4 DEF RecordFinished, RecordStepFinished
  <2> QED
    BY <1>0, <1>4, <1>a, <2>1, <2>2, SetRowKeeps, AbsenceAssumption
<1>5. ASSUME NEW p \in Proc, LoopEnd(p) PROVE RowsExist'
  <2>1. steps' = steps /\ DOMAIN runs' = DOMAIN runs
    BY <1>5 DEF LoopEnd, FinishRun
  <2>2. \A r \in DOMAIN runs : runs'[r].runbook_digest = runs[r].runbook_digest
    BY RunsKept
  <2> QED
    BY <1>0, <2>1, <2>2 DEF RowsExist
<1>6. CASE UNCHANGED <<runs, steps, attempts>>
  BY <1>0, <1>6 DEF RowsExist
<1> QED
  BY <1>1, <1>2, <1>3, <1>4, <1>5, <1>6, StoreStep DEF Records

(* What a step of the system is for process q. *)
Stays(q) == pc'[q] = pc[q] /\ job'[q] = job[q]
Answered(q) ==
    /\ pc[q] = "wait" /\ pc'[q] = "observe"
    /\ \E result : job'[q] = [job[q] EXCEPT !.result = result]

(* A process does nothing to another. *)
LEMMA StepStays ==
    ASSUME LocalTypeOK, NEW p \in Proc, Step(p), NEW q \in Proc, p # q
    PROVE  Stays(q)
<1> USE DEF LocalTypeOK, Stays, Goto, Exit
<1>1. CASE StepReuse(p) \/ StepUnconfirmed(p) \/ StepBlocked(p) \/ LoopEnd(p) \/ RecordBlocked(p)
  BY <1>1 DEF StepReuse, StepUnconfirmed, StepBlocked, LoopEnd, RecordBlocked, Advance, SeeRow
<1>2. CASE ObserveBefore(p) \/ ObserveRejected(p) \/ SelectStarted(p) \/ RecordStarted(p)
           \/ Spawn(p) \/ SpawnError(p)
  BY <1>2 DEF ObserveBefore, ObserveRejected, SelectStarted, RecordStarted, SeeRow, Spawn,
     SpawnError
<1>3. CASE ObserveAfter(p) \/ SelectFinished(p) \/ RecordFinished(p)
  BY <1>3 DEF ObserveAfter, SelectFinished, RecordFinished, SeeRow, Advance
<1>4. CASE SurveyStep(p) \/ SurveyFails(p) \/ SurveyDone(p) \/ EvaluateNext(p) \/ SavePlan(p)
  BY <1>4 DEF SurveyStep, SurveyFails, SurveyDone, EvaluateNext, SavePlan
<1>5. CASE ExecuteRunbook(p)
  BY <1>5 DEF ExecuteRunbook
<1>6. ASSUME NEW k \in DOMAIN plans, NEW r \in DOMAIN runs, NEW confirmed,
             ResumeRunbook(p, r, k, confirmed)
      PROVE  Stays(q)
  BY <1>6 DEF ResumeRunbook
<1>7. ASSUME NEW k \in DOMAIN plans, NEW r \in DOMAIN runs, ResumeStale(p, r, k)
      PROVE  Stays(q)
  BY <1>7 DEF ResumeStale
<1>8. ASSUME NEW r \in DOMAIN runs, RepairLoad(p, r) PROVE Stays(q)
  BY <1>8 DEF RepairLoad
<1> QED
  BY <1>1, <1>2, <1>3, <1>4, <1>5, <1>6, <1>7, <1>8 DEF Step

(* All that can happen to a process in one step. *)
LEMMA ProcessStep ==
    ASSUME LocalTypeOK, [Next]_vars, NEW q \in Proc
    PROVE  \/ Stays(q)
           \/ Step(q)
           \/ \E command : Launch(q, command)
           \/ Crash(q)
           \/ Answered(q)
<1>1. ASSUME NEW p \in Proc, Step(p) PROVE Stays(q) \/ Step(q)
  BY <1>1, StepStays
<1>2. ASSUME NEW child \in children, NEW kind \in CommandFailure \cup {Null}, NEW written,
             CommandExit(child, kind, written)
      PROVE  Stays(q) \/ Answered(q)
  BY <1>2 DEF CommandExit, Stays, Answered, Waiting, LocalTypeOK
<1>3. ASSUME NEW p \in Proc, NEW command, Launch(p, command)
      PROVE  Stays(q) \/ Launch(q, command)
  BY <1>3 DEF Launch, Stays, Goto, LocalTypeOK
<1>4. ASSUME NEW p \in Proc, Crash(p) PROVE Stays(q) \/ Crash(q)
  BY <1>4 DEF Crash, Exit, Stays, LocalTypeOK
<1>5. ASSUME \/ \E f \in Path, content \in {Missing, Symlink, clock} : Edit(f, content)
             \/ \E v \in Version : Revise(v)
             \/ UNCHANGED vars
      PROVE  Stays(q)
  BY <1>5 DEF Edit, Revise, vars, Stays
<1> QED
  BY <1>1, <1>2, <1>3, <1>4, <1>5 DEF Next, CommandEnds, User

(* A process that takes a step stays on course. *)
LEMMA CourseOfStep ==
    ASSUME TypeOK, Course, [Next]_vars, NEW p \in Proc, Step(p)
    PROVE  OnCourse(p)'
<1>0. LocalTypeOK /\ job[p].position \in Nat /\ job[p] \in Job /\ OnCourse(p)
  BY JobFacts DEF TypeOK, Course
<1> DEFINE Known(r, v) == r \in DOMAIN runs' /\ runs'[r].runbook_digest = RunbookDigest(v)
<1>a. /\ \A r, v : MadeFrom(r, v) => Known(r, v)
      /\ MadeFrom(job[p].run_id, job[p].runbook)' = Known(job'[p].run_id, job'[p].runbook)
  BY RunsKept DEF MadeFrom
<1>b. ASSUME NEW result, Exit(p, result) PROVE OnCourse(p)'
  BY <1>0, <1>b DEF Exit, OnCourse, Working, Executing, NoJob, LocalTypeOK
<1>c. ASSUME /\ pc'[p] \in {"survey", "evaluate", "dispatch", "loop"}
             /\ job'[p].position >= 1
             /\ pc'[p] = "loop" =>
                   /\ job'[p].command \in {"run", "resume"}
                   /\ Known(job'[p].run_id, job'[p].runbook)
      PROVE  OnCourse(p)'
  BY <1>a, <1>c DEF OnCourse, Working, Executing
<1>1. CASE StepReuse(p)
  <2>1. /\ pc'[p] = "loop" /\ job'[p].position = job[p].position + 1
        /\ job'[p].command = job[p].command /\ job'[p].run_id = job[p].run_id
        /\ job'[p].runbook = job[p].runbook
    BY <1>0, <1>1 DEF StepReuse, AtStep, LocalTypeOK, Job
  <2>2. Working(p)
    BY <1>1 DEF StepReuse, AtStep, Working
  <2> QED
    BY <1>0, <1>a, <1>c, <2>1, <2>2 DEF OnCourse
<1>2. CASE StepUnconfirmed(p) \/ LoopEnd(p) \/ ObserveRejected(p) \/ SurveyFails(p) \/ SavePlan(p)
  BY <1>b, <1>2 DEF StepUnconfirmed, LoopEnd, ObserveRejected, SurveyFails, SavePlan
<1>3. CASE RecordBlocked(p) \/ RecordFinished(p)
  <2>1. Working(p)
    BY <1>3 DEF RecordBlocked, RecordFinished, Working, Executing
  <2>2. PICK status : Advance(p, status)
    BY <1>3 DEF RecordBlocked, RecordFinished
  <2>3. /\ pc'[p] = "loop" /\ job'[p].position = job[p].position + 1
        /\ job'[p].command = job[p].command /\ job'[p].run_id = job[p].run_id
        /\ job'[p].runbook = job[p].runbook
    BY <1>0, <2>2 DEF Advance, Goto, LocalTypeOK, Job
  <2> QED
    BY <1>0, <1>a, <1>c, <2>1, <2>3 DEF OnCourse
<1>4. CASE ExecuteRunbook(p)
  <2>1. /\ pc'[p] = "loop" /\ job'[p].position = job[p].position
        /\ job'[p].command = "run" /\ job'[p].run_id = Len(runs) + 1
        /\ job'[p].runbook = job[p].runbook
    BY <1>0, <1>4 DEF ExecuteRunbook, Goto, LocalTypeOK, Job
  <2>2. Known(Len(runs) + 1, job[p].runbook)
    BY <1>4 DEF ExecuteRunbook, CreateRun, TypeOK, StoreTypeOK
  <2> QED
    BY <1>0, <1>c, <2>1, <2>2 DEF OnCourse
<1>5. ASSUME NEW k \in DOMAIN plans, NEW r \in DOMAIN runs, NEW confirmed,
             ResumeRunbook(p, r, k, confirmed)
      PROVE  OnCourse(p)'
  <2>1. /\ pc'[p] = "loop" /\ job'[p].position = job[p].position
        /\ job'[p].command = "resume" /\ job'[p].run_id = r
        /\ job'[p].runbook = job[p].runbook
    BY <1>0, <1>5 DEF ResumeRunbook, Goto, LocalTypeOK, Job
  <2>2. MadeFrom(r, job[p].runbook)
    BY <1>5 DEF ResumeRunbook, PlanMatches, MadeFrom
  <2> QED
    BY <1>0, <1>a, <1>c, <2>1, <2>2 DEF OnCourse
<1>6. ASSUME NEW k \in DOMAIN plans, NEW r \in DOMAIN runs, ResumeStale(p, r, k)
      PROVE  OnCourse(p)'
  BY <1>b, <1>6 DEF ResumeStale
<1>7. ASSUME NEW r \in DOMAIN runs, RepairLoad(p, r) PROVE OnCourse(p)'
  <2>1. pc'[p] = "survey" /\ job'[p].position = job[p].position
    BY <1>0, <1>7 DEF RepairLoad, Goto, LocalTypeOK, Job
  <2> QED
    BY <1>0, <1>c, <2>1 DEF OnCourse
<1>8. CASE SurveyStep(p) \/ EvaluateNext(p)
  <2>1. pc'[p] \in {"survey", "evaluate"} /\ job'[p].position = job[p].position + 1
    BY <1>0, <1>8 DEF SurveyStep, Surveying, EvaluateNext, LocalTypeOK, Job
  <2> QED
    BY <1>0, <1>c, <2>1 DEF OnCourse
<1>9. CASE SurveyDone(p)
  <2>1. pc'[p] = "evaluate" /\ job'[p].position = 1
    BY <1>0, <1>9 DEF SurveyDone, Goto, LocalTypeOK, Job
  <2> QED
    BY <1>c, <2>1
<1>d. ASSUME Working(p), pc'[p] \in Label, Working(p)', job[p].position \in DOMAIN Order(job[p]),
             /\ job'[p].position = job[p].position
             /\ job'[p].command = job[p].command /\ job'[p].run_id = job[p].run_id
             /\ job'[p].runbook = job[p].runbook /\ job'[p].contract # Null
      PROVE  OnCourse(p)'
  <2>1. Order(job[p])' = Order(job[p])
    BY <1>d DEF Order
  <2> QED
    BY <1>0, <1>a, <1>d, <2>1 DEF OnCourse
<1>10. CASE StepBlocked(p)
  <2>1. Working(p) /\ job[p].position \in DOMAIN Order(job[p])
    BY <1>0, <1>10, JobFacts DEF StepBlocked, AtStep, Working, OnCourse
  <2>2. /\ pc'[p] = "block" /\ job'[p].position = job[p].position
        /\ job'[p].command = job[p].command /\ job'[p].run_id = job[p].run_id
        /\ job'[p].runbook = job[p].runbook
    BY <1>0, <1>10 DEF StepBlocked, SeeRow, Goto, LocalTypeOK, Job
  <2>3. Order(job[p])' = Order(job[p])
    BY <2>2 DEF Order
  <2> QED
    BY <1>0, <1>a, <2>1, <2>2, <2>3 DEF OnCourse, Executing
<1>11. CASE ObserveBefore(p)
  <2>1. Working(p) /\ job[p].position \in DOMAIN Order(job[p])
    BY <1>0, <1>11, JobFacts DEF ObserveBefore, AtStep, Working, OnCourse
  <2>2. MakeContract(Current(job[p])) # Null
    BY <2>1, AtAStep, ContractType, AbsenceAssumption
  <2>3. /\ pc'[p] = "start" /\ job'[p].position = job[p].position
        /\ job'[p].command = job[p].command /\ job'[p].run_id = job[p].run_id
        /\ job'[p].runbook = job[p].runbook
        /\ job'[p].contract = MakeContract(Current(job[p]))
    BY <1>0, <1>11 DEF ObserveBefore, Goto, LocalTypeOK, Job
  <2> QED
    BY <1>d, <2>1, <2>2, <2>3 DEF Working, Executing, Label
<1>12. CASE SelectStarted(p) \/ RecordStarted(p) \/ Spawn(p) \/ SpawnError(p) \/ SelectFinished(p)
  <2>1. Executing(p) /\ Working(p)
    BY <1>12 DEF SelectStarted, RecordStarted, Spawn, SpawnError, SelectFinished, Executing,
       Working
  <2>2. /\ pc'[p] \in {"record_started", "spawn", "wait", "observe", "record_finished"}
        /\ job'[p].position = job[p].position
        /\ job'[p].command = job[p].command /\ job'[p].run_id = job[p].run_id
        /\ job'[p].runbook = job[p].runbook /\ job'[p].contract = job[p].contract
    BY <1>0, <1>12 DEF SelectStarted, RecordStarted, Spawn, SpawnError, SelectFinished, SeeRow,
       Goto, LocalTypeOK, Job
  <2> QED
    BY <1>0, <1>d, <2>1, <2>2 DEF OnCourse, Working, Executing, Label
<1>13. CASE ObserveAfter(p)
  <2>1. Executing(p) /\ Working(p) /\ job[p].position \in DOMAIN Order(job[p])
    BY <1>0, <1>13 DEF ObserveAfter, Executing, Working, OnCourse
  <2>2. MakeContract(Current(job[p])) # Null
    BY <2>1, AtAStep, ContractType, AbsenceAssumption
  <2>3. /\ pc'[p] = "finish" /\ job'[p].position = job[p].position
        /\ job'[p].command = job[p].command /\ job'[p].run_id = job[p].run_id
        /\ job'[p].runbook = job[p].runbook
        /\ job'[p].contract = MakeContract(Current(job[p]))
    BY <1>0, <1>13 DEF ObserveAfter, Goto, LocalTypeOK, Job
  <2> QED
    BY <1>d, <2>1, <2>2, <2>3 DEF Working, Executing, Label
<1> QED
  BY <1>1, <1>2, <1>3, <1>4, <1>5, <1>6, <1>7, <1>8, <1>9, <1>10, <1>11, <1>12, <1>13 DEF Step

(* Every step keeps all processes on course. *)
LEMMA CourseStep == TypeOK /\ Course /\ [Next]_vars => Course'
<1> SUFFICES ASSUME TypeOK, Course, [Next]_vars PROVE Course'
  OBVIOUS
<1>1. RowsExist'
  BY RowsStep
<1>2. ASSUME NEW q \in Proc PROVE OnCourse(q)'
  <2>0. LocalTypeOK /\ OnCourse(q) /\ job[q] \in Job
    BY JobFacts DEF TypeOK, Course
  <2>1. CASE Stays(q)
    <3>1. Order(job[q])' = Order(job[q])
      BY <2>1 DEF Stays, Order
    <3> QED
      BY <2>0, <2>1, <3>1, RunsKept DEF Stays, OnCourse, Working, Executing, MadeFrom
  <2>2. CASE Step(q)
    BY <2>2, CourseOfStep
  <2>3. ASSUME NEW command, Launch(q, command) PROVE OnCourse(q)'
    BY <2>0, <2>3 DEF Launch, Goto, OnCourse, Working, Executing, NoJob, LocalTypeOK
  <2>4. CASE Crash(q)
    BY <2>0, <2>4 DEF Crash, Exit, OnCourse, Working, Executing, NoJob, LocalTypeOK
  <2>5. CASE Answered(q)
    <3>1. /\ job'[q].position = job[q].position
          /\ job'[q].command = job[q].command /\ job'[q].run_id = job[q].run_id
          /\ job'[q].runbook = job[q].runbook /\ job'[q].contract = job[q].contract
      BY <2>0, <2>5 DEF Answered, Job
    <3>2. Order(job[q])' = Order(job[q])
      BY <3>1 DEF Order
    <3> QED
      BY <2>0, <2>5, <3>1, <3>2, RunsKept DEF Answered, OnCourse, Working, Executing, MadeFrom
  <2> QED
    BY <2>0, <2>1, <2>2, <2>3, <2>4, <2>5, ProcessStep
<1> QED
  BY <1>1, <1>2 DEF Course

(* Idle processes are on course. *)
LEMMA InitCourse == Init => Course
  BY DEF Init, StoreInit, Course, RowsExist, OnCourse, Working, Executing, NoJob

(* The course of the processes is the strengthening that makes the types   *)
(* inductive: a row is there before it is updated, a contract is there     *)
(* before it is recorded.                                                  *)
LEMMA CourseCorrect == Spec => [](TypeOK /\ Course)
<1>1. Init => TypeOK /\ Course
  BY InitType, InitCourse
<1>2. TypeOK /\ Course /\ [Next]_vars => (TypeOK /\ Course)'
  BY TypeStep, CourseStep
<1> QED
  BY <1>1, <1>2, PTL DEF Spec

(* Every table, every local variable and every ghost always holds a value  *)
(* of its type.                                                            *)
THEOREM TypeCorrect == Spec => []TypeOK
  BY CourseCorrect, PTL

-----------------------------------------------------------------------------
(* How a process comes to where it is: for the proofs of the properties.   *)

SameInvocation(p) ==
    /\ job'[p].command = job[p].command
    /\ job'[p].runbook = job[p].runbook
    /\ job'[p].run_id = job[p].run_id
    /\ job'[p].decisions = job[p].decisions
    /\ job'[p].confirmed = job[p].confirmed
    /\ job'[p].fresh = job[p].fresh

SameAttempt(p) ==
    /\ SameInvocation(p) /\ job'[p].position = job[p].position
    /\ ObserveAfter(p) \/ job'[p].contract = job[p].contract
    /\ Recorded(p)' =>
          RecordStarted(p) \/ (Recorded(p) /\ job'[p].attempt_id = job[p].attempt_id)

(* A process that executes has just observed its step, or went on with it. *)
LEMMA Continues ==
    ASSUME TypeOK, [Next]_vars, NEW p \in Proc, Executing(p)'
    PROVE  (ObserveBefore(p) /\ ~Recorded(p)') \/ (Executing(p) /\ SameAttempt(p))
<1>0. job[p] \in Job /\ LocalTypeOK
  BY JobFacts DEF TypeOK
<1>1. CASE Stays(p)
  BY <1>1 DEF Stays, SameAttempt, SameInvocation, Executing, Recorded
<1>2. CASE Answered(p)
  <2>1. SameAttempt(p)
    BY <1>0, <1>2 DEF Answered, SameAttempt, SameInvocation, Recorded, Job
  <2> QED
    BY <1>2, <2>1 DEF Answered, Executing
<1>3. ASSUME NEW command, Launch(p, command) \/ Crash(p) PROVE FALSE
  BY <1>0, <1>3 DEF Launch, Crash, Goto, Exit, Executing, LocalTypeOK
<1>4. CASE Step(p)
  <2>1. \/ ObserveBefore(p) \/ SelectStarted(p) \/ RecordStarted(p) \/ Spawn(p)
        \/ SpawnError(p) \/ ObserveAfter(p) \/ SelectFinished(p)
    <3>0. /\ \A status : ~Exit(p, status) /\ ~Advance(p, status)
          /\ ~Goto(p, "loop") /\ ~Goto(p, "survey") /\ ~Goto(p, "block")
          /\ ~Goto(p, "evaluate")
          /\ pc'[p] # pc[p] \/ Executing(p)
      BY <1>0 DEF Exit, Advance, Goto, Executing, LocalTypeOK
    <3>1. ASSUME \/ ExecuteRunbook(p)
                 \/ \E k, r, confirmed : ResumeRunbook(p, r, k, confirmed)
                 \/ \E k, r : ResumeStale(p, r, k)
                 \/ \E r : RepairLoad(p, r)
          PROVE  FALSE
      BY <3>0, <3>1, Zenon DEF ExecuteRunbook, ResumeRunbook, ResumeStale, RepairLoad
    <3>2. ASSUME StepReuse(p) \/ StepBlocked(p) \/ RecordBlocked(p) \/ RecordFinished(p)
                 \/ StepUnconfirmed(p) \/ LoopEnd(p) \/ ObserveRejected(p)
          PROVE  FALSE
      BY <3>0, <3>2 DEF StepReuse, StepBlocked, AtStep, Executing, RecordBlocked,
         RecordFinished, StepUnconfirmed, LoopEnd, ObserveRejected
    <3>3. ASSUME SurveyStep(p) \/ SurveyFails(p) \/ SurveyDone(p) \/ EvaluateNext(p)
                 \/ SavePlan(p)
          PROVE  FALSE
      BY <3>0, <3>3 DEF SurveyStep, Surveying, SurveyFails, SurveyDone, EvaluateNext,
         SavePlan, Executing
    <3> QED
      BY <1>4, <3>1, <3>2, <3>3, Zenon DEF Step
  <2>2. CASE ObserveBefore(p)
    BY <1>0, <2>2 DEF ObserveBefore, Goto, Recorded, LocalTypeOK
  <2>3. CASE SelectStarted(p) \/ RecordStarted(p) \/ Spawn(p) \/ SpawnError(p)
             \/ ObserveAfter(p) \/ SelectFinished(p)
    <3>1. Executing(p)
      BY <2>3 DEF Executing, SelectStarted, RecordStarted, Spawn, SpawnError, ObserveAfter,
         SelectFinished
    <3>2. SameInvocation(p) /\ job'[p].position = job[p].position
      BY <1>0, <2>3 DEF SameInvocation, SelectStarted, RecordStarted, Spawn, SpawnError,
         ObserveAfter, SelectFinished, SeeRow, LocalTypeOK, Job
    <3>3. ObserveAfter(p) \/ job'[p].contract = job[p].contract
      BY <1>0, <2>3 DEF SelectStarted, RecordStarted, Spawn, SpawnError, SelectFinished,
         SeeRow, LocalTypeOK, Job
    <3>4. Recorded(p)' =>
             RecordStarted(p) \/ (Recorded(p) /\ job'[p].attempt_id = job[p].attempt_id)
      BY <1>0, <2>3 DEF SelectStarted, Spawn, SpawnError, ObserveAfter, SelectFinished,
         SeeRow, Goto, Recorded, LocalTypeOK, Job
    <3> QED
      BY <3>1, <3>2, <3>3, <3>4 DEF SameAttempt
  <2> QED
    BY <2>1, <2>2, <2>3
<1> QED
  BY <1>0, <1>1, <1>2, <1>3, <1>4, ProcessStep

(* A process in its loop has just begun, or went on with the same invocation. *)
LEMMA Works ==
    ASSUME TypeOK, [Next]_vars, NEW p \in Proc, Working(p)'
    PROVE  \/ ExecuteRunbook(p)
           \/ \E k \in DOMAIN plans, r \in DOMAIN runs :
                 \E confirmed \in SUBSET GatedIn(plans[k]) : ResumeRunbook(p, r, k, confirmed)
           \/ Working(p) /\ SameInvocation(p)
<1>0. job[p] \in Job /\ LocalTypeOK
  BY JobFacts DEF TypeOK
<1>1. CASE Executing(p)'
  <2>1. CASE ObserveBefore(p)
    BY <1>0, <2>1 DEF ObserveBefore, AtStep, Working, SameInvocation, LocalTypeOK, Job
  <2> QED
    BY <1>1, <2>1, Continues DEF Working, SameAttempt
<1>2. CASE pc'[p] \in {"loop", "block"}
  <2>1. CASE Stays(p)
    BY <1>2, <2>1 DEF Stays, SameInvocation, Working
  <2>2. CASE Answered(p)
    BY <1>2, <2>2 DEF Answered
  <2>3. ASSUME NEW command, Launch(p, command) \/ Crash(p) PROVE FALSE
    BY <1>0, <1>2, <2>3 DEF Launch, Crash, Goto, Exit, LocalTypeOK
  <2>4. CASE Step(p)
    <3>1. \/ ExecuteRunbook(p)
          \/ \E k \in DOMAIN plans, r \in DOMAIN runs :
                \E confirmed \in SUBSET GatedIn(plans[k]) : ResumeRunbook(p, r, k, confirmed)
          \/ StepReuse(p) \/ StepBlocked(p) \/ RecordBlocked(p) \/ RecordFinished(p)
      BY <1>0, <1>2, <2>4 DEF Step, LocalTypeOK, Goto, Exit, ResumeStale, StepUnconfirmed,
         LoopEnd, ObserveBefore, ObserveRejected, SelectStarted, RecordStarted, Spawn,
         SpawnError, ObserveAfter, SelectFinished, RepairLoad, SurveyStep, Surveying,
         SurveyFails, SurveyDone, EvaluateNext, SavePlan
    <3>2. CASE StepReuse(p) \/ StepBlocked(p) \/ RecordBlocked(p) \/ RecordFinished(p)
      <4>1. Working(p)
        BY <3>2 DEF StepReuse, StepBlocked, RecordBlocked, RecordFinished, AtStep, Working,
           Executing
      <4>2. SameInvocation(p)
        BY <1>0, <3>2 DEF StepReuse, StepBlocked, RecordBlocked, RecordFinished, SeeRow,
           Advance, SameInvocation, LocalTypeOK, Job
      <4> QED
        BY <4>1, <4>2
    <3> QED
      BY <3>1, <3>2
  <2> QED
    BY <1>0, <2>1, <2>2, <2>3, <2>4, ProcessStep
<1> QED
  BY <1>1, <1>2 DEF Working

(* A process that evaluates has just surveyed, or went on. *)
LEMMA Evaluates ==
    ASSUME TypeOK, [Next]_vars, NEW p \in Proc, pc'[p] = "evaluate"
    PROVE  Stays(p) \/ SurveyDone(p) \/ EvaluateNext(p)
<1>0. LocalTypeOK
  BY DEF TypeOK
<1>1. ASSUME NEW command, Launch(p, command) \/ Crash(p) \/ Answered(p) PROVE FALSE
  BY <1>0, <1>1 DEF Launch, Crash, Answered, Goto, Exit, LocalTypeOK
<1>2. CASE Step(p)
  <2>1. /\ \A status : ~Exit(p, status) /\ ~Advance(p, status)
        /\ \A label : Goto(p, label) => label = "evaluate"
        /\ pc'[p] = pc[p] => pc[p] = "evaluate"
    BY <1>0 DEF Exit, Advance, Goto, LocalTypeOK
  <2>2. ~(\/ ExecuteRunbook(p) \/ (\E k, r, confirmed : ResumeRunbook(p, r, k, confirmed))
          \/ (\E k, r : ResumeStale(p, r, k)) \/ (\E r : RepairLoad(p, r)))
    BY <2>1 DEF ExecuteRunbook, ResumeRunbook, ResumeStale, RepairLoad
  <2>3. ~(\/ StepReuse(p) \/ StepBlocked(p) \/ RecordBlocked(p) \/ RecordFinished(p)
          \/ StepUnconfirmed(p) \/ LoopEnd(p) \/ ObserveRejected(p) \/ ObserveBefore(p))
    BY <2>1 DEF StepReuse, AtStep, StepBlocked, RecordBlocked, RecordFinished,
       StepUnconfirmed, LoopEnd, ObserveRejected, ObserveBefore
  <2>4. ~(\/ SelectStarted(p) \/ RecordStarted(p) \/ Spawn(p) \/ SpawnError(p)
          \/ ObserveAfter(p) \/ SelectFinished(p))
    BY <2>1 DEF SelectStarted, RecordStarted, Spawn, SpawnError, ObserveAfter, SelectFinished
  <2>5. ~(SurveyStep(p) \/ SurveyFails(p) \/ SavePlan(p))
    BY <2>1 DEF SurveyStep, Surveying, SurveyFails, SavePlan
  <2> QED
    BY <1>2, <2>2, <2>3, <2>4, <2>5 DEF Step
<1> QED
  BY <1>0, <1>1, <1>2, ProcessStep

(* Plans change only where a repair saves one. *)
LEMMA PlansStep ==
    ASSUME [Next]_vars
    PROVE  plans' = plans \/ \E p \in Proc : SavePlan(p)
<1>1. ASSUME NEW p \in Proc, Step(p) PROVE plans' = plans \/ SavePlan(p)
  BY <1>1 DEF Step, store, ExecuteRunbook, CreateRun, ResumeRunbook, ResumeStale, StepReuse,
     StepUnconfirmed, StepBlocked, RecordBlocked, UpdateStepStatus, LoopEnd, FinishRun,
     ObserveBefore, ObserveRejected, SelectStarted, RecordStarted, RecordStepStarted, Spawn,
     SpawnError, ObserveAfter, SelectFinished, RecordFinished, RecordStepFinished, RepairLoad,
     SurveyStep, SurveyFails, SurveyDone, EvaluateNext
<1>2. ASSUME CommandEnds \/ User PROVE plans' = plans
  BY <1>2 DEF store, CommandEnds, CommandExit, User, Launch, Crash, Edit, Revise
<1> QED
  BY <1>1, <1>2 DEF Next, vars

=============================================================================
