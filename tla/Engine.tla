------------------------------- MODULE Engine -------------------------------
(***************************************************************************)
(* RunWeave at work: CLI processes that execute, repair and resume runs    *)
(* (application/execution.py, application/repair.py, cli.py) over one      *)
(* state store and one workspace, the commands they start, and the user    *)
(* who edits declared files, revises the run book and kills processes.     *)
(*                                                                         *)
(* An action ends where a process reads or writes something that others    *)
(* share: the state store, the workspace, the run book file, a command.    *)
(***************************************************************************)
EXTENDS Recovery, StateStore, Workspace

CONSTANTS
    Proc,            \* CLI processes
    CommandFailure,  \* how a command that was started may fail
    Budget           \* how often each kind of event may happen (model bound)

Event == {"run", "repair", "resume", "edit", "revise", "crash"}

ASSUME FailureAssumption == CommandFailure \subseteq {"NON_ZERO_EXIT", "TIMEOUT", "SIGNAL"}
ASSUME VersionAssumption == Version # {}
ASSUME BudgetAssumption == Budget \in [Event -> Nat]
ASSUME AbsenceAssumption ==
    Null \notin StepRow \cup StepContract \cup RepairDecision \cup FailureKind

VARIABLES
    bookfile,  \* the version the run book file holds
    pc,        \* where each process is
    job,       \* the local variables of each process
    outcome,   \* how each process last ended
    children,  \* the live commands, also those whose CLI process is gone
    history,   \* ghost: what commands read, what plans were made from, and how long
               \* the log of a run was when a run or a resume of a current plan
               \* had brought it to success
    budget     \* what is left of Budget

vars == <<runs, steps, attempts, transitions, plans, files, clock,
          bookfile, pc, job, outcome, children, history, budget>>

-----------------------------------------------------------------------------
(* The local variables of an invocation. *)

Statuses == [StepId -> StepStatus \cup {Null}]
Contexts == [StepId -> RecoveryContext \cup {Null}]
InputPrints == [StepId -> Fingerprints \cup {Null}]

NoJob ==
    [command |-> "none",       \* the subcommand
     runbook |-> CHOOSE v \in Version : TRUE,  \* the version load_runbook read
     run_id |-> 0,
     position |-> 1,           \* of the loop over the steps
     decisions |-> EmptyMap,   \* of the plan being applied or made
     confirmed |-> {},         \* --confirm-side-effects
     statuses |-> EmptyMap,    \* the loop's view of the steps
     attempt_id |-> 0,
     contract |-> Null,        \* contract_before, then contract_after
     seen |-> [status |-> "PENDING", attempt_count |-> 0],   \* by the last SELECT
     result |-> [status |-> "FAILED", failure_kind |-> Null],
     records |-> EmptyMap,     \* load_steps
     contexts |-> EmptyMap,
     inputs |-> EmptyMap,      \* ghost: the input fingerprints behind contexts
     mark |-> 0,               \* ghost: Mark(run_id) when records were loaded
     fresh |-> FALSE]          \* ghost: the plan's records are still current

Order(j) == Book[j.runbook].order
Declared(j) == Book[j.runbook].declared
Definition(j, s) == Book[j.runbook].steps[s]
CurrentStep(j) == Order(j)[j.position]
Current(j) == Definition(j, CurrentStep(j))

(* The number of transitions of a run: it grows with every change of it. *)
Mark(r) == Cardinality({i \in DOMAIN transitions : transitions[i].run_id = r})

-----------------------------------------------------------------------------

Init ==
    /\ StoreInit
    /\ WorkspaceInit
    /\ bookfile \in Version
    /\ pc = [p \in Proc |-> "idle"]
    /\ job = [p \in Proc |-> NoJob]
    /\ outcome = [p \in Proc |-> "NONE"]
    /\ children = {}
    /\ history = [read |-> <<>>, disturbed |-> {}, surveys |-> <<>>, settled |-> {}]
    /\ budget = Budget

Spend(event) ==
    /\ budget[event] > 0
    /\ budget' = [budget EXCEPT ![event] = @ - 1]

Goto(p, label) == pc' = [pc EXCEPT ![p] = label]

(* The process ends: main returns an exit code, or an exception ends it. *)
Exit(p, result) ==
    /\ pc' = [pc EXCEPT ![p] = "idle"]
    /\ job' = [job EXCEPT ![p] = NoJob]
    /\ outcome' = [outcome EXCEPT ![p] = result]

Environment == <<bookfile, children, history, budget>>

(* main: load_runbook comes first. *)
Launch(p, command) ==
    /\ pc[p] = "idle"
    /\ command = "repair" => runs # <<>>
    /\ command = "resume" => plans # <<>>
    /\ Spend(command)
    /\ Goto(p, "dispatch")
    /\ job' = [job EXCEPT ![p] = [NoJob EXCEPT !.command = command, !.runbook = bookfile]]
    /\ outcome' = [outcome EXCEPT ![p] = "NONE"]
    /\ UNCHANGED <<store, workspace, bookfile, children, history>>

-----------------------------------------------------------------------------
(* execute_runbook and resume_runbook up to their loops. *)

EveryStep(v, status) ==
    [s \in StepId |-> IF s \in Steps(Book[v]) THEN status ELSE Null]

ExecuteRunbook(p) ==
    /\ pc[p] = "dispatch" /\ job[p].command = "run"
    /\ LET v == job[p].runbook
       IN  /\ CreateRun(RunbookDigest(v), Steps(Book[v]))
           /\ job' = [job EXCEPT ![p].run_id = Len(runs) + 1,
                                 ![p].statuses = EveryStep(v, "PENDING"),
                                 ![p].fresh = TRUE]
    /\ Goto(p, "loop")
    /\ UNCHANGED <<workspace, outcome, Environment>>

(* mutant: the digest of the run is not compared *)
PlanMatchesBook(v, r, plan) ==
    plan.run_id = r /\ plan.source_runbook_digest = RunbookDigest(v)

PlanMatches(v, r, plan) ==
    /\ plan.run_id = r
    /\ plan.source_runbook_digest = RunbookDigest(v)
    /\ runs[r].runbook_digest = RunbookDigest(v)

(* The user names a run, a plan, and any of the gated steps of the plan. *)
ResumeRunbook(p, r, k, confirmed) ==
    /\ pc[p] = "dispatch" /\ job[p].command = "resume"
    /\ PlanMatches(job[p].runbook, r, plans[k])
    /\ job' = [job EXCEPT ![p].run_id = r,
                          ![p].decisions = plans[k].decisions,
                          ![p].confirmed = confirmed,
                          ![p].statuses = EveryStep(job[p].runbook, "SUCCEEDED"),
                          ![p].fresh = (Mark(r) = history.surveys[k].mark)]
    /\ Goto(p, "loop")
    /\ UNCHANGED <<store, workspace, outcome, Environment>>

ResumeStale(p, r, k) ==
    /\ pc[p] = "dispatch" /\ job[p].command = "resume"
    /\ ~PlanMatches(job[p].runbook, r, plans[k])
    /\ Exit(p, "PLAN_STALE")
    /\ UNCHANGED <<store, workspace, Environment>>

-----------------------------------------------------------------------------
(* The loop over the steps.  run knows no decisions: it executes them all. *)

AtStep(p) == pc[p] = "loop" /\ job[p].position <= Len(Order(job[p]))

Planned(j, ds) == j.command = "resume" /\ j.decisions[CurrentStep(j)].decision \in ds

Unconfirmed(j) ==
    /\ j.command = "resume"
    /\ j.decisions[CurrentStep(j)].requires_confirmation
    /\ CurrentStep(j) \notin j.confirmed

(* mutant: a failed dependency counts as done *)
DependenciesNotBlocked(j) == \A d \in Current(j).depends_on : j.statuses[d] # "BLOCKED"

DependenciesReady(j) == \A d \in Current(j).depends_on : j.statuses[d] = "SUCCEEDED"

(* mutant: the loop does not go on *)
StepReuseAgain(p) ==
    /\ AtStep(p)
    /\ Planned(job[p], {"REUSE"})
    /\ UNCHANGED vars

StepReuse(p) ==
    /\ AtStep(p)
    /\ Planned(job[p], {"REUSE"})
    /\ job' = [job EXCEPT ![p].position = @ + 1]
    /\ UNCHANGED <<store, workspace, pc, outcome, Environment>>

StepUnconfirmed(p) ==
    /\ AtStep(p)
    /\ ~Planned(job[p], {"REUSE", "BLOCK"})
    /\ Unconfirmed(job[p])
    /\ Exit(p, "SIDE_EFFECT_CONFIRMATION_REQUIRED")
    /\ UNCHANGED <<store, workspace, Environment>>

SeeRow(p) == [job EXCEPT ![p].seen = Select(job[p].run_id, CurrentStep(job[p]))]

Blocked(j) ==
    \/ Planned(j, {"BLOCK"})
    \/ ~Planned(j, {"REUSE"}) /\ ~Unconfirmed(j) /\ ~DependenciesReady(j)

(* mutant: the row is not read again *)
StepBlockedUnread(p) ==
    /\ AtStep(p)
    /\ Blocked(job[p])
    /\ Goto(p, "block")
    /\ UNCHANGED <<store, workspace, job, outcome, Environment>>

StepBlocked(p) ==
    /\ AtStep(p)
    /\ Blocked(job[p])
    /\ job' = SeeRow(p)
    /\ Goto(p, "block")
    /\ UNCHANGED <<store, workspace, outcome, Environment>>

(* mutant: the loop forgets how the step ended *)
AdvanceOnly(p, status) ==
    /\ job' = [job EXCEPT ![p].position = @ + 1]
    /\ Goto(p, "loop")

(* The loop goes on after a step that ended with the given status. *)
Advance(p, status) ==
    /\ job' = [job EXCEPT ![p].statuses[CurrentStep(job[p])] = status,
                          ![p].position = @ + 1]
    /\ Goto(p, "loop")

RecordBlocked(p) ==
    /\ pc[p] = "block"
    /\ UpdateStepStatus(job[p].run_id, CurrentStep(job[p]), job[p].seen, "BLOCKED")
    /\ Advance(p, "BLOCKED")
    /\ UNCHANGED <<workspace, outcome, Environment>>

AllSucceeded(j) == \A s \in Steps(Book[j.runbook]) : j.statuses[s] = "SUCCEEDED"

(* mutant: the run takes the status of its last step *)
StatusOfLast(j) == j.statuses[Order(j)[Len(Order(j))]]

FinalStatus(j) == IF AllSucceeded(j) THEN "SUCCEEDED" ELSE "FAILED"

LoopEnd(p) ==
    /\ pc[p] = "loop" /\ job[p].position > Len(Order(job[p]))
    /\ FinishRun(job[p].run_id, FinalStatus(job[p]))
    /\ Exit(p, IF AllSucceeded(job[p]) THEN "OK" ELSE "STEP_FAILURE")
    /\ history' = [history EXCEPT !.settled =
          IF job[p].fresh /\ AllSucceeded(job[p])
          THEN @ \cup {[run_id |-> job[p].run_id, mark |-> Mark(job[p].run_id) + 1]} ELSE @]
    /\ UNCHANGED <<workspace, bookfile, children, budget>>

-----------------------------------------------------------------------------
(* _execute_step *)

Declares(def) == def.inputs \cup def.outputs

(* mutant: inputs and outputs are swapped *)
MakeContractSwapped(def) ==
    [command_digest |-> CommandDigest(def), policy_digest |-> PolicyDigest(def),
     input_fingerprints |-> Fingerprint(def.outputs),
     output_fingerprints |-> Fingerprint(def.inputs)]

MakeContract(def) ==
    [command_digest |-> CommandDigest(def), policy_digest |-> PolicyDigest(def),
     input_fingerprints |-> Fingerprint(def.inputs),
     output_fingerprints |-> Fingerprint(def.outputs)]

ObserveBefore(p) ==
    /\ AtStep(p)
    /\ ~Planned(job[p], {"REUSE", "BLOCK"}) /\ ~Unconfirmed(job[p])
    /\ DependenciesReady(job[p])
    /\ ~Rejected(Declares(Current(job[p])))
    /\ job' = [job EXCEPT ![p].contract = MakeContract(Current(job[p]))]
    /\ Goto(p, "start")
    /\ UNCHANGED <<store, workspace, outcome, Environment>>

(* make_contract raises on a symlink, before the attempt or after it. *)
ObserveRejected(p) ==
    /\ \/ /\ AtStep(p)
          /\ ~Planned(job[p], {"REUSE", "BLOCK"}) /\ ~Unconfirmed(job[p])
          /\ DependenciesReady(job[p])
       \/ pc[p] = "observe"
    /\ Rejected(Declares(Current(job[p])))
    /\ Exit(p, "SYMLINK_NOT_ALLOWED")
    /\ UNCHANGED <<store, workspace, Environment>>

SelectStarted(p) ==
    /\ pc[p] = "start"
    /\ job' = SeeRow(p)
    /\ Goto(p, "record_started")
    /\ UNCHANGED <<store, workspace, outcome, Environment>>

RecordStarted(p) ==
    /\ pc[p] = "record_started"
    /\ RecordStepStarted(job[p].run_id, CurrentStep(job[p]), job[p].seen, job[p].contract)
    /\ job' = [job EXCEPT ![p].attempt_id = Len(attempts) + 1]
    /\ history' = [history EXCEPT !.read = Append(@, Null)]
    /\ Goto(p, "spawn")
    /\ UNCHANGED <<workspace, outcome, bookfile, children, budget>>

(* CommandRunner.run: the command is another process.  It reads its inputs *)
(* when it starts.                                                         *)
Spawn(p) ==
    /\ pc[p] = "spawn"
    /\ LET a == job[p].attempt_id
           def == Current(job[p])
       IN  /\ children' = children \cup {[attempt_id |-> a, outputs |-> def.outputs]}
           /\ history' = [history EXCEPT !.read[a] = Fingerprint(def.inputs)]
    /\ Goto(p, "wait")
    /\ UNCHANGED <<store, workspace, job, outcome, bookfile, budget>>

Result(kind) ==
    [status |-> IF kind = Null THEN "SUCCEEDED" ELSE "FAILED", failure_kind |-> kind]

SpawnError(p) ==
    /\ pc[p] = "spawn"
    /\ job' = [job EXCEPT ![p].result = Result("INTERNAL")]
    /\ Goto(p, "observe")
    /\ UNCHANGED <<store, workspace, outcome, Environment>>

Waiting(p, a) == pc[p] = "wait" /\ job[p].attempt_id = a

(* The attempts whose command has started and whose inputs are not yet     *)
(* recorded.                                                               *)
InFlight == {job[p].attempt_id : p \in {x \in Proc : pc[x] \in {"wait", "observe"}}}

(* A command ends and has written some of its outputs; the process that    *)
(* waits for it, if there still is one, gets the result.                   *)
CommandExit(child, kind, written) ==
    /\ children' = children \ {child}
    /\ Write(written)
    /\ job' = [p \in Proc |-> IF Waiting(p, child.attempt_id)
                              THEN [job[p] EXCEPT !.result = Result(kind)] ELSE job[p]]
    /\ pc' = [p \in Proc |-> IF Waiting(p, child.attempt_id) THEN "observe" ELSE pc[p]]
    /\ history' = IF written = {} THEN history
                  ELSE [history EXCEPT !.disturbed = @ \cup (InFlight \ {child.attempt_id})]
    /\ UNCHANGED <<store, outcome, bookfile, budget>>

(* contract_after, and a success without all its outputs is a failure. *)
CheckOutputs(result, contract) ==
    IF result.status = "SUCCEEDED" /\ ~AllExist(contract.output_fingerprints)
    THEN Result("OUTPUT_VIOLATION") ELSE result

ObserveAfter(p) ==
    /\ pc[p] = "observe"
    /\ ~Rejected(Declares(Current(job[p])))
    /\ LET contract == MakeContract(Current(job[p]))
       IN  job' = [job EXCEPT ![p].contract = contract,
                              ![p].result = CheckOutputs(@, contract)]
    /\ Goto(p, "finish")
    /\ UNCHANGED <<store, workspace, outcome, Environment>>

SelectFinished(p) ==
    /\ pc[p] = "finish"
    /\ job' = SeeRow(p)
    /\ Goto(p, "record_finished")
    /\ UNCHANGED <<store, workspace, outcome, Environment>>

RecordFinished(p) ==
    /\ pc[p] = "record_finished"
    /\ LET j == job[p]
       IN  RecordStepFinished(j.run_id, CurrentStep(j), j.attempt_id, j.seen,
                              j.result, j.contract)
    /\ Advance(p, job[p].result.status)
    /\ UNCHANGED <<workspace, outcome, Environment>>

-----------------------------------------------------------------------------
(* build_repair_plan *)

RepairLoad(p, r) ==
    /\ pc[p] = "dispatch" /\ job[p].command = "repair"
    /\ job' = [job EXCEPT ![p].run_id = r, ![p].records = steps[r], ![p].mark = Mark(r)]
    /\ Goto(p, "survey")
    /\ UNCHANGED <<store, workspace, outcome, Environment>>

(* mutant: inputs need only be there *)
InputsExist(contract, def) == AllExist(Fingerprint(def.inputs))

SameInputs(contract, def) == contract.input_fingerprints = Fingerprint(def.inputs)

(* What is compared for a step: stored contract against current files. *)
Context(j, s) ==
    LET def == Definition(j, s)
        contract == j.records[s].contract
        stored == contract # Null
    IN  [runbook_digest_matches |->
            RunbookDigest(j.runbook) = runs[j.run_id].runbook_digest,
         command_digest_matches |-> stored /\ contract.command_digest = CommandDigest(def),
         policy_digest_matches |-> stored /\ contract.policy_digest = PolicyDigest(def),
         inputs_match |-> stored /\ SameInputs(contract, def),
         outputs_valid |-> AllExist(Fingerprint(def.outputs))]

Surveying(p) == pc[p] = "survey" /\ job[p].position <= Len(Declared(job[p]))
Surveyed(j) == Declared(j)[j.position]

(* The first loop: one observation per step, in the declared order. *)
SurveyStep(p) ==
    /\ Surveying(p)
    /\ LET j == job[p]
           s == Surveyed(j)
       IN  /\ j.records[s] # Null
           /\ ~Rejected(Declares(Definition(j, s)))
           /\ job' = [job EXCEPT ![p].contexts[s] = Context(j, s),
                                 ![p].inputs[s] = Fingerprint(Definition(j, s).inputs),
                                 ![p].position = @ + 1]
    /\ UNCHANGED <<store, workspace, pc, outcome, Environment>>

(* records[step_id] is a KeyError, which main reports as RUN_NOT_FOUND. *)
SurveyFails(p) ==
    /\ Surveying(p)
    /\ LET j == job[p]
           s == Surveyed(j)
       IN  \/ j.records[s] = Null /\ Exit(p, "RUN_NOT_FOUND")
           \/ /\ j.records[s] # Null
              /\ Rejected(Declares(Definition(j, s)))
              /\ Exit(p, "SYMLINK_NOT_ALLOWED")
    /\ UNCHANGED <<store, workspace, Environment>>

SurveyDone(p) ==
    /\ pc[p] = "survey" /\ job[p].position > Len(Declared(job[p]))
    /\ job' = [job EXCEPT ![p].position = 1]
    /\ Goto(p, "evaluate")
    /\ UNCHANGED <<store, workspace, outcome, Environment>>

(* The second loop: one decision per step, in execution order. *)
EvaluateNext(p) ==
    /\ pc[p] = "evaluate" /\ job[p].position <= Len(Order(job[p]))
    /\ LET j == job[p]
           s == CurrentStep(j)
           d == EvaluateStep(Current(j), j.records[s], j.contexts[s], j.decisions)
       IN  job' = [job EXCEPT ![p].decisions[s] = d, ![p].position = @ + 1]
    /\ UNCHANGED <<store, workspace, pc, outcome, Environment>>

SavePlan(p) ==
    /\ pc[p] = "evaluate" /\ job[p].position > Len(Order(job[p]))
    /\ LET j == job[p]
       IN  /\ SaveRepairPlan(j.run_id, RunbookDigest(j.runbook), j.decisions)
           /\ history' = [history EXCEPT !.surveys =
                 Append(@, [inputs |-> j.inputs, records |-> j.records, mark |-> j.mark])]
    /\ Exit(p, "OK")
    /\ UNCHANGED <<workspace, bookfile, children, budget>>

-----------------------------------------------------------------------------
(* Around the engine. *)

(* A process is killed, or ends by an exception that main does not catch,  *)
(* such as a database that stays locked.  Its command runs in a session of *)
(* its own and goes on.                                                    *)
Crash(p) ==
    /\ pc[p] # "idle"
    /\ Spend("crash")
    /\ Exit(p, "CRASHED")
    /\ UNCHANGED <<store, workspace, bookfile, children, history>>

Edit(q, content) ==
    /\ files[q] # content
    /\ Spend("edit")
    /\ Put(q, content)
    /\ history' = [history EXCEPT !.disturbed = @ \cup InFlight]
    /\ UNCHANGED <<store, bookfile, pc, job, outcome, children>>

Revise(v) ==
    /\ v # bookfile
    /\ Spend("revise")
    /\ bookfile' = v
    /\ UNCHANGED <<store, workspace, pc, job, outcome, children, history>>

-----------------------------------------------------------------------------

GatedIn(plan) ==
    {s \in Steps(Book[plan.source_runbook_digest]) : plan.decisions[s].requires_confirmation}

(* The steps of a process that is under way. *)
Step(p) ==
    \/ ExecuteRunbook(p)
    \/ \E k \in DOMAIN plans : \E r \in DOMAIN runs :
          \/ \E confirmed \in SUBSET GatedIn(plans[k]) : ResumeRunbook(p, r, k, confirmed)
          \/ ResumeStale(p, r, k)
    \/ StepReuse(p) \/ StepUnconfirmed(p) \/ StepBlocked(p) \/ RecordBlocked(p) \/ LoopEnd(p)
    \/ ObserveBefore(p) \/ ObserveRejected(p) \/ SelectStarted(p) \/ RecordStarted(p)
    \/ Spawn(p) \/ SpawnError(p)
    \/ ObserveAfter(p) \/ SelectFinished(p) \/ RecordFinished(p)
    \/ \E r \in DOMAIN runs : RepairLoad(p, r)
    \/ SurveyStep(p) \/ SurveyFails(p) \/ SurveyDone(p) \/ EvaluateNext(p) \/ SavePlan(p)

CommandEnds ==
    \E child \in children, kind \in CommandFailure \cup {Null} :
        \E written \in SUBSET child.outputs : CommandExit(child, kind, written)

User ==
    \/ \E p \in Proc, command \in {"run", "repair", "resume"} : Launch(p, command)
    \/ \E p \in Proc : Crash(p)
    \/ \E q \in Path, content \in {Missing, Symlink, clock} : Edit(q, content)
    \/ \E v \in Version : Revise(v)

Next == (\E p \in Proc : Step(p)) \/ CommandEnds \/ User

(* The machine runs a process that is not waiting, and commands end; the   *)
(* user owes nothing.                                                      *)
Fairness == (\A p \in Proc : WF_vars(Step(p))) /\ WF_vars(CommandEnds)

Spec == Init /\ [][Next]_vars /\ Fairness

=============================================================================
