# RunWeave in TLA+

RunWeave executes a *run book*: a file of steps with a command, dependencies, declared inputs
and outputs, a side-effect class and a retry policy. It records every attempt in SQLite, and
after a failure, an edit or a crash it makes a *repair plan* that says of each step whether to
reuse, retry or rerun it, to ask for confirmation, or to hold it back. `resume` applies a plan.

This directory models that engine. Paths below are relative to `src/src/runweave/` unless they
name a document.

## 1. Inventory

| Component | State it keeps | Operations | What makes it correct |
|---|---|---|---|
| Execution and resume (`application/execution.py`, `common.py`) | locals of one invocation: plan order, statuses, the attempt under way | `execute_runbook`, `resume_runbook`, `_execute_step`, `make_contract` | a step starts after its dependencies have succeeded; a gated step runs only if confirmed; the summary is that of the steps; every invocation ends |
| Repair planning (`application/repair.py`, `domain/recovery.py`) | contexts and decisions under construction | `build_repair_plan`, `evaluate_step` | reuse rests on a recorded success with unchanged inputs; plans are closed under dependencies; decisions do not depend on evaluation order |
| State store (`adapters/sqlite_store.py`) | tables runs, steps, attempts, transitions, repair_plans | create, load, record started / finished, update status, finish, save / load plan | log and tables agree; attempts are numbered and immutable; no crash point leaves a contradiction |
| Planning (`domain/validation.py`) | counters, current level, order | `validate_runbook`, `execution_plan` | cycles and nothing else are refused; the order is canonical; the loop ends |
| Command runner (`adapters/subprocess_runner.py`) | a tree of processes in a session of its own | `run` | the log of a result is complete; an orderly command does not outlive its timeout; `run` returns |
| Workspace observer (`adapters/filesystem.py`, `domain/fingerprints.py`) | none | `fingerprint` | equal fingerprints mean equal content; symlinks are refused |
| Domain model and digests (`domain/models.py`, `enums.py`, `canonical.py`) | none | digests, `RetryPolicy.allows` | digests cover what decisions read |
| Command line (`cli.py`, `errors.py`) | none | `run`, `repair`, `resume`; `init`, `validate`, `plan`, `status`, `inspect`, `export` | every error ends the invocation with its code |
| YAML loader (`adapters/yaml_runbook.py`) | none | `load_runbook`, `_step`, `_retry` | exactly the sound files are accepted, and what is accepted is what the rest takes for granted |
| Ports (`ports/interfaces.py`) | none | abstract interfaces | |

**Interaction.** A CLI process loads the run book file, then calls one application service,
which calls the store, the observer and the runner. Processes share four things: the database,
the workspace, the run book file and the commands that are running. There are no threads and no
callbacks; all concurrency is between processes (CLI processes, commands, the user).

**Hard behaviour.** (1) `sqlite3` opens a transaction at the first write, so the `SELECT` at the
head of `record_step_started`, `record_step_finished` and `update_step_status` is not in the
transaction of the `UPDATE` that follows: two processes interleave there. (2) A process can be
killed between any two operations, and its command goes on without it. (3) A plan is made by one
process and applied by another, later, to files and tables that may have changed, and it may be
applied twice. (4) Inputs are fingerprinted before *and* after a command, and only the second
observation is kept. (5) A symlink makes an observation raise, also in the middle of an attempt.
(6) The runner sees a command only through two pipes and one exit code: its descendants may hold
the pipes, ignore the signal or leave the group, and the wait after a timeout has no limit.
(7) Recovery takes several rounds: behind a gated step everything is held until the next plan.
The complete list, line by line, is `hazards` in `PROJECT.json`.

## 2. Modules

```
Domain ── Recovery ──┬─────────── RecoveryRounds ──┬─ MCRecoveryRounds
   ├──── StateStore ─┤                             └─ RoundsProofs
   ├──── Workspace ──┴─ Engine ── EngineProperties ──┬─ MCEngine
   │                    RunLedger ·····┘ (INSTANCE)  └─ EngineInvariants ── EngineProofs
   └─ RunbookLoading ──┬─ MCRunbookLoading                 └─ JobProofs
        │              └─ LoadingProofs                          └─ ReuseProofs
        └─ ExecutionPlan                                               └─ StoreProofs
CommandRunner ── RunnerProofs                                                └─ OneProcessProofs
```

* **Domain** – enumerations, step definitions, run books, digests. A digest is what it depends
  on: the digest of a run book is a representative of the versions with the same digested
  fields (`name`, `steps`, their order; not `root` or `state_dir`).
* **Recovery** – `evaluate_step` with its parts as pure operators.
* **StateStore** – the five tables as sequences (the random identifier of a row is its number)
  and one operator per writing method. The `SELECT` of a read-then-write method is the operator
  `Select`; what it saw is a parameter of the write.
* **Workspace** – a path is missing, a symlink, or holds content with a stamp. `mtime_ns` is part
  of a fingerprint, so every write gives a new stamp.
* **Engine** – composes these: `Proc` processes, each with a program counter and a record of
  locals. An action ends where the process touches something shared. `Launch` is `main` with
  `load_runbook`; `ExecuteRunbook`, `ResumeRunbook` and `ResumeStale` are what precedes the loop
  over the steps; `StepReuse`, `StepUnconfirmed`, `StepBlocked` + `RecordBlocked`, `LoopEnd` are
  the branches of the loop; `ObserveBefore`, `SelectStarted`, `RecordStarted`, `Spawn` or
  `SpawnError`, `CommandExit`, `ObserveAfter`, `SelectFinished`, `RecordFinished` are
  `_execute_step`; `ObserveRejected` is the symlink error before or after the command;
  `RepairLoad`, `SurveyStep`, `SurveyFails`, `SurveyDone`, `EvaluateNext`, `SavePlan` are
  `build_repair_plan`. Around them: `Crash`, `Edit`, `Revise`.
* **EngineProperties** – types, properties, and the promises of the documents that fail.
* **RunLedger** – the abstract specification: runs, summaries, the standing of steps and their
  tries, without plans, processes, files or crashes. Five actions: `Create`, `Begin`, `End`,
  `Hold`, `Close`.
* **RunbookLoading** – `load_runbook`, `_step`, `_retry` and `validate_runbook`, the checks in
  the order of the code, followed by **ExecutionPlan**, one action per turn of the loop of
  `execution_plan`. A field is absent, of a wrong type, or has one of the values that the checks
  tell apart.
* **RecoveryRounds** – repair and resume repeated until the run is done, on every small graph
  and from every state a run can be left in. What became of the files of a step is kept as what
  `evaluate_step` would find (`fit`). `StepSucceeds`, `StepFails` and `Crash` are the three ways
  an execution ends; in each the command may leave the files of any other step in any condition,
  and `StrayWrites` is a process of an earlier attempt that does so later, at any time.
* **CommandRunner** – `LocalCommandRunner.run` and the tree of processes of the command.
* **MCEngine**, **MCRunbookLoading**, **MCRecoveryRounds** – instances for TLC.
* **EngineInvariants** – the inductive invariants. The modules named `...Proofs` hold the proofs.

**How the modules fit together.** `Engine` has the results of `CommandRunner` and not its steps:
`SpawnError` is the result `INTERNAL`, the other results are those of `CommandExit`. A process
that survives its runner and writes files later is an `Edit` of `Engine`, also when the result
was `INTERNAL` because the signal was refused; the exception of `Raise` is not caught, so it is a
`Crash` while the command runs. What `Domain` assumes of run books (`BookAssumption`) is
proved of `RunbookLoading` (`AcceptedRuns`). `RecoveryRounds` has one invocation at a time and leaves out how
each step of it is recorded, which is what `Engine` is about; its contexts use that contracts
are of the run's own book, which is proved of `Engine` (`ContractsHold`). Like `Engine`, it lets
a command write whatever its exit status and after its process was killed; unlike `Engine`, it
does not tie what is written to the declared outputs, and it makes a plan in one step.

**The refinement.** `EngineProperties!Ledger` reads the ledger off the store: `Editions` and
`Verdicts` are columns of the table runs, `Standing` the status of every row of steps, `Tries` the
table attempts. `ExecuteRunbook` is `Create`, `RecordStarted` is `Begin`, `RecordFinished` is
`End`, `RecordBlocked` is `Hold`, `LoopEnd` is `Close`, and everything else, crashes included,
leaves the ledger alone. What makes it true is not in one action: that a step begins only after
all it depends on was done rests on statuses in memory, on plans that another process made, and
on rows that a third may have written.

Ghost state of `Engine`: `history` (what each command read, which attempts ran while another writer changed
a file, what each plan was made from, and where in the log of a run a run or a resume of a current
plan ended with success) and `inputs`, `mark`, `fresh` of a job. Of `RecoveryRounds`: `due`, `rounds`
and `written` (whether commands have changed files since the plan was made, and whether only behind their
own steps). No guard reads it.
Definitions headed `mutant:` are deliberate errors; no specification uses them. Each property is
broken by the mutant named for it in `PROJECT.json`.

**Abstractions.** The paths of a step are fingerprinted at one instant. A command reads its
inputs when it starts and writes some or all of its outputs when it ends, whatever its exit
status. Maps over step identifiers are total, with `Null` for an absent key. The immutable reads
of `resume` (the digest of the run and the plan row) are one step with the comparison. The user
names runs and plans that exist. `READY`, `CANCELLED`, `INVALIDATED` and `REQUIRES_CONFIRMATION`
are never assigned by the code and are left out of `StepStatus`.

## 3. What TLC checks

| Run | Instance | Properties |
|---|---|---|
| `EngineCrash` | one process; run, 2 repairs, 2 resumes, 1 kill; two steps, the second gated and made from the first | `TypeOK`, `LogAgrees`, `LogIsChained`, `AttemptsAreCounted`, `StartsAfterDependencies`, `SummaryIsHonest`, `SuccessIsReused`, `InvocationsEnd`, `ImplementsLedger` |
| `EngineChanges` | one process; run, repair, resume, 1 edit of a file, 1 revision among three run books | `ConfirmationGate`, `PlansAreClosed`, `ContractsOfRun`, `ReuseNeedsSuccess`, `ReuseIsSound` |
| `EnginePair` | two symmetric processes; run, repair, 2 resumes, 1 kill; one gated step | `ConfirmationGate`, `ReuseNeedsSuccess`, `LogAgrees`, `AttemptsAreImmutable`, `ImplementsLedger` |
| `RunbookLoading` | all graphs on 3 steps, each dependency named 0 to 2 times, in two orders of the file; chains with every pair of odd fields, or an odd field and a fault of the file | `AcceptedIsRunnable`, `AcceptedIfFaultless`, `RefusedIffCyclic`, `PlanIsCanonical`, `LoadingEnds` |
| `RecoveryRounds` | all acyclic graphs on 3 steps × gates × nine standings per step, revised or not; any number of rounds, in them one failure, kill, refusal or write to files of other steps | `PlanIsClosedForm`, `RoundsAreExact`, `ReuseStands` |
| `CommandRunner` | a command of up to 3 processes with any conduct, a limit that passes at any moment | `TypeOK`, `LogIsComplete`, `StartErrorIsTrue`, `NothingOrderlySurvives`, `Returns` |

What the less obvious ones say. `LogAgrees`: the status in a table is where the last transition
led, even with two processes, because each write appends its transition in the same
transaction. `LogIsChained` and `AttemptsAreCounted` hold for one process at a time and *not*
for two (the read before the write is stale). `StartsAfterDependencies` and `SummaryIsHonest`
hold for a resume whose plan is current (nothing was recorded for the run since the plan read
it); a plan applied a second time breaks both, since `resume` takes the plan's word for the steps it
reuses. `ReuseIsSound` compares what the successful command *read* with what the repair sees;
it excepts attempts during which somebody else wrote a file, and steps that write their own
inputs. `PlanIsClosedForm` gives the whole plan without recursion over decisions: reuse is what
is clean to the roots, confirmation is asked at the first gated steps that are not, everything
behind those is held, the rest is retried or rerun. It is the plan for the files as they were when it
was made. `RoundsAreExact` says how long recovery takes: each round gets
done exactly the steps that `Due` computed from the graph and the gates before the first one, so a
chain that starts with *k* gated steps takes *k* rounds for them and one for all the rest. Three
conditions are part of it: commands succeed, the user confirms what is asked, and a command changes
only what steps *behind* its own were judged by (those that depend on it, directly or not). The
validation of a run book does not ask for the third: a step that reads what a step it does not
depend on writes is reused in a round in which that step is done again, and is `INPUT_CHANGED` in
the next one. `ReuseStands`: whatever the plan reuses still stands at every step of the resume.
Commands write whether they succeed, fail or outlive a killed process, in this round or from an earlier
one; the condition is that during the resume each of them changes only what steps behind its own
were judged by, and that its step is not one the plan reuses (the process of a killed attempt whose
step has been done again since can still change the files of that success). The invariant is about the
plan: nothing behind a step that is executed is reused. `ImplementsLedger` speaks of steps that *were*
done in the run; that the last try of a dependency succeeded is `StartsAfterDependencies`, and holds for current plans only.
`SuccessIsReused`: a plan made right after a success (nothing was recorded for the run in between)
reuses every step. Three conditions are part of it, and each is needed. The success is that of a run or of a
resume whose plan was current: a resume of an old plan takes its word for a step whose row a
later resume has rewritten, reports OK, and the next repair finds that step's inputs changed (TLC finds
this with three repairs and three resumes). `Calm`: there is one run in the workspace, no edit and no
kill, which leaves a command that may still write. And a step depends on those that write what it
reads (`SourcesAreDependencies`, which the validation of a run book does not ask for): otherwise one step
of the run changes the inputs of another after that has succeeded.
`LogIsComplete` and `StartErrorIsTrue` relate a result to what is still alive when it is
returned; `NothingOrderlySurvives` is what makes it safe to retry a step that timed out: of a
command without stubborn, foreign or detached processes nothing is left but processes about to
die of the signal. `Returns`: `run` waits for ever only if the command keeps such a process.

**Promises of the documents the code does not keep.** Each has a run in which TLC finds the
counterexample, and an entry in `findings` with the quoted line:

| Run | Document | Code |
|---|---|---|
| `DocStaleInputs` | README.md:58: a plan is stale once declared inputs change | only run book digests are compared: a plan that reuses a step is accepted after an input of that step was edited |
| `DocFreshPlan` | docs/architecture.md:157: a new plan is the remedy for a stale one | after a revision every plan of the run is refused |
| `DocInterrupted` | docs/architecture.md:89: an interrupted attempt becomes `PROCESS_INTERRUPTED` | it inherits the failure kind of the attempt before |
| `DocInputsBefore` | docs/product-spec.md:59: inputs are fingerprinted before execution | the stored ones are taken after it |
| `DocTwoProcesses` | docs/architecture.md:159: another active process is not overwritten | while a run waits for the command of a step, a resume of the same run starts that command again |
| `DocMisspeltKeys` | docs/runbook-schema.md:5: unknown keys are rejected, so a typo cannot remove a safety policy; docs/runbook-schema.md:67: `max_attempts` is required for `BOUNDED` | only the keys at the top of the file are compared, and a `BOUNDED` step without `max_attempts` gets 3: with the key misspelt, both promises fail at once |

`AcceptedIfFaultless` follows the code in both: it says nothing of unknown keys, and counts a `BOUNDED`
step without `max_attempts` as sound.

**Bounds.** `Budget` bounds how often each event happens; the model is finite because nothing else
creates rows. One kill, at any point of any
invocation, reaches every state of a row a killed process can leave;
the properties of `EngineCrash` also hold with two kills (`CrashBudget` with 2: 549 thousand states,
four and a half minutes), which is left out of the regular run for its time. So do `SuccessIsReused` and
the invariant of its proof with three repairs and three resumes (1.4 million states), where an old plan
can follow a newer one that failed. Two repairs and two resumes cover a
plan made after a crash, a plan applied twice and an old plan applied after a newer one. Two
steps with one dependency and one gate give every decision; longer graphs are covered by
`RecoveryRounds` and `RunbookLoading`, where three steps already give chains, forks, joins,
confluences of a direct and an indirect dependency, and cycles of each length up to three.
`RecoveryRounds` bounds `attempt_count` by `MaxAttempts` = 2, the limit of the policy, above which
the decision no longer depends on it, and the ghost `rounds` by N + 1, since a run of N steps
is done after N + 1 smooth rounds. Its `MaxDisturbance` = 1 bounds how often a round goes
other than smoothly (`Disturbed`: a failure, a kill, a refusal, a write to what is not behind the step);
one is enough because `Init` already has, in any combination, the standings that `evaluate_step` tells
apart, whatever left them. With 2 the properties hold as
well (2.4 million states, under five minutes with four workers). `Repeats` = 2 is the first number at which the double entry
of a dependency differs from a single one. Two odd fields at a time, in any two steps or the same
one, let a fault hide behind another; the checks look at no three fields together. Three
processes in `CommandRunner` give a leader, a child and a grandchild, or two children: the proofs
do without the bound. In the runs of `Engine`
commands fail by exit code; `INTERNAL` arises from `SpawnError` and `OUTPUT_VIOLATION` from
missing outputs, and the other kinds differ only in name.

**Deadlock** is not checked: an idle command line and a user who does nothing are legitimate ends
of `Engine`, loading and a command come to an end, and in `RecoveryRounds` the user gives up a run
whose plans are refused.

**Fairness.** In `Engine`, weak fairness of every process's own steps, and of the end of
commands. The first is what an operating system gives a runnable process. The second is an
assumption on the commands: `communicate` waits as long as they run. In `CommandRunner` that
assumption is taken apart: the runner goes on while it can (the passing of the time limit is a
step of it), a process dies of a signal that it does not handle, and nothing else of the command is
fair, so a process may run for ever. In `RunbookLoading`, weak fairness of the
one thread that loads. No fairness is assumed of the user, of crashes, edits or revisions. Only
`InvocationsEnd`, `Returns` and `LoadingEnds` use fairness.

## 4. What is proved

For every set of steps, paths, processes, run books and every budget. Assumptions: run books are
well-typed and valid (`BookAssumption`, which `AcceptedRuns` below proves of what the loader
accepts), the budget is a natural number per event, command failures are failure kinds, there is a
version, and `Null` is none of the values it stands beside (`AbsenceAssumption`).

* `EngineProofs!TypeCorrect`: `Spec => []TypeOK`. Types are not inductive alone: a process updates
  the row of a step, which must exist, and records a contract, which must not be `Null`.
  `Course` adds it: a working process has a run of its own book (`MadeFrom`), rows exist for all
  its steps, and from `start` on the contract has been taken.
* `JobProofs!ConfirmationHolds`: `Spec => []ConfirmationGate`. The invariant `Gates`
  follows the mark: every decision `EvaluateStep` takes for a gated step that may be executed asks
  for confirmation (`Marked`), so do those of saved plans (`PlansAreMarked`), so do those of
  an accepted resume, because equal digests mean equal steps (`Guarded`); the loop then needs
  the confirmation.
* `JobProofs!PlansClosed`: `Spec => []PlansAreClosed`, from `Closing`: the decided part of a plan
  under way is closed, and dependencies are decided before dependents, because the order of a
  valid book lists them first.
* `JobProofs!ContractsHold`: `Spec => []ContractsOfRun`, from the same agreement of the books
  of process and run.
* `JobProofs!AttemptsStay`: `Spec => AttemptsAreImmutable`. `Ownership`: an attempt a process
  is still to record is `RUNNING`, belongs to its run and step, and belongs to no other process;
  a crash gives ownership up and nobody takes it over.
* `ReuseProofs!ReuseHolds`: `Spec => []ReuseNeedsSuccess`. A plan is made in steps and applied by
  another process, so the success behind a `REUSE` has to be followed: `Grounding` says that rows
  and the records of a repair that say `SUCCEEDED` are backed by an attempt with their contract
  (`Backed`), that decisions reuse only what was done in that run for that book (`Sound`), in a plan
  under way, in the table and in the loop of a resume, and that a process executes a step only when
  all it depends on was done (`LoopIsSound`). `Comparing` adds what the repair compared: a step
  that is reused has the inputs of that contract.
* `StoreProofs!LedgerIsImplemented`: `Spec => ImplementsLedger`, the refinement for all
  instances. Initial states map to initial states; each action that records is a step of
  the ledger, whose guard is the part of `Grounding` that speaks of the loop; the others stutter.
* `StoreProofs!LogIsTrue`: `Spec => []LogAgrees`. `Story` adds to it that every transition is of a
  run that exists, every run has one of its own, and every log that is not empty has a last
  entry; then a new transition changes the last state of its own log only.
* `LoadingProofs!AcceptedRuns`, `Spec => []AcceptedIsRunnable`, and `AcceptedExactly`,
  `Spec => []AcceptedIfFaultless`, for files of any number of steps with any graph and any faults.
  The checks, one after the other, let pass exactly what has no fault (`FaultlessIs`). Of the loop
  of `execution_plan`, `Counted` says that each counter is the number of entries of `depends_on` that
  are not in the order yet, that the current level is what has none left, and that no step of a
  cycle is ever emitted; so the loop ends with all steps, or what is left is a cycle (`OrderOrLoop`).
* `LoadingProofs!CyclesAreRefused`, `Spec => []RefusedIffCyclic`, and `PlansAreCanonical`,
  `Spec => []PlanIsCanonical`, for any number of steps and any graph. `Reach` and `Depth` are
  recursive functions: that they exist is proved first (`Iteration`). `Reach(t)` is the least set
  that holds the dependencies of `t` and those of its members; of the steps left without a level,
  one that reaches fewest of the others reaches itself. `Leveled` adds to `Counted` that each step
  of a level stands behind all its dependencies and right behind one of them, and that levels and
  order are ascending; so the level of a step is its depth.
* `RoundsProofs`, for any number of steps: `PlansHaveTheForm`, `Spec => []PlanIsClosedForm`;
  `ReusedWorkStands`, `Spec => []ReuseStands`; `RoundsKeepPace`, `Spec => []RoundsAreExact`, with
  the conditions of section 3 and for any number of disturbances. The
  invariant has three parts: `Shape` (types), `Planning` (until its first step, and while no
  command has written, a resume has the plan that the present calls for; to its end a step is reused
  with all it depends on and, while commands change only what is behind them, has succeeded and fits),
  and `Pacing` (between smooth rounds what is clean is what was due; in a round the plan reuses what was
  due before it and holds back what is due after it). The definitions recur over the dependencies.
  The induction theorems of the library cannot be instantiated, so the module derives induction
  from the least element of a set of numbers (`Induction`) and proves with it that
  the recursive functions exist and obey their equations (`Recursion`).
* `RunnerProofs`: `RunnerTypeCorrect`, `TimeoutStopsTheCommand`, `LogIsAllOfIt`, `StartErrors`, for
  a command of any set of processes. The invariant adds what holds before there is a result: nothing is signalled before
  `Kill`, from then on every live process is wild or about to die of the signal (`Stopped`), and
  a process that is about to die does not fork. That a log stays complete after `run` has
  returned rests on `ConductOfChild`: nobody gets back a pipe that its parent has dropped.

For every store that one process at a time works on (the assumption `OneProcess` of these
theorems; with two processes TLC finds the first four properties violated, since nothing keeps
another process from writing between what the first has read and what it does with it):

* `StoreProofs!LogIsAPath`: `Spec => []LogIsChained`. `Chain`: the log of every step is a path so far,
  and between its `SELECT` and its write a process finds the row unchanged (`ReadIsTrue`).
* `OneProcessProofs!AttemptsAreNumbered`: `Spec => []AttemptsAreCounted`. `Counting` adds to it
  that the attempt a process has on record is the last one of its row, so that the result lands
  on the attempt the row shows; an attempt that a crash left `RUNNING` is counted and passed over.
* `OneProcessProofs!DependenciesComeFirst`, `Spec => []StartsAfterDependencies`, and
  `OneProcessProofs!SummaryIsTrue`, `Spec => []SummaryIsHonest`. Both from `Currency`, which follows
  the age of what a resume goes by: records loaded by a repair are the rows as long as the log of
  the run has not grown (`Dated`, which holds for any number of processes); the loop knows the
  standing of every step behind it, and of every step further on that a current plan reuses
  (`LoopIsCurrent`); and a run has rows for the steps of its own book only.
* `OneProcessProofs!ReuseIsTrue`: `Spec => []ReuseIsSound`. It ties the contracts to what commands
  really read: `Reading` says that the contract of a success holds what its command has read, unless
  another writer was at work meanwhile, `Comparing` that a repair has found that contract's inputs,
  and `Naming` that the attempt a record names last is the one that succeeded. Only `Naming` needs
  the one process.

* `OneProcessProofs!SuccessLasts`: `Spec => []SuccessIsReused`, for run books of which
  `SourcesAreDependencies` holds. A row *fits* if it is a success whose inputs are those in the
  workspace and whose outputs exist. `Lasting` says, as long as all is `Calm`, that everything anybody goes by
  fits: the successes that the loop of a current plan counts on (`LoopStands`), what a repair has
  decided to reuse and all it will decide after a success (`RepairStands`), what a current plan reuses
  (`PlanStands`), and every step of a run whose last transition is its success (`SuccessStands`).
  Only a command writes files, and it is the one its process waits for (`CommandsAreAwaited`). Its step is
  one that nothing the loop counts on depends on, since the steps behind the loop depend on each other only and
  reused steps on reused ones (`Closing`), so it writes none of their inputs; and with the attempt the log
  of the run has moved beyond all plans and successes (`HasMovedOn`), which are current no longer.

**Only model-checked.** The liveness properties (`InvocationsEnd`, `LoadingEnds`, `Returns`) are
beyond the prover. Every safety property of a passing run has a theorem.

## 5. What is not modelled

* *Canonical JSON and hashing* are pure functions, abstracted by digests that are injective in the
  fields they cover. *The YAML parser* is a library.
* *Directory fingerprints*: a declared path is a file. The fingerprint of a directory digests the
  path, the content digest and the size of every file under it, adds their number and the `mtime_ns` of
  the directory itself (not those of the files under it), and is refused when there is a symlink
  among them (`domain/fingerprints.py:59-82`). So a file under it that is written again with the same
  bytes leaves the fingerprint as it was, where a declared file would get a new stamp. The time a walk
  takes is left out: the paths of a step are observed at one instant.
* *Evidence*: the text of logs, its redaction and its limit, the memory it takes, environment
  variables, timestamps and exit codes enter no decision.
* *Commands that change nothing of the engine*: `status`, `inspect`, `export`, `validate` and
  `plan` read and print; `init` writes a starter file after looking whether there is one.
* *Lock timeouts of SQLite* raise an error that ends the process, which leaves what a kill at the
  same point leaves, and so does any other exception that `main` does not catch.
* *Ports* have no behaviour. `contract_digest`, `evaluate_repair` and `StateConflictError` are used
  by nothing in the application.

## 6. Plan

1. Done: Domain, Recovery, StateStore, Workspace, Engine and their runs; the abstract RunLedger,
   refined and proved; CommandRunner; RecoveryRounds; RunbookLoading with ExecutionPlan; proofs of
   what section 4 lists.
2. **Fingerprints**: directories (sorted tree, symlinks inside, `mtime_ns` of the directory) and a
   walk that other writers interrupt.

## 7. Running it

`tlc -config EngineCrash.cfg MCEngine`, and likewise for the other configurations:
`RunbookLoading.cfg` and `DocMisspeltKeys.cfg` with `MCRunbookLoading`, `RecoveryRounds.cfg` with
`MCRecoveryRounds`, `CommandRunner.cfg` with `CommandRunner`, the rest with `MCEngine`.
`tlapm EngineProofs.tla`, and likewise for the other seven proof modules. The longest run takes
two to three minutes, the longest proof about six.
