--------------------------- MODULE EngineInvariants ---------------------------
(***************************************************************************)
(* What holds between the store and the local variables of the processes   *)
(* at every point of an invocation: the strengthenings that make the       *)
(* properties of EngineProperties inductive.                               *)
(***************************************************************************)
EXTENDS EngineProperties

(* A process that executes or resumes, one with an attempt on record.      *)
Working(p) == pc[p] \in {"loop", "block"} \/ Executing(p)
Recorded(p) == pc[p] \in {"spawn", "wait", "observe", "finish", "record_finished"}

(* Run r was made from the run book of version v. *)
MadeFrom(r, v) == r \in DOMAIN runs /\ runs[r].runbook_digest = RunbookDigest(v)

(* A run has a row for every step of its run book. *)
RowsExist ==
    \A r \in DOMAIN runs : \A s \in Steps(Book[runs[r].runbook_digest]) : steps[r][s] # Null

(* A process works on a run made from the run book it has read, and stands *)
(* at a step of it.                                                        *)
OnCourse(p) ==
    /\ job[p].position >= 1
    /\ Working(p) =>
          /\ job[p].command \in {"run", "resume"}
          /\ MadeFrom(job[p].run_id, job[p].runbook)
    /\ pc[p] = "block" \/ Executing(p) => job[p].position \in DOMAIN Order(job[p])
    /\ Executing(p) => job[p].contract # Null

Course == RowsExist /\ \A p \in Proc : OnCourse(p)

-----------------------------------------------------------------------------
(* Confirmation *)

(* Each step of S has a decision, and one that would execute a gated step  *)
(* of the book waits for confirmation.                                     *)
Marked(decisions, book, S) ==
    \A s \in S :
        /\ decisions[s] # Null
        /\ RequiresConfirmation(book.steps[s]) =>
              decisions[s].decision \in {"REUSE", "BLOCK"} \/ decisions[s].requires_confirmation

Evaluated(j) == {Order(j)[i] : i \in {x \in DOMAIN Order(j) : x < j.position}}

PlansAreMarked ==
    \A k \in DOMAIN plans : Marked(plans[k].decisions, PlanBook(k), Steps(PlanBook(k)))

(* A resume goes by decisions that mark the gates of the book it has read. *)
Guarded(p) ==
    /\ pc[p] = "evaluate" => Marked(job[p].decisions, Book[job[p].runbook], Evaluated(job[p]))
    /\ Working(p) /\ job[p].command = "resume" =>
          Marked(job[p].decisions, Book[job[p].runbook], Steps(Book[job[p].runbook]))
    /\ Executing(p) /\ job[p].command = "resume" /\ RequiresConfirmation(Current(job[p])) =>
          CurrentStep(job[p]) \in job[p].confirmed

Gates == PlansAreMarked /\ \A p \in Proc : Guarded(p)

(* The decisions for the steps of S agree with those for what they depend  *)
(* on.                                                                     *)
Closed(decisions, book, S) ==
    \A s \in S : \A d \in book.steps[s].depends_on :
        /\ decisions[s].decision = "REUSE" => decisions[d].decision = "REUSE"
        /\ decisions[d].decision \in {"CONFIRM", "BLOCK"} => decisions[s].decision = "BLOCK"

Closing ==
    /\ PlansAreClosed
    /\ \A p \in Proc :
          pc[p] = "evaluate" =>
              Closed(job[p].decisions, Book[job[p].runbook], Evaluated(job[p]))

-----------------------------------------------------------------------------
(* Attempts *)

ContractFor(contract, def) ==
    /\ contract.command_digest = CommandDigest(def)
    /\ contract.policy_digest = PolicyDigest(def)

(* The attempt a process has on record is open, and is of its step.        *)
Owns(p) ==
    /\ Executing(p) => ContractFor(job[p].contract, Current(job[p]))
    /\ Recorded(p) =>
          /\ job[p].attempt_id \in DOMAIN attempts
          /\ attempts[job[p].attempt_id].status = "RUNNING"
          /\ attempts[job[p].attempt_id].run_id = job[p].run_id
          /\ attempts[job[p].attempt_id].step_id = CurrentStep(job[p])

(* No two processes have the same attempt. *)
Apart ==
    \A p, q \in Proc : Recorded(p) /\ Recorded(q) /\ p # q => job[p].attempt_id # job[q].attempt_id

AttemptsHaveRuns == \A a \in DOMAIN attempts : attempts[a].run_id \in DOMAIN runs

Ownership == Apart /\ AttemptsHaveRuns /\ ContractsOfRun /\ \A p \in Proc : Owns(p)

-----------------------------------------------------------------------------
(* What was done *)

(* Some attempt of the step has succeeded in the run. *)
EverDone(r, s) ==
    \E a \in DOMAIN attempts :
        /\ attempts[a].run_id = r /\ attempts[a].step_id = s
        /\ attempts[a].status = "SUCCEEDED"

(* Attempt a of the step has succeeded in the run and has left this row. *)
MadeBy(a, r, s, row) ==
    /\ a \in DOMAIN attempts
    /\ attempts[a].run_id = r /\ attempts[a].step_id = s
    /\ attempts[a].status = "SUCCEEDED" /\ attempts[a].contract = row.contract

(* A status or a record that says SUCCEEDED is backed by an attempt. *)
Backed(r, records) ==
    \A s \in StepId :
        records[s] # Null /\ records[s].status = "SUCCEEDED" =>
            \E a \in DOMAIN attempts : MadeBy(a, r, s, records[s])

RowsAreBacked == \A r \in DOMAIN runs : Backed(r, steps[r])

(* Decisions reuse only what was done for this very book, and block only   *)
(* what depends on something.                                              *)
Sound(decisions, digest, r, S) ==
    \A s \in S :
        /\ decisions[s].decision = "REUSE" =>
              /\ EverDone(r, s)
              /\ r \in DOMAIN runs /\ runs[r].runbook_digest = digest
        /\ decisions[s].decision = "BLOCK" => Book[digest].steps[s].depends_on # {}

SoundPlan(plan) ==
    Sound(plan.decisions, plan.source_runbook_digest, plan.run_id,
          Steps(Book[plan.source_runbook_digest]))

PlansAreSound == \A k \in DOMAIN plans : SoundPlan(plans[k])

(* A repair has seen rows and compared digests for the steps in S. *)
Compared(j, S) ==
    \A s \in S :
        /\ j.records[s] # Null
        /\ j.contexts[s].runbook_digest_matches => MadeFrom(j.run_id, j.runbook)

SurveyedSteps(j) == {Declared(j)[i] : i \in {x \in DOMAIN Declared(j) : x < j.position}}

(* What a repair has so far. *)
RepairIsSound(p) ==
    LET j == job[p]
    IN  /\ pc[p] \in {"survey", "evaluate"} =>
              j.run_id \in DOMAIN runs /\ Backed(j.run_id, j.records)
        /\ pc[p] = "survey" => Compared(j, SurveyedSteps(j))
        /\ pc[p] = "evaluate" =>
              /\ Compared(j, Steps(Book[j.runbook]))
              /\ Sound(j.decisions, RunbookDigest(j.runbook), j.run_id, Evaluated(j))

(* What the loop of a run or a resume goes by: SUCCEEDED of a step behind  *)
(* it, and REUSE of any step, mean that it was done.                       *)
LoopIsSound(p) ==
    LET j == job[p]
    IN  /\ Working(p) =>
              \A s \in Evaluated(j) : j.statuses[s] = "SUCCEEDED" => EverDone(j.run_id, s)
        /\ Working(p) /\ j.command = "resume" =>
              Sound(j.decisions, RunbookDigest(j.runbook), j.run_id, Steps(Book[j.runbook]))
        /\ Executing(p) => \A d \in Current(j).depends_on : EverDone(j.run_id, d)
        /\ pc[p] = "block" => Current(j).depends_on # {}

Grounding ==
    /\ RowsAreBacked /\ PlansAreSound
    /\ \A p \in Proc : pc[p] = "dispatch" => job[p].position = 1
    /\ \A p \in Proc : RepairIsSound(p) /\ LoopIsSound(p)

-----------------------------------------------------------------------------
(* The log *)

(* The transitions of a run or of a step in table T, and where they led.   *)
LogIn(T, r, s) == {i \in DOMAIN T : T[i].run_id = r /\ T[i].step_id = s}
HasLast(I) == \E i \in I : \A k \in I : k <= i
LastState(T, r, s) == T[LastOf(LogIn(T, r, s))].to_state

(* Transitions are of runs that exist, every run has one of its own, and   *)
(* there is a last one where there is any.                                 *)
InOrder(R, T) ==
    /\ \A i \in DOMAIN T : T[i].run_id \in DOMAIN R
    /\ \A r \in DOMAIN R : LogIn(T, r, Null) # {}
    /\ \A r \in DOMAIN R : \A s \in StepId \cup {Null} :
          LogIn(T, r, s) # {} => HasLast(LogIn(T, r, s))

(* LogAgrees for run r in any tables. *)
Agrees(R, S, T, r) ==
    /\ R[r].status = LastState(T, r, Null)
    /\ \A s \in StepId :
          S[r][s] # Null =>
              S[r][s].status = IF LogIn(T, r, s) = {} THEN "PENDING" ELSE LastState(T, r, s)

Tells(R, S, T) == InOrder(R, T) /\ \A r \in DOMAIN R : Agrees(R, S, T, r)

Story == Tells(runs, steps, transitions)

(* LogIsChained for any tables; entries before a given one have a last one.*)
Earlier(T, r, s, i) == {k \in LogIn(T, r, s) : k < i}
StateBefore(T, I) == IF I = {} THEN "PENDING" ELSE T[LastOf(I)].to_state

IsPath(R, T) ==
    \A r \in DOMAIN R : \A s \in StepId : \A i \in LogIn(T, r, s) :
        LET earlier == Earlier(T, r, s, i)
        IN  /\ earlier # {} => HasLast(earlier)
            /\ T[i].from_state = StateBefore(T, earlier)

(* What a process has read of its row it writes back; as long as nobody    *)
(* else writes, the row has not changed.                                   *)
HasRead(p) == pc[p] \in {"block", "record_started", "record_finished"}
ReadIsTrue ==
    \A p \in Proc :
        HasRead(p) => job[p].seen = Select(job[p].run_id, CurrentStep(job[p]))

OneProcess == \A p, q \in Proc : p = q

Chain == IsPath(runs, transitions) /\ ReadIsTrue

-----------------------------------------------------------------------------
(* Plans that are current *)

MarkIn(T, r) == Cardinality({i \in DOMAIN T : T[i].run_id = r})

(* In tables R, S and T the rows of run r are still these records if its   *)
(* log has not grown beyond the mark.                                      *)
UpToDate(R, S, T, r, mark, records) ==
    /\ r \in DOMAIN R /\ mark <= MarkIn(T, r)
    /\ mark = MarkIn(T, r) => S[r] = records

ReusesSuccess(decisions, records, S) ==
    \A s \in S : decisions[s].decision = "REUSE" => records[s].status = "SUCCEEDED"

PlanIsDated(R, S, T, plan, survey) ==
    /\ UpToDate(R, S, T, plan.run_id, survey.mark, survey.records)
    /\ ReusesSuccess(plan.decisions, survey.records, Steps(Book[plan.source_runbook_digest]))

RepairIsDated(p) ==
    LET j == job[p]
    IN  /\ pc[p] \in {"survey", "evaluate"} =>
              UpToDate(runs, steps, transitions, j.run_id, j.mark, j.records)
        /\ pc[p] = "evaluate" => ReusesSuccess(j.decisions, j.records, Evaluated(j))

Dated ==
    /\ \A k \in DOMAIN plans :
          PlanIsDated(runs, steps, transitions, plans[k], history.surveys[k])
    /\ \A p \in Proc : RepairIsDated(p)

(* No row but of a step of the run's own book. *)
RowsAreOfBook ==
    \A r \in DOMAIN runs : StepsOf(r) \subseteq Steps(Book[runs[r].runbook_digest])

(* What the loop knows of the steps behind it is what the rows in table S   *)
(* say, and what a current plan reuses further on has succeeded.           *)
Ahead(j) == Steps(Book[j.runbook]) \ Evaluated(j)
HasSuccess(j, S, s) == S[j.run_id][s].status = "SUCCEEDED"

Knows(j, S) ==
    /\ \A s \in Evaluated(j) : j.statuses[s] = "SUCCEEDED" <=> HasSuccess(j, S, s)
    /\ j.command = "resume" =>
          \A s \in Ahead(j) : j.decisions[s].decision = "REUSE" => HasSuccess(j, S, s)

LoopIsCurrent(p) ==
    LET j == job[p]
    IN  /\ Working(p) /\ j.fresh => Knows(j, steps)
        /\ Working(p) /\ j.command = "resume" =>
              \A s \in Ahead(j) : j.statuses[s] = "SUCCEEDED"
        /\ pc[p] = "block" \/ Executing(p) => ~Planned(j, {"REUSE"})
        /\ Executing(p) => DependenciesReady(j)

Currency == Dated /\ RowsAreOfBook /\ \A p \in Proc : LoopIsCurrent(p)

-----------------------------------------------------------------------------
(* Attempts that are counted *)

TriesIn(A, r, s) == {a \in DOMAIN A : A[a].run_id = r /\ A[a].step_id = s}

(* In table A, the attempts in I are those of this row: it counts them,    *)
(* and shows the last one.                                                 *)
IsCounted(A, I, row) ==
    /\ row.attempt_count = Cardinality(I)
    /\ {A[a].attempt_no : a \in I} = 1..row.attempt_count
    /\ row.attempt_count > 0 =>
          /\ row.last_attempt_id \in I /\ \A a \in I : a <= row.last_attempt_id
          /\ A[row.last_attempt_id].contract = row.contract
          /\ row.status # "BLOCKED" => A[row.last_attempt_id].status = row.status

RowsAreCounted(A, S) ==
    \A r \in DOMAIN S : \A s \in StepId : S[r][s] # Null => IsCounted(A, TriesIn(A, r, s), S[r][s])

(* The attempt a process has on record is the last one of its row. *)
OwnsTheLast(p) ==
    Recorded(p) =>
        LET row == steps[job[p].run_id][CurrentStep(job[p])]
        IN  row.attempt_count > 0 /\ row.last_attempt_id = job[p].attempt_id

Counting == RowsAreCounted(attempts, steps) /\ \A p \in Proc : OwnsTheLast(p)

-----------------------------------------------------------------------------
(* What was read *)

DefinitionOf(a) == Book[runs[attempts[a].run_id].runbook_digest].steps[attempts[a].step_id]
KeepsInputs(def) == def.inputs \cap def.outputs = {}

(* A live command may write the outputs of the step its attempt is of. *)
CommandsAreOfAttempts ==
    \A child \in children :
        /\ child.attempt_id \in DOMAIN attempts
        /\ child.outputs = DefinitionOf(child.attempt_id).outputs

(* The fingerprints are those of what the command of attempt a has read,   *)
(* unless a file was written while it ran.                                 *)
WasRead(a, prints) == a \notin history.disturbed => history.read[a] = prints

(* From the start of the command to the record of its success the inputs   *)
(* are what it has read: first in the workspace, then in the contract.     *)
KnowsItsInputs(p) ==
    LET j == job[p]
        done == j.result.status = "SUCCEEDED"
    IN  Executing(p) /\ KeepsInputs(Current(j)) =>
          /\ pc[p] = "wait" \/ (pc[p] = "observe" /\ done) =>
                WasRead(j.attempt_id, Fingerprint(Current(j).inputs))
          /\ pc[p] \in {"finish", "record_finished"} /\ done =>
                WasRead(j.attempt_id, j.contract.input_fingerprints)

SuccessesHaveRead ==
    \A a \in DOMAIN attempts :
        attempts[a].status = "SUCCEEDED" /\ KeepsInputs(DefinitionOf(a)) =>
            WasRead(a, attempts[a].contract.input_fingerprints)

Reading == CommandsAreOfAttempts /\ SuccessesHaveRead /\ \A p \in Proc : KnowsItsInputs(p)

-----------------------------------------------------------------------------
(* What was compared *)

(* A comparison that found the inputs of a step unchanged has seen those   *)
(* of its contract.                                                        *)
SawInputs(j, S) ==
    \A s \in S :
        j.contexts[s].inputs_match => j.records[s].contract.input_fingerprints = j.inputs[s]

(* What is reused are successes whose contracts have these inputs. *)
ReusesWhatFits(decisions, records, inputs, S) ==
    \A s \in S :
        decisions[s].decision = "REUSE" =>
            /\ records[s] # Null /\ records[s].status = "SUCCEEDED"
            /\ records[s].contract.input_fingerprints = inputs[s]

RepairCompares(p) ==
    LET j == job[p]
    IN  /\ pc[p] = "survey" => SawInputs(j, SurveyedSteps(j))
        /\ pc[p] = "evaluate" =>
              /\ SawInputs(j, Steps(Book[j.runbook]))
              /\ ReusesWhatFits(j.decisions, j.records, j.inputs, Evaluated(j))

PlanFits(plan, survey) ==
    /\ Backed(plan.run_id, survey.records)
    /\ ReusesWhatFits(plan.decisions, survey.records, survey.inputs,
                      Steps(Book[plan.source_runbook_digest]))

Comparing ==
    /\ \A k \in DOMAIN plans : PlanFits(plans[k], history.surveys[k])
    /\ \A p \in Proc : RepairCompares(p)

(* The attempt that a record of a success names last is the one that had   *)
(* it.                                                                     *)
NamesItsMaker(r, records) ==
    \A s \in StepId :
        records[s] # Null /\ records[s].status = "SUCCEEDED" =>
            MadeBy(records[s].last_attempt_id, r, s, records[s])

Naming ==
    /\ \A k \in DOMAIN plans : NamesItsMaker(plans[k].run_id, history.surveys[k].records)
    /\ \A p \in Proc :
          pc[p] \in {"survey", "evaluate"} => NamesItsMaker(job[p].run_id, job[p].records)

-----------------------------------------------------------------------------
(* What a success leaves behind *)

PrintsIn(F, ps) == [q \in Path |-> IF q \in ps THEN F[q] ELSE Null]

(* In the workspace F the row is of a success that can be reused: the      *)
(* inputs of the step are those of the contract, and its outputs exist.    *)
Fits(F, row, def) ==
    /\ row.status = "SUCCEEDED"
    /\ row.contract.input_fingerprints = PrintsIn(F, def.inputs)
    /\ AllExist(PrintsIn(F, def.outputs))

AllFit(F, rows, book, D) == \A s \in D : Fits(F, rows[s], book.steps[s])

Reused(decisions, D) == {s \in D : decisions[s].decision = "REUSE"}

(* What the loop takes for done: the steps that have succeeded behind it,  *)
(* and those it will reuse.                                                *)
Relied(j) ==
    {s \in Evaluated(j) : j.statuses[s] = "SUCCEEDED"}
      \cup (IF j.command = "resume" THEN Reused(j.decisions, Ahead(j)) ELSE {})

IsSettled(r, mark) == [run_id |-> r, mark |-> mark] \in history.settled

(* The log of run r has gone beyond all plans and all successes. *)
HasMovedOn(r) ==
    /\ \A k \in DOMAIN plans : plans[k].run_id = r => history.surveys[k].mark # Mark(r)
    /\ ~IsSettled(r, Mark(r))

(* A loop that goes by what is current goes by successes that fit.         *)
LoopStands(p) ==
    LET j == job[p]
        succeeded == j.result.status = "SUCCEEDED"
    IN  /\ Working(p) /\ j.fresh =>
              AllFit(files, steps[j.run_id], Book[j.runbook], Relied(j))
        /\ Working(p) /\ j.command = "resume" =>
              Closed(j.decisions, Book[j.runbook], Steps(Book[j.runbook]))
        /\ pc[p] \in {"finish", "record_finished"} /\ succeeded =>
              /\ j.contract.input_fingerprints = PrintsIn(files, Current(j).inputs)
              /\ AllExist(PrintsIn(files, Current(j).outputs))
        /\ Recorded(p) => HasMovedOn(j.run_id)

(* A repair reuses successes that fit, and all there is after a success.   *)
RepairStands(p) ==
    LET j == job[p]
        book == Book[j.runbook]
    IN  /\ pc[p] \in {"survey", "evaluate"} => j.mark = Mark(j.run_id)
        /\ pc[p] = "survey" => \A s \in SurveyedSteps(j) : j.contexts[s] = Context(j, s)
        /\ pc[p] = "evaluate" =>
              /\ \A s \in Steps(book) : j.contexts[s] = Context(j, s)
              /\ AllFit(files, j.records, book, Reused(j.decisions, Evaluated(j)))
              /\ IsSettled(j.run_id, j.mark) /\ MadeFrom(j.run_id, j.runbook) =>
                    Evaluated(j) = Reused(j.decisions, Evaluated(j))

(* So does a plan whose run has not changed since it was surveyed.         *)
PlanStands(k) ==
    history.surveys[k].mark = Mark(plans[k].run_id) =>
        AllFit(files, history.surveys[k].records, PlanBook(k),
               Reused(plans[k].decisions, Steps(PlanBook(k))))

(* While a success is the last thing that has happened to a run, all of it *)
(* fits.                                                                   *)
BookOf(r) == Book[runs[r].runbook_digest]
SuccessStands(e) ==
    e.mark = Mark(e.run_id) =>
        AllFit(files, steps[e.run_id], BookOf(e.run_id), Steps(BookOf(e.run_id)))

(* A live command is the one that its process waits for. *)
CommandsAreAwaited ==
    \A child \in children : \E p \in Proc :
        /\ pc[p] = "wait"
        /\ child = [attempt_id |-> job[p].attempt_id, outputs |-> Current(job[p]).outputs]

(* A stamp is never that of a missing file, the budget only falls, and no  *)
(* success is ahead of its run's log.                                      *)
Bounded ==
    /\ clock > 0 /\ \A event \in Event : budget[event] <= Budget[event]
    /\ \A e \in history.settled : e.run_id \in DOMAIN runs /\ e.mark <= Mark(e.run_id)

Lasting ==
    Calm =>
        /\ CommandsAreAwaited
        /\ \A p \in Proc : LoopStands(p) /\ RepairStands(p)
        /\ \A k \in DOMAIN plans : PlanStands(k)
        /\ \A e \in history.settled : SuccessStands(e)

=============================================================================
