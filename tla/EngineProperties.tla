-------------------------- MODULE EngineProperties --------------------------
(***************************************************************************)
(* What RunWeave promises of its runs, attempts, plans and resumes.        *)
(***************************************************************************)
EXTENDS Engine

-----------------------------------------------------------------------------
(* Types *)

PlanRow == [run_id : Nat, source_runbook_digest : Version, decisions : Decisions]

Job ==
    [command : {"none", "run", "repair", "resume"}, runbook : Version, run_id : Nat,
     position : Nat, decisions : Decisions, confirmed : SUBSET StepId, statuses : Statuses,
     attempt_id : Nat, contract : StepContract \cup {Null}, seen : Seen,
     result : AttemptResult, records : StepTable, contexts : Contexts,
     inputs : InputPrints, mark : Nat, fresh : BOOLEAN]

Label == {"idle", "dispatch", "loop", "block", "start", "record_started", "spawn", "wait",
          "observe", "finish", "record_finished", "survey", "evaluate"}

Outcome == {"NONE", "OK", "STEP_FAILURE", "PLAN_STALE", "SIDE_EFFECT_CONFIRMATION_REQUIRED",
            "RUN_NOT_FOUND", "SYMLINK_NOT_ALLOWED", "CRASHED"}

Survey == [inputs : InputPrints, records : StepTable, mark : Nat]
History ==
    [read : Seq(Fingerprints \cup {Null}), disturbed : SUBSET Nat, surveys : Seq(Survey),
     settled : SUBSET [run_id : Nat, mark : Nat]]

StoreTypeOK ==
    /\ runs \in Seq(RunRow) /\ steps \in Seq(StepTable) /\ Len(steps) = Len(runs)
    /\ attempts \in Seq(AttemptRow) /\ transitions \in Seq(TransitionRow)
    /\ plans \in Seq(PlanRow)

LocalTypeOK == pc \in [Proc -> Label] /\ job \in [Proc -> Job] /\ outcome \in [Proc -> Outcome]

WorldTypeOK ==
    /\ files \in [Path -> Int] /\ clock \in Nat
    /\ bookfile \in Version /\ budget \in [Event -> Nat]
    /\ children \subseteq [attempt_id : Nat, outputs : SUBSET Path]
    /\ history \in History
    /\ Len(history.read) = Len(attempts) /\ Len(history.surveys) = Len(plans)

(* Every table, every local variable and every ghost holds values of its   *)
(* type; runs and steps, plans and surveys grow together.                  *)
TypeOK == StoreTypeOK /\ LocalTypeOK /\ WorldTypeOK

-----------------------------------------------------------------------------
(* Confirmation *)

Executing(p) ==
    pc[p] \in {"start", "record_started", "spawn", "wait", "observe", "finish",
               "record_finished"}

(* A resume executes a step with an external or destructive effect, or one *)
(* that asks for it, only when the user has confirmed that step on this    *)
(* very invocation.  The plan carries the policy of the book it was made   *)
(* from and the resume reads another copy of the file, so this rests on    *)
(* the digests (recovery.py:46-50, execution.py:119-150).                  *)
ConfirmationGate ==
    \A p \in Proc :
        /\ Executing(p) /\ job[p].command = "resume"
        /\ RequiresConfirmation(Current(job[p]))
        => CurrentStep(job[p]) \in job[p].confirmed

-----------------------------------------------------------------------------
(* Repair plans *)

Decided(k, s) == plans[k].decisions[s].decision
PlanBook(k) == Book[plans[k].source_runbook_digest]

(* A plan that reuses a step reuses everything the step was made from, and *)
(* a plan that stops for confirmation at a step executes nothing that      *)
(* depends on it (recovery.py:59-85).                                      *)
PlansAreClosed ==
    \A k \in DOMAIN plans : \A s \in Steps(PlanBook(k)) :
        \A d \in PlanBook(k).steps[s].depends_on :
            /\ Decided(k, s) = "REUSE" => Decided(k, d) = "REUSE"
            /\ Decided(k, d) \in {"CONFIRM", "BLOCK"} => Decided(k, s) = "BLOCK"

(* Attempt a has succeeded at what step s of plan k says, on the inputs    *)
(* that the repair saw; and it is those that its command has read, unless  *)
(* a file was written while it ran.                                        *)
Vouches(a, k, s) ==
    LET def == PlanBook(k).steps[s]
        contract == attempts[a].contract
        seen == history.surveys[k].inputs[s]
    IN  /\ attempts[a].run_id = plans[k].run_id /\ attempts[a].step_id = s
        /\ attempts[a].status = "SUCCEEDED"
        /\ contract.command_digest = CommandDigest(def)
        /\ contract.policy_digest = PolicyDigest(def)
        /\ contract.input_fingerprints = seen
        /\ def.inputs \cap def.outputs = {} /\ a \notin history.disturbed =>
              history.read[a] = seen

(* A plan reuses a step only when some attempt of it has succeeded under   *)
(* the same command and policy and on the same inputs: no status, output,  *)
(* crash or second process alone makes a step reusable                     *)
(* (architecture.md:89, recovery.py:86-110).                               *)
ReuseNeedsSuccess ==
    \A k \in DOMAIN plans : \A s \in Steps(PlanBook(k)) :
        Decided(k, s) = "REUSE" => \E a \in DOMAIN attempts : Vouches(a, k, s)

(* Everything a run ever executed, resumes included, it executed as its    *)
(* own run book defines it: commands and policies are never those of a     *)
(* later version of the file (execution.py:117-128).  So a repair finds    *)
(* the command and the policy changed only where the run book is.          *)
ContractsOfRun ==
    \A a \in DOMAIN attempts :
        LET def == Book[runs[attempts[a].run_id].runbook_digest].steps[attempts[a].step_id]
        IN  /\ attempts[a].contract.command_digest = CommandDigest(def)
            /\ attempts[a].contract.policy_digest = PolicyDigest(def)

(* The last attempt of step s when plan k was made. *)
LastAttempt(k, s) == history.surveys[k].records[s].last_attempt_id

(* Plan k reuses step s, which does not write its own inputs. *)
Reuses(k, s) ==
    /\ Decided(k, s) = "REUSE"
    /\ PlanBook(k).steps[s].inputs \cap PlanBook(k).steps[s].outputs = {}

(* What is reused was made from the inputs that are there now: the         *)
(* successful command had read what the repair saw, unless a file was      *)
(* edited while the command ran (execution.py:41-75, repair.py:58-70).     *)
ReuseIsSound ==
    \A k \in DOMAIN plans : \A s \in Steps(PlanBook(k)) :
        Reuses(k, s) /\ LastAttempt(k, s) \notin history.disturbed =>
            history.read[LastAttempt(k, s)] = history.surveys[k].inputs[s]

-----------------------------------------------------------------------------
(* The store *)

StepsOf(r) == {s \in StepId : steps[r][s] # Null}
Rows(r, s) == {a \in DOMAIN attempts : attempts[a].run_id = r /\ attempts[a].step_id = s}
Log(r, s) == {i \in DOMAIN transitions : transitions[i].run_id = r /\ transitions[i].step_id = s}
LastOf(I) == CHOOSE i \in I : \A k \in I : k <= i

(* The event table tells the same story as the tables it is materialized   *)
(* into: the status of a run or step is where its last transition led      *)
(* (product-spec.md:55, sqlite_store.py:203-383).                          *)
LogAgrees ==
    \A r \in DOMAIN runs :
        /\ runs[r].status = transitions[LastOf(Log(r, Null))].to_state
        /\ \A s \in StepsOf(r) :
              steps[r][s].status = IF Log(r, s) = {} THEN "PENDING"
                                   ELSE transitions[LastOf(Log(r, s))].to_state

(* The history of a step is a path: each transition starts where the one   *)
(* before it ended (architecture.md:101).                                  *)
LogIsChained ==
    \A r \in DOMAIN runs : \A s \in StepsOf(r) : \A i \in Log(r, s) :
        LET earlier == {k \in Log(r, s) : k < i}
        IN  transitions[i].from_state =
              IF earlier = {} THEN "PENDING" ELSE transitions[LastOf(earlier)].to_state

(* attempt_count counts the attempts of the step, they are numbered        *)
(* without a gap or a repetition, and the row shows the last one           *)
(* (sqlite_store.py:218-243, :271-298).                                    *)
AttemptsAreCounted ==
    \A r \in DOMAIN runs : \A s \in StepsOf(r) :
        LET row == steps[r][s]
        IN  /\ row.attempt_count = Cardinality(Rows(r, s))
            /\ {attempts[a].attempt_no : a \in Rows(r, s)} = 1..row.attempt_count
            /\ row.attempt_count > 0 =>
                  /\ row.last_attempt_id = LastOf(Rows(r, s))
                  /\ attempts[row.last_attempt_id].contract = row.contract
                  /\ row.status # "BLOCKED" =>
                        attempts[row.last_attempt_id].status = row.status

(* An attempt that has ended is never touched again, and no attempt is     *)
(* lost, whatever else runs or crashes (architecture.md:64).               *)
AttemptsAreImmutable ==
    [][\A a \in DOMAIN attempts :
          /\ a \in DOMAIN attempts'
          /\ attempts[a].status # "RUNNING" => attempts'[a] = attempts[a]]_vars

-----------------------------------------------------------------------------
(* Resume *)

(* An attempt starts only when every dependency has succeeded in the store *)
(* -- for a resume, provided nothing has happened to the run since its     *)
(* plan read it: resume takes the plan's word for the steps it reuses      *)
(* (execution.py:132-158).                                                 *)
StartsAfterDependencies ==
    \A p \in Proc :
        pc[p] = "record_started" /\ job[p].fresh =>
            \A d \in Current(job[p]).depends_on : steps[job[p].run_id][d].status = "SUCCEEDED"

(* A run or a resume of a current plan that exits with OK leaves a run     *)
(* whose every step has succeeded, and one that exits with STEP_FAILURE    *)
(* leaves one with a step that has not (cli.py:132-135).                   *)
SummaryIsHonest ==
    \A p \in Proc :
        pc[p] = "loop" /\ job[p].position > Len(Order(job[p])) /\ job[p].fresh =>
            (AllSucceeded(job[p]) <=> (\A s \in StepsOf(job[p].run_id) :
                      steps[job[p].run_id][s].status = "SUCCEEDED"))

(* The last thing the survey of plan k saw of its run was its success,     *)
(* after a run or a resume of a plan that was current.                     *)
AfterSuccess(k) ==
    [run_id |-> plans[k].run_id, mark |-> history.surveys[k].mark] \in history.settled

(* Nobody but one run has written to the workspace: no other run, no edit  *)
(* and no command that outlived its process.                               *)
Calm == Len(runs) <= 1 /\ \A event \in {"edit", "crash"} : budget[event] = Budget[event]

(* Repair finds nothing to do in a run that has just succeeded: the plan   *)
(* made right after the success reuses every step, whatever failed,        *)
(* stopped or was repaired before, and whatever revision of the run book   *)
(* was there meanwhile (test_recovery.py:76-83).                           *)
SuccessIsReused ==
    \A k \in DOMAIN plans :
        /\ Calm /\ AfterSuccess(k)
        /\ plans[k].source_runbook_digest = runs[plans[k].run_id].runbook_digest
        => \A s \in Steps(PlanBook(k)) : Decided(k, s) = "REUSE"

(* Step s of the book depends on d, through others too: d is in every set  *)
(* that holds the dependencies of s and of its members.                    *)
DependsOn(book, s, d) ==
    \A C \in SUBSET Steps(book) :
        (\A c \in C \cup {s} : book.steps[c].depends_on \subseteq C) => d \in C

(* A step depends on each other step that writes what it reads.            *)
SourcesAreDependencies ==
    \A v \in Version : \A s, d \in Steps(Book[v]) :
        /\ s # d
        /\ Book[v].steps[d].outputs \cap Book[v].steps[s].inputs # {}
        => DependsOn(Book[v], s, d)

(* Every command line ends: no loop, wait or refusal leaves a process      *)
(* stuck.  It rests on the commands to end (subprocess_runner.py:38-41).   *)
InvocationsEnd == \A p \in Proc : pc[p] # "idle" ~> pc[p] = "idle"

-----------------------------------------------------------------------------
(* The ledger of the store: its runs, with the book, the summary and the   *)
(* status of every step, and its attempts.                                 *)

Needs == [v \in Version |-> [s \in Steps(Book[v]) |-> Book[v].steps[s].depends_on]]
Editions == [r \in DOMAIN runs |-> runs[r].runbook_digest]
Verdicts == [r \in DOMAIN runs |-> runs[r].status]
StandingOf(row) == IF row = Null THEN Null ELSE row.status
Standing == [r \in DOMAIN steps |-> [s \in StepId |-> StandingOf(steps[r][s])]]
Try(row) == [run |-> row.run_id, step |-> row.step_id, state |-> row.status]
Tries == [a \in DOMAIN attempts |-> Try(attempts[a])]

Ledger == INSTANCE RunLedger WITH
    StepName <- StepId, Edition <- Version, Needs <- Needs,
    editions <- Editions, verdicts <- Verdicts, standing <- Standing, tries <- Tries

(* The engine implements the ledger: however runs, repairs, resumes of old *)
(* plans, edits, revisions and crashes interleave, no step is tried before *)
(* all it depends on was done in that run, no try ends twice, and no       *)
(* summary says SUCCEEDED of a run with a step that was never done         *)
(* (architecture.md:89, execution.py:79-162).                              *)
ImplementsLedger == Ledger!Spec

-----------------------------------------------------------------------------
(* What the documents say and the code does not do. *)

(* A resume is refused when an input of a step its plan reuses is no       *)
(* longer what it was when the plan was made (README.md:58).               *)
StaleInputsAreRejected ==
    [][\A p \in Proc, k \in DOMAIN plans, r \in DOMAIN runs :
          \A confirmed \in SUBSET GatedIn(plans[k]) :
              ResumeRunbook(p, r, k, confirmed) =>
                  \A s \in Steps(PlanBook(k)) :
                      Decided(k, s) = "REUSE" =>
                          history.surveys[k].inputs[s] =
                              Fingerprint(Definition(job[p], s).inputs)]_vars

(* A plan made from the run book as it is now, for this very run, is not   *)
(* stale: to make a new plan is the remedy for PLAN_STALE                  *)
(* (architecture.md:157).                                                  *)
FreshPlanIsAccepted ==
    [][\A p \in Proc, k \in DOMAIN plans :
          plans[k].source_runbook_digest = RunbookDigest(job[p].runbook) =>
              ~ResumeStale(p, plans[k].run_id, k)]_vars

(* An interrupted attempt is classified as such: a plan retries a step for *)
(* its failure only if its last attempt has failed (architecture.md:89).   *)
InterruptedIsClassified ==
    \A k \in DOMAIN plans : \A s \in Steps(PlanBook(k)) :
        plans[k].decisions[s].reason_code = "FAILURE_RETRYABLE" =>
            attempts[LastAttempt(k, s)].status # "RUNNING"

(* Inputs are fingerprinted before execution: a reused success was made    *)
(* from the inputs its contract records (product-spec.md:59).              *)
ContractHoldsInputsRead ==
    \A k \in DOMAIN plans : \A s \in Steps(PlanBook(k)) :
        Reuses(k, s) =>
            history.read[LastAttempt(k, s)] = history.surveys[k].inputs[s]

(* Another active process is not overwritten: no two processes wait for a  *)
(* command of the same step of a run (architecture.md:159).                *)
NoTwoExecute ==
    \A p, q \in Proc :
        /\ p # q /\ pc[p] = "wait" /\ pc[q] = "wait"
        /\ job[p].run_id = job[q].run_id
        => CurrentStep(job[p]) # CurrentStep(job[q])

=============================================================================
