----------------------------- MODULE StateStore -----------------------------
(***************************************************************************)
(* The tables of adapters/sqlite_store.py and its operations.  A table is  *)
(* a sequence of rows; the random identifier of a run, an attempt or a     *)
(* plan is the number of its row.  steps[r][s] is the row of step s of run *)
(* r.                                                                      *)
(*                                                                         *)
(* sqlite3 opens a transaction at the first INSERT or UPDATE: the writes   *)
(* of an operation are one atomic step, but the SELECT before them is not  *)
(* part of it.  So an operation that reads a row and then writes is two    *)
(* steps: Select, and the operation with what was seen as a parameter.     *)
(***************************************************************************)
EXTENDS Domain

VARIABLES runs, steps, attempts, transitions, plans

store == <<runs, steps, attempts, transitions, plans>>

RunRow == [runbook_digest : Version, status : {"RUNNING", "SUCCEEDED", "FAILED"}]

StepRow ==
    [status : StepStatus, attempt_count : Nat, contract : StepContract \cup {Null},
     failure_kind : FailureKind \cup {Null}, last_attempt_id : Nat]

StepTable == [StepId -> StepRow \cup {Null}]

AttemptRow ==
    [run_id : Nat, step_id : StepId, attempt_no : Nat, status : StepStatus,
     failure_kind : FailureKind \cup {Null}, contract : StepContract]

Reason == {"RUN_CREATED", "ATTEMPT_STARTED", "ATTEMPT_FINISHED", "PROCESS_START_ERROR",
           "DEPENDENCY_STATE", "RUN_FINISHED"} \cup FailureKind

TransitionRow ==
    [run_id : Nat, step_id : StepId \cup {Null}, from_state : StepStatus \cup {Null},
     to_state : StepStatus, reason : Reason]

(* What CommandRunner.run returns. *)
AttemptResult ==
    [status : {"SUCCEEDED", "FAILED"}, failure_kind : FailureKind \cup {Null}]

(* termination_reason, or the reason a transition gets when there is none *)
FinishReason(result) ==
    IF result.failure_kind = Null THEN "ATTEMPT_FINISHED"
    ELSE IF result.failure_kind = "INTERNAL" THEN "PROCESS_START_ERROR"
    ELSE result.failure_kind

PendingRow ==
    [status |-> "PENDING", attempt_count |-> 0, contract |-> Null,
     failure_kind |-> Null, last_attempt_id |-> 0]

Transition(r, s, from, to, reason) ==
    [run_id |-> r, step_id |-> s, from_state |-> from, to_state |-> to, reason |-> reason]

-----------------------------------------------------------------------------

StoreInit ==
    /\ runs = <<>> /\ steps = <<>> /\ attempts = <<>> /\ transitions = <<>> /\ plans = <<>>

CreateRun(digest, ids) ==
    /\ runs' = Append(runs, [runbook_digest |-> digest, status |-> "RUNNING"])
    /\ steps' = Append(steps, [s \in StepId |-> IF s \in ids THEN PendingRow ELSE Null])
    /\ transitions' = Append(transitions,
          Transition(Len(runs) + 1, Null, Null, "RUNNING", "RUN_CREATED"))
    /\ UNCHANGED <<attempts, plans>>

(* The SELECT of record_step_started, record_step_finished and             *)
(* update_step_status.                                                     *)
Select(r, s) ==
    [status |-> steps[r][s].status, attempt_count |-> steps[r][s].attempt_count]

Seen == [status : StepStatus, attempt_count : Nat]

(* mutant: attempt_count is not written back *)
StartedRowUncounted(row, seen, attempt, contract) ==
    [row EXCEPT !.status = "RUNNING", !.contract = contract, !.last_attempt_id = attempt]

(* failure_kind and exit_code keep the values of the previous attempt. *)
StartedRow(row, seen, attempt, contract) ==
    [row EXCEPT !.status = "RUNNING", !.attempt_count = seen.attempt_count + 1,
                !.contract = contract, !.last_attempt_id = attempt]

RecordStepStarted(r, s, seen, contract) ==
    /\ steps' = [steps EXCEPT ![r][s] = StartedRow(@, seen, Len(attempts) + 1, contract)]
    /\ attempts' = Append(attempts,
          [run_id |-> r, step_id |-> s, attempt_no |-> seen.attempt_count + 1,
           status |-> "RUNNING", failure_kind |-> Null, contract |-> contract])
    /\ transitions' = Append(transitions,
          Transition(r, s, seen.status, "RUNNING", "ATTEMPT_STARTED"))
    /\ UNCHANGED <<runs, plans>>

FinishedRow(row, result, contract) ==
    [row EXCEPT !.status = result.status, !.failure_kind = result.failure_kind,
                !.contract = contract]

(* mutant: the attempts are found by step, not by identifier *)
RecordStepFinishedForAll(r, s, attempt, seen, result, contract) ==
    /\ attempts' = [a \in DOMAIN attempts |->
          IF attempts[a].run_id = r /\ attempts[a].step_id = s
          THEN FinishedRow(attempts[a], result, contract) ELSE attempts[a]]
    /\ steps' = [steps EXCEPT ![r][s] = FinishedRow(@, result, contract)]
    /\ transitions' = Append(transitions,
          Transition(r, s, seen.status, result.status, FinishReason(result)))
    /\ UNCHANGED <<runs, plans>>

(* mutant: a row that is not RUNNING any more is left alone *)
RecordStepFinishedIfRunning(r, s, attempt, seen, result, contract) ==
    /\ attempts' = [attempts EXCEPT ![attempt] = FinishedRow(@, result, contract)]
    /\ steps' = [steps EXCEPT ![r][s] =
          IF seen.status = "RUNNING" THEN FinishedRow(@, result, contract) ELSE @]
    /\ transitions' = Append(transitions,
          Transition(r, s, seen.status, result.status, FinishReason(result)))
    /\ UNCHANGED <<runs, plans>>

RecordStepFinished(r, s, attempt, seen, result, contract) ==
    /\ attempts' = [attempts EXCEPT ![attempt] = FinishedRow(@, result, contract)]
    /\ steps' = [steps EXCEPT ![r][s] = FinishedRow(@, result, contract)]
    /\ transitions' = Append(transitions,
          Transition(r, s, seen.status, result.status, FinishReason(result)))
    /\ UNCHANGED <<runs, plans>>

(* mutant: the transition is not recorded *)
UpdateStepStatusOnly(r, s, seen, status) ==
    /\ steps' = [steps EXCEPT ![r][s].status = status]
    /\ UNCHANGED <<runs, attempts, transitions, plans>>

UpdateStepStatus(r, s, seen, status) ==
    /\ steps' = [steps EXCEPT ![r][s].status = status]
    /\ transitions' = Append(transitions,
          Transition(r, s, seen.status, status, "DEPENDENCY_STATE"))
    /\ UNCHANGED <<runs, attempts, plans>>

FinishRun(r, status) ==
    /\ runs' = [runs EXCEPT ![r].status = status]
    /\ transitions' = Append(transitions,
          Transition(r, Null, Null, status, "RUN_FINISHED"))
    /\ UNCHANGED <<steps, attempts, plans>>

SaveRepairPlan(r, digest, decisions) ==
    /\ plans' = Append(plans,
          [run_id |-> r, source_runbook_digest |-> digest, decisions |-> decisions])
    /\ UNCHANGED <<runs, steps, attempts, transitions>>

=============================================================================
