------------------------------ MODULE Recovery ------------------------------
(***************************************************************************)
(* The recovery decisions of domain/recovery.py: what a repair plan says   *)
(* of one step, given the stored record of the step, the comparison of its *)
(* stored contract with the present (the context), and the decisions       *)
(* already taken for its dependencies.                                     *)
(***************************************************************************)
EXTENDS Domain

Decision == {"REUSE", "RETRY", "RERUN", "BLOCK", "CONFIRM"}
ReasonCode ==
    {"SUCCESS_CONTRACT_MATCH", "INPUT_CHANGED", "OUTPUT_MISSING", "RUNBOOK_CHANGED",
     "COMMAND_CHANGED", "POLICY_CHANGED", "DEPENDENCY_INVALIDATED", "FAILURE_RETRYABLE",
     "FAILURE_NOT_RETRYABLE", "SIDE_EFFECT_CONFIRMATION"}
RepairDecision ==
    [decision : Decision, reason_code : ReasonCode, requires_confirmation : BOOLEAN]
Decisions == [StepId -> RepairDecision \cup {Null}]

Decide(decision, reason, confirmation) ==
    [decision |-> decision, reason_code |-> reason, requires_confirmation |-> confirmation]

RecoveryContext ==
    [runbook_digest_matches : BOOLEAN, command_digest_matches : BOOLEAN,
     policy_digest_matches : BOOLEAN, inputs_match : BOOLEAN, outputs_valid : BOOLEAN]

(* RetryPolicy.allows *)
Allows(retry, kind, attempts_so_far) ==
    /\ kind \in retry.retryable_errors
    /\ attempts_so_far < retry.max_attempts
    /\ retry.mode # "NEVER"

GatedEffects == {"EXTERNAL_WRITE", "DESTRUCTIVE"}
RequiresConfirmation(def) == def.require_confirmation \/ def.side_effect \in GatedEffects

(* A decision other than reuse is held back until a gated step is confirmed. *)
OrConfirm(def, decision) == IF RequiresConfirmation(def) THEN "CONFIRM" ELSE decision

(* Why a success can no longer be reused: the first comparison that fails. *)
ContractReason(context) ==
    IF ~context.runbook_digest_matches THEN "RUNBOOK_CHANGED"
    ELSE IF ~context.command_digest_matches THEN "COMMAND_CHANGED"
    ELSE IF ~context.policy_digest_matches THEN "POLICY_CHANGED"
    ELSE IF ~context.inputs_match THEN "INPUT_CHANGED"
    ELSE IF ~context.outputs_valid THEN "OUTPUT_MISSING"
    ELSE "SUCCESS_CONTRACT_MATCH"

EvaluateSuccess(def, context) ==
    LET reason == ContractReason(context)
    IN  IF reason = "SUCCESS_CONTRACT_MATCH"
        THEN Decide("REUSE", reason, FALSE)
        ELSE Decide(OrConfirm(def, "RERUN"), reason, RequiresConfirmation(def))

(* mutant: a decision that waits for confirmation is not marked as one *)
EvaluateFailureUnmarked(def, record) == Decide("CONFIRM", "SIDE_EFFECT_CONFIRMATION", FALSE)

(* Any status but SUCCEEDED, an interrupted RUNNING one too, is a failure  *)
(* of the recorded kind, or INTERNAL when none is recorded.                *)
EvaluateFailure(def, record) ==
    LET kind == IF record.failure_kind = Null THEN "INTERNAL" ELSE record.failure_kind
        retryable == Allows(def.retry, kind, record.attempt_count)
    IN  Decide(OrConfirm(def, IF retryable THEN "RETRY" ELSE "RERUN"),
               IF RequiresConfirmation(def) THEN "SIDE_EFFECT_CONFIRMATION"
               ELSE IF retryable THEN "FAILURE_RETRYABLE" ELSE "FAILURE_NOT_RETRYABLE",
               RequiresConfirmation(def))

(* mutant: a dependency that will be rerun does not invalidate *)
DependencyStopped(def, decided, ds) ==
    \E d \in def.depends_on :
        decided[d] # Null /\ decided[d].decision \in ds \cap {"BLOCK", "CONFIRM"}

DependencyDecided(def, decided, ds) ==
    \E d \in def.depends_on : decided[d] # Null /\ decided[d].decision \in ds

(* mutant: the outputs vouch for a step that has not succeeded *)
HasStarted(record) == record.status # "PENDING"

HasSucceeded(record) == record.status = "SUCCEEDED"

(* evaluate_step *)
EvaluateStep(def, record, context, decided) ==
    IF DependencyDecided(def, decided, {"BLOCK", "CONFIRM"})
    THEN Decide("BLOCK", "DEPENDENCY_INVALIDATED", FALSE)
    ELSE IF DependencyDecided(def, decided, {"RERUN", "RETRY"})
    THEN Decide("RERUN", "DEPENDENCY_INVALIDATED", RequiresConfirmation(def))
    ELSE IF HasSucceeded(record)
    THEN EvaluateSuccess(def, context)
    ELSE EvaluateFailure(def, record)

=============================================================================
