---------------------------- MODULE RecoveryRounds ----------------------------
(***************************************************************************)
(* Recovery as the user sees it: repair, resume, repair, resume, until the *)
(* run is done, for every small dependency graph, every choice of gated    *)
(* steps and every state a run may have been left in.  Each round plans    *)
(* the whole run (build_repair_plan) and then applies the plan step by     *)
(* step (resume_runbook).  Step identifiers are numbers in execution       *)
(* order.                                                                  *)
(*                                                                         *)
(* Module Engine has the same two operations with all they share; this one *)
(* has one invocation at a time, and many of them.  Here a plan is made in *)
(* one step, and what became of the files is kept as what evaluate_step    *)
(* would find.  A command may do anything to the files of any step, also   *)
(* if it fails, if its process was killed, and long after: nothing in the  *)
(* code confines it to what the run book declares.                         *)
(***************************************************************************)
EXTENDS Recovery, FiniteSetsExt

CONSTANTS
    N,              \* the number of steps
    MaxDisturbance  \* bound: how often something disturbs the rounds

ASSUME BoundAssumption == MaxDisturbance \in Nat
ASSUME StepAssumption == N \in Nat /\ StepId = 1..N
ASSUME AbsenceAssumption == Null \notin RepairDecision \cup FailureKind

VARIABLES
    depends_on,  \* [StepId -> SUBSET StepId]
    gated,       \* the steps that ask for confirmation
    revised,     \* whether the run book file has changed since the run
    rows,        \* [StepId -> Row], the table steps
    fit,         \* for each step, how its files compare with its contract
    pc, decisions, position,
    unready,     \* the steps resume has found FAILED or BLOCKED
    disturbance, \* how often something has disturbed the rounds
    due,         \* ghost: the smooth round in which each step should be done
    rounds,      \* ghost: the rounds that are over, up to N + 1
    written      \* ghost: what commands have changed since the plan was made

vars == <<depends_on, gated, revised, rows, fit, pc, decisions, position, unready,
          disturbance, due, rounds, written>>

book == <<depends_on, gated, revised>>
plan == <<decisions, position, unready>>
pace == <<disturbance, due, rounds>>
ghosts == <<disturbance, due, rounds, written>>

MaxAttempts == 2

Condition == {"clean", "inputs", "outputs"}

Row == [status : StepStatus, attempt_count : 0..MaxAttempts, failure_kind : {"TIMEOUT", Null}]

Def(s) ==
    [depends_on |-> depends_on[s], side_effect |-> "PURE",
     require_confirmation |-> s \in gated,
     retry |-> [mode |-> "ONCE", max_attempts |-> MaxAttempts, retryable_errors |-> {"TIMEOUT"}]]

(* A contract is of the run's own book (ContractsOfRun of EngineProperties *)
(* is proved): command and policy differ only if the run book does.        *)
ContextOf(s) ==
    [runbook_digest_matches |-> ~revised, command_digest_matches |-> ~revised,
     policy_digest_matches |-> ~revised,
     inputs_match |-> fit[s] # "inputs", outputs_valid |-> fit[s] # "outputs"]

-----------------------------------------------------------------------------
(* What a plan and a sequence of rounds should do *)

Ancestors ==
    LET above[s \in StepId] == depends_on[s] \cup UNION {above[d] : d \in depends_on[s]}
    IN  above

Fits(s) == rows[s].status = "SUCCEEDED" /\ fit[s] = "clean" /\ ~revised
Clean(s) == \A a \in Ancestors[s] \cup {s} : Fits(a)
Dirty == {s \in StepId : ~Clean(s)}

(* Work starts at a step that is dirty though all it depends on is clean;  *)
(* a plan stops there when the step is gated.                              *)
Origin(s) == s \in Dirty /\ depends_on[s] \cap Dirty = {}
Stops(s) == Origin(s) /\ s \in gated

(* A step is done in the round of the last step it depends on, or in the   *)
(* next one if the plan of that round stops at one of its ancestors.       *)
Due ==
    LET round[s \in StepId] ==
            LET ds == depends_on[s] \cap Dirty
                last == IF ds = {} THEN 1 ELSE Max({round[d] : d \in ds})
                stop == \E a \in Ancestors[s] \cap Dirty :
                           /\ a \in gated /\ round[a] = last
                           /\ \A d \in depends_on[a] \cap Dirty : round[d] < last
            IN  IF stop THEN last + 1 ELSE last
    IN  [s \in StepId |-> IF s \in Dirty THEN round[s] ELSE 0]

-----------------------------------------------------------------------------

(* How a run leaves a step when it ends or is killed, and what has become  *)
(* of its files since.                                                     *)
Stand(status, count, kind, files) ==
    [row |-> [status |-> status, attempt_count |-> count, failure_kind |-> kind], fit |-> files]

LeftBehind ==
    {Stand("PENDING", 0, Null, "clean"), Stand("BLOCKED", 0, Null, "clean"),
     Stand("RUNNING", 1, Null, "clean"), Stand("RUNNING", 2, "TIMEOUT", "clean")}
    \cup {Stand("FAILED", count, "TIMEOUT", "clean") : count \in 1..MaxAttempts}
    \cup {Stand("SUCCEEDED", 1, Null, files) : files \in Condition}

(* Only dependents are ever blocked, and a run that was killed has not     *)
(* come to the steps after the one it was killed at.                       *)
Init ==
    /\ depends_on \in {f \in [StepId -> SUBSET StepId] : \A s \in StepId : f[s] \subseteq 1..s-1}
    /\ gated \in SUBSET StepId
    /\ revised \in BOOLEAN
    /\ \E left \in [StepId -> LeftBehind] :
          rows = [s \in StepId |-> left[s].row] /\ fit = [s \in StepId |-> left[s].fit]
    /\ \A s \in StepId :
          /\ revised => fit[s] = "clean"
          /\ rows[s].status = "BLOCKED" => depends_on[s] # {}
          /\ rows[s].status = "PENDING" => \A t \in s..N : rows[t].status = "PENDING"
    /\ pc = "repair" /\ decisions = EmptyMap /\ position = 1 /\ unready = {}
    /\ disturbance = 0 /\ due = Due /\ rounds = 0 /\ written = "nothing"

(* build_repair_plan *)
Evaluated ==
    LET decided[n \in 0..N] ==
            IF n = 0 THEN EmptyMap
            ELSE [decided[n - 1] EXCEPT ![n] =
                     EvaluateStep(Def(n), rows[n], ContextOf(n), decided[n - 1])]
    IN  decided[N]

Repair ==
    /\ pc = "repair"
    /\ decisions' = Evaluated /\ position' = 1 /\ unready' = {}
    /\ pc' = "resume" /\ written' = "nothing"
    /\ UNCHANGED <<book, rows, fit, pace>>

(* The user gives up a run whose plans are refused. *)
ResumeStale ==
    /\ pc = "resume" /\ revised /\ position = 1
    /\ pc' = "refused"
    /\ UNCHANGED <<book, rows, fit, plan, ghosts>>

AtStep == pc = "resume" /\ ~revised /\ position <= N
Planned(ds) == decisions[position].decision \in ds
Ready == depends_on[position] \cap unready = {}

Advance == position' = position + 1 /\ UNCHANGED <<book, pc, decisions>>

StepReuse ==
    /\ AtStep /\ Planned({"REUSE"})
    /\ Advance
    /\ UNCHANGED <<rows, fit, unready, ghosts>>

Blocked == Planned({"BLOCK"}) \/ (~Planned({"REUSE"}) /\ ~Ready)

(* mutant: the row of a step that is held back is left alone *)
StepBlockedOnly ==
    /\ AtStep /\ Blocked
    /\ unready' = unready \cup {position}
    /\ Advance
    /\ UNCHANGED <<rows, fit, ghosts>>

(* Nothing is executed; if the step needs a confirmation it has it (if not *)
(* the resume ends first, Abandon).                                        *)
StepBlocked ==
    /\ AtStep /\ Blocked
    /\ rows' = [rows EXCEPT ![position].status = "BLOCKED"]
    /\ fit' = [fit EXCEPT ![position] = "clean"]
    /\ unready' = unready \cup {position}
    /\ Advance
    /\ UNCHANGED ghosts

Executes == AtStep /\ ~Planned({"REUSE", "BLOCK"}) /\ Ready

Attempted(status, kind) ==
    [status |-> status, failure_kind |-> kind,
     attempt_count |-> Min({rows[position].attempt_count + 1, MaxAttempts})]

(* From here on the rounds are not smooth, and nothing is due. *)
Disturbed ==
    /\ disturbance < MaxDisturbance /\ disturbance' = disturbance + 1
    /\ due' = [s \in StepId |-> 0] /\ rounds' = 0

smooth == disturbance = 0

(* What a command may make of the files of these steps.                    *)
Aftermath(others) ==
    {[t \in StepId |-> IF t \in others THEN new[t] ELSE fit[t]] : new \in [others -> Condition]}

(* Of a step that has not succeeded nobody asks in what condition they     *)
(* are, and of none if the book is not the one it succeeded by.            *)
Judged == {t \in StepId : rows[t].status = "SUCCEEDED" /\ ~revised}

Touched(files) == {t \in StepId : files[t] # fit[t]}
Behind(s) == {s} \cup {t \in StepId : s \in Ancestors[t]}

(* A command of step s leaves these files.  During a resume it matters if  *)
(* it has changed only what is behind s, and if the plan reuses s.         *)
Contained(s, files) ==
    Touched(files) \subseteq Behind(s) /\ decisions[s].decision # "REUSE"

Writes(s, files) ==
    written' = CASE pc # "resume" \/ Touched(files) = {} -> written
                 [] OTHER -> IF Contained(s, files) /\ written # "beyond" THEN "behind"
                             ELSE "beyond"

(* The step is executed, with its confirmation if it needs one.            *)
StepSucceeds(files) ==
    /\ Executes /\ Writes(position, files)
    /\ rows' = [rows EXCEPT ![position] = Attempted("SUCCEEDED", Null)]
    /\ fit' = [files EXCEPT ![position] = "clean"]
    /\ Advance
    /\ \/ Touched(files) \subseteq Behind(position) /\ UNCHANGED pace
       \/ ~(Touched(files) \subseteq Behind(position)) /\ Disturbed
    /\ UNCHANGED unready

StepFails(files) ==
    /\ Executes /\ Writes(position, files)
    /\ rows' = [rows EXCEPT ![position] = Attempted("FAILED", "TIMEOUT")]
    /\ fit' = [files EXCEPT ![position] = "clean"]
    /\ unready' = unready \cup {position}
    /\ Advance
    /\ Disturbed

(* An invocation ends, and its plan with it. *)
Over ==
    /\ pc' = "repair" /\ decisions' = EmptyMap /\ position' = 1 /\ unready' = {}
    /\ written' = "nothing"

(* The process is killed while it executes the step.  The command goes on, *)
(* and what it writes later is StrayWrites.                                *)
Crash(files) ==
    /\ Executes
    /\ rows' = [rows EXCEPT ![position] = Attempted("RUNNING", @.failure_kind)]
    /\ fit' = [files EXCEPT ![position] = "clean"]
    /\ Over /\ Disturbed
    /\ UNCHANGED book

(* A process of an attempt that was killed, or that is over for the        *)
(* runner, writes, at any time: what step t was judged by is changed.      *)
StrayWrites(s, t, condition) ==
    /\ rows[s].attempt_count > 0
    /\ t \in Judged /\ condition # fit[t]
    /\ fit' = [fit EXCEPT ![t] = condition]
    /\ Writes(s, fit')
    /\ Disturbed
    /\ UNCHANGED <<book, rows, pc, plan>>

(* The user has not confirmed the step. *)
Abandon ==
    /\ AtStep /\ ~Planned({"REUSE", "BLOCK"})
    /\ decisions[position].requires_confirmation
    /\ Over /\ Disturbed
    /\ UNCHANGED <<book, rows, fit>>

RoundEnds ==
    /\ pc = "resume" /\ position > N
    /\ Over
    /\ rounds' = IF smooth THEN Min({rounds + 1, N + 1}) ELSE 0
    /\ UNCHANGED <<book, rows, fit, disturbance, due>>

Commands ==
    \/ \E files \in Aftermath(Judged \ {position}) :
          StepSucceeds(files) \/ StepFails(files) \/ Crash(files)
    \/ \E s, t \in StepId, condition \in Condition : StrayWrites(s, t, condition)

Next ==
    \/ Repair \/ ResumeStale \/ RoundEnds
    \/ StepReuse \/ StepBlocked \/ Commands \/ Abandon

Spec == Init /\ [][Next]_vars

-----------------------------------------------------------------------------

(* A plan reuses what is clean back to its roots, asks at the first gated  *)
(* steps that are not, holds back everything behind those, retries or      *)
(* reruns the other origins, and reruns all that is left: with a           *)
(* confirmation if gated (recovery.py:53-149, repair.py:60-77).            *)
PlanIsClosedForm ==
    pc = "resume" /\ position = 1 /\ written = "nothing" => \A s \in StepId :
        LET d == decisions[s]
            held == \E a \in Ancestors[s] : Stops(a)
            retryable == /\ rows[s].status # "SUCCEEDED" /\ rows[s].failure_kind = "TIMEOUT"
                         /\ rows[s].attempt_count < MaxAttempts
        IN  /\ d.decision = "REUSE" <=> Clean(s)
            /\ d.decision = "CONFIRM" <=> Stops(s)
            /\ d.decision = "BLOCK" <=> held
            /\ d.decision = "RETRY" <=> Origin(s) /\ ~Stops(s) /\ retryable
            /\ d.requires_confirmation <=> s \in gated /\ ~Clean(s) /\ ~held
            /\ d.reason_code = "DEPENDENCY_INVALIDATED" <=> ~Clean(s) /\ ~Origin(s)

(* While no command fails or is killed, all that a plan asks is confirmed, *)
(* and a command changes only what steps behind its own were judged by     *)
(* (no step reads what a step it does not depend on writes), each round    *)
(* gets done exactly the steps that are due in it, whatever the state the  *)
(* run was left in: a chain that starts with k gated steps takes k rounds  *)
(* for them and one for all the rest, and then the run is done             *)
(* (recovery.py:59-85, execution.py:132-158).                              *)
RoundsAreExact ==
    pc = "repair" /\ smooth /\ ~revised =>
        \A s \in StepId : Clean(s) <=> due[s] <= rounds

(* What a plan reuses still stands when the resume is through, and at      *)
(* every step of it, though commands write whether they succeed, fail or   *)
(* were killed in an earlier round: as long as each changes only what      *)
(* steps behind its own were judged by.  A process that was left behind    *)
(* does no harm until its step has been done again and is itself reused    *)
(* (execution.py:50-76, :136-158, recovery.py:73-85).                      *)
ReuseStands ==
    pc = "resume" /\ ~revised /\ written # "beyond" =>
        \A s \in StepId : decisions[s].decision = "REUSE" => Clean(s)

=============================================================================
