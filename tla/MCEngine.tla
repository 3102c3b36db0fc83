------------------------------ MODULE MCEngine ------------------------------
(* Small instances of Engine: a run book of two steps, one made from the   *)
(* output of the other and with an external effect.                        *)
EXTENDS EngineProperties, TLC

RetryTwice(kinds) == [mode |-> "BOUNDED", max_attempts |-> 3, retryable_errors |-> kinds]
NoRetry == [mode |-> "NEVER", max_attempts |-> 1, retryable_errors |-> {}]

Build ==
    [command |-> "cc", depends_on |-> {}, inputs |-> {"src"}, outputs |-> {"obj"},
     side_effect |-> "WORKSPACE_WRITE", retry |-> RetryTwice({"NON_ZERO_EXIT"}),
     evidence |-> "STANDARD", require_confirmation |-> FALSE]
Publish ==
    [command |-> "push", depends_on |-> {"build"}, inputs |-> {"obj"}, outputs |-> {},
     side_effect |-> "EXTERNAL_WRITE", retry |-> NoRetry,
     evidence |-> "STANDARD", require_confirmation |-> FALSE]

(* A run book with the given definitions, in an order that suits them. *)
RunbookOf(defs, order) ==
    [name |-> "release", declared |-> order, order |-> order,
     steps |-> [s \in {"build", "publish", "sign"} |->
                   IF s \in DOMAIN defs THEN defs[s] ELSE Null]]

Release == [build |-> Build, publish |-> Publish]

(* Someone moves the gate from publish to build. *)
Regated == [Release EXCEPT !.publish.side_effect = "NETWORK_READ",
                           !.build.require_confirmation = TRUE]

(* Someone adds a step. *)
Sign == [Build EXCEPT !.command = "sign", !.inputs = {}, !.outputs = {}]
Signed == [build |-> Build, publish |-> Publish, sign |-> Sign]

MCStepId == {"build", "publish", "sign"}
MCPath == {"src", "obj"}
MCCommand == {"cc", "push", "sign"}
MCName == {"release"}

OneBook == [v \in {1} |-> RunbookOf(Release, <<"build", "publish">>)]
Revised ==
    [v \in 1..3 |->
        CASE v = 1 -> RunbookOf(Release, <<"build", "publish">>)
          [] v = 2 -> RunbookOf(Regated, <<"build", "publish">>)
          [] v = 3 -> RunbookOf(Signed, <<"build", "publish", "sign">>)]

(* A release of one step, which asks for confirmation. *)
OneStep == [v \in {1} |-> RunbookOf([publish |-> [Publish EXCEPT !.depends_on = {}]], <<"publish">>)]

(* The condition of SuccessIsReused's theorem, which holds of these books. *)
ASSUME SourcesAssumption == SourcesAreDependencies

ProcSymmetry == Permutations(Proc)

Events(run, repair, resume, edit, revise, crash) ==
    [e \in Event |-> CASE e = "run" -> run [] e = "repair" -> repair [] e = "resume" -> resume
                       [] e = "edit" -> edit [] e = "revise" -> revise [] e = "crash" -> crash]

CrashBudget == Events(1, 2, 2, 0, 0, 1)
ChangeBudget == Events(1, 1, 1, 1, 1, 0)
EditBudget == Events(1, 1, 1, 1, 0, 0)
ReviseBudget == Events(1, 1, 1, 0, 1, 0)
PairBudget == Events(1, 1, 2, 0, 0, 1)
=============================================================================
