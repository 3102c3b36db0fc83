---------------------------- MODULE RunbookLoading ----------------------------
(***************************************************************************)
(* load_runbook (adapters/yaml_runbook.py), validate_runbook and           *)
(* execution_plan (domain/validation.py): from the file, as YAML reads it, *)
(* to a run book with an execution order, or to the code of a refusal.     *)
(*                                                                         *)
(* A field of the file is absent (Null), of a wrong type or outside its    *)
(* enumeration (Bad), or has a value.  Identifiers are numbers in the      *)
(* order sorted() gives them: 1..N are well formed, Odd is not, Nobody is  *)
(* the identifier of no step.  Paths, environment names and the items of a *)
(* command stand only for what is asked of them.                           *)
(***************************************************************************)
EXTENDS Domain, ExecutionPlan

CONSTANTS
    Bad,
    Files  \* sets of files: those that are loaded

ASSUME StepAssumption == StepId = Id /\ "name" \in Name /\ "argv" \in Command

VARIABLES
    file,   \* [header : SUBSET HeaderFault, steps : [1..N -> RawStep]]
    phase,  \* "parse", "validate", "plan" or "done"
    fault   \* the code of the refusal, or Null

vars == <<file, phase, fault, depends_on, indegree, current, order, levels, verdict>>

Odd == 0
Nobody == N + 1
IdName == {Odd, Nobody} \cup Id

(* What may be wrong with the file apart from its steps.                   *)
HeaderFault ==
    {"unreadable", "not_a_mapping", "unknown_field", "schema_version_type",
     "name_type", "steps_type", "schema_version", "blank_name", "no_steps"}

(* The items of retryable_errors that there are, and one that is unknown.  *)
ErrorName == FailureKind \cup {"UNLISTED"}

(* If the step or its retry is not a mapping (Bad), nobody looks at what   *)
(* would be in it.                                                         *)
RawStep ==
    [shape : {"mapping", Bad},
     id : (IdName \ {Nobody}) \cup {Bad},
     command : {"argv", "blank_item", Bad},
     depends_on : [IdName -> 0..Repeats] \cup {Bad},
     paths : {"inside", "outside", Bad},        \* inputs, outputs, working_dir
     env : {"distinct", "repeated", Bad},
     timeout : {"positive", "nonpositive", Null, Bad},
     side_effect : SideEffect \cup {Null, Bad},
     retry : {"mapping", Bad},
     mode : {"NEVER", "ONCE", "BOUNDED", Null, Bad},
     max_attempts : Int \cup {Null, Bad},
     retryable_errors : {Bad} \cup SUBSET ErrorName,
     evidence : EvidenceMode \cup {Null, Bad},
     require_confirmation : {TRUE, FALSE, Null, Bad},   \* Bad: or recovery is
     unknown_keys : BOOLEAN]                    \* such as a misspelt name

(* The codes of the refusals. *)
FaultCode ==
    {"RUNBOOK_READ_ERROR", "UNKNOWN_FIELD", "INVALID_SCHEMA_VERSION", "MISSING_RUNBOOK_NAME",
     "INVALID_STEPS", "MISSING_STEP_ID", "INVALID_COMMAND", "INVALID_FIELD_TYPE", "INVALID_ENUM",
     "INVALID_RETRY_POLICY", "INTERNAL_ERROR", "UNSUPPORTED_SCHEMA_VERSION",
     "INVALID_RUNBOOK_NAME", "NO_STEPS", "DUPLICATE_STEP_ID", "INVALID_STEP_ID",
     "UNKNOWN_DEPENDENCY", "PATH_OUTSIDE_ROOT", "DUPLICATE_ENV_NAME", "DEPENDENCY_CYCLE"}

File == [header : SUBSET HeaderFault, steps : [Id -> RawStep]]

ASSUME FilesAssumption == \A family \in Files : \A f \in family : f \in File
ASSUME AbsenceAssumption ==
    /\ Null # Bad
    /\ \A absent \in {Null, Bad} :
          /\ absent \notin FaultCode \cup StepDefinition \cup IdName \cup Int \cup BOOLEAN
                          \cup SideEffect \cup EvidenceMode \cup {"NEVER", "ONCE", "BOUNDED"}
                          \cup {"mapping", "argv", "blank_item", "positive", "nonpositive"}
                          \cup {"inside", "outside", "distinct", "repeated"}
                          \cup [IdName -> 0..Repeats]
          /\ \A kinds \in SUBSET ErrorName : absent # kinds

-----------------------------------------------------------------------------
(* What loading finds first: the code of a refusal, or Null.               *)

FirstInSteps(faults) ==
    LET faulty == {i \in Id : faults[i] # Null}
    IN  IF faulty = {} THEN Null ELSE faults[Min(faulty)]

Or(value, default) == IF value = Null THEN default ELSE value

(* _retry: a mode has a number of attempts of its own, if none is given. *)
RetryOf(raw) ==
    LET mode == Or(raw.mode, "NEVER")
    IN  [mode |-> mode, retryable_errors |-> raw.retryable_errors,
         max_attempts |-> Or(raw.max_attempts,
            CASE mode = "NEVER" -> 1 [] mode = "ONCE" -> 2 [] OTHER -> 3)]

(* mutant: any number of attempts is good enough for BOUNDED *)
PolicyIsValidUnbounded(retry) ==
    CASE retry.mode = "NEVER" -> retry.max_attempts = 1
      [] retry.mode = "ONCE" -> retry.max_attempts = 2
      [] OTHER -> TRUE

(* RetryPolicy.__post_init__ *)
PolicyIsValid(retry) ==
    CASE retry.mode = "NEVER" -> retry.max_attempts = 1
      [] retry.mode = "ONCE" -> retry.max_attempts = 2
      [] OTHER -> retry.max_attempts \in 2..10

(* _step, in the order in which it looks at the fields.  The last test is  *)
(* StepDefinition.__post_init__: its ValueError is caught by main only.    *)
StepFault(raw) ==
    IF raw.shape = Bad THEN "INVALID_FIELD_TYPE"
    ELSE IF raw.id = Bad THEN "MISSING_STEP_ID"
    ELSE IF raw.command = Bad THEN "INVALID_COMMAND"
    ELSE IF raw.require_confirmation = Bad \/ raw.timeout = Bad THEN "INVALID_FIELD_TYPE"
    ELSE IF raw.depends_on = Bad \/ Bad \in {raw.paths, raw.env} THEN "INVALID_FIELD_TYPE"
    ELSE IF raw.side_effect = Bad THEN "INVALID_ENUM"
    ELSE IF raw.retry = Bad THEN "INVALID_FIELD_TYPE"
    ELSE IF raw.mode = Bad THEN "INVALID_ENUM"
    ELSE IF raw.max_attempts = Bad \/ raw.retryable_errors = Bad THEN "INVALID_FIELD_TYPE"
    ELSE IF ~(raw.retryable_errors \subseteq FailureKind) THEN "INVALID_ENUM"
    ELSE IF ~PolicyIsValid(RetryOf(raw)) THEN "INVALID_RETRY_POLICY"
    ELSE IF raw.evidence = Bad THEN "INVALID_ENUM"
    ELSE IF raw.command = "blank_item" \/ raw.timeout = "nonpositive" THEN "INTERNAL_ERROR"
    ELSE Null

(* load_runbook *)
FileFault ==
    LET has(f) == f \in file.header
    IN  IF has("unreadable") THEN "RUNBOOK_READ_ERROR"
        ELSE IF has("not_a_mapping") THEN "INVALID_FIELD_TYPE"
        ELSE IF has("unknown_field") THEN "UNKNOWN_FIELD"
        ELSE IF has("schema_version_type") THEN "INVALID_SCHEMA_VERSION"
        ELSE IF has("name_type") THEN "MISSING_RUNBOOK_NAME"
        ELSE IF has("steps_type") THEN "INVALID_STEPS"
        ELSE FirstInSteps([i \in Id |-> StepFault(file.steps[i])])

UnknownDependency(raw) ==
    \E d \in IdName : raw.depends_on[d] > 0 /\ \A i \in Id : file.steps[i].id # d

(* mutant: paths are not looked at *)
DefinitionFaultNoPaths(raw) ==
    IF raw.id = Odd THEN "INVALID_STEP_ID"
    ELSE IF UnknownDependency(raw) THEN "UNKNOWN_DEPENDENCY"
    ELSE IF raw.env = "repeated" THEN "DUPLICATE_ENV_NAME"
    ELSE Null

(* the loop of validate_runbook *)
DefinitionFault(raw) ==
    IF raw.id = Odd THEN "INVALID_STEP_ID"
    ELSE IF UnknownDependency(raw) THEN "UNKNOWN_DEPENDENCY"
    ELSE IF raw.paths = "outside" THEN "PATH_OUTSIDE_ROOT"
    ELSE IF raw.env = "repeated" THEN "DUPLICATE_ENV_NAME"
    ELSE Null

(* validate_runbook *)
BookFault ==
    IF "schema_version" \in file.header THEN "UNSUPPORTED_SCHEMA_VERSION"
    ELSE IF "blank_name" \in file.header THEN "INVALID_RUNBOOK_NAME"
    ELSE IF "no_steps" \in file.header THEN "NO_STEPS"
    ELSE IF Cardinality({file.steps[i].id : i \in Id}) # N THEN "DUPLICATE_STEP_ID"
    ELSE FirstInSteps([i \in Id |-> DefinitionFault(file.steps[i])])

-----------------------------------------------------------------------------

Init ==
    /\ \E family \in Files : file \in family
    /\ phase = "parse" /\ fault = Null
    /\ PlanInit

(* Loading goes on, or stops with the first fault. *)
Conclusion(found, next) ==
    /\ fault' = found
    /\ phase' = IF fault' = Null THEN next ELSE "done"
    /\ UNCHANGED file

Parse ==
    /\ phase = "parse"
    /\ Conclusion(FileFault, "validate")
    /\ UNCHANGED planning

Validate ==
    /\ phase = "validate"
    /\ Conclusion(BookFault, "plan")
    /\ UNCHANGED planning

Index(s) == CHOOSE i \in Id : file.steps[i].id = s

StartPlan ==
    /\ phase = "plan"
    /\ Start([s \in Id |-> [d \in Id |-> file.steps[Index(s)].depends_on[d]]])
    /\ UNCHANGED <<file, phase, fault>>

EmitLevel == phase = "plan" /\ Emit /\ UNCHANGED <<file, phase, fault>>

ConcludePlan ==
    /\ phase = "plan" /\ Conclude
    /\ fault' = IF verdict' = "PLANNED" THEN Null ELSE verdict'
    /\ phase' = "done"
    /\ UNCHANGED file

Next == Parse \/ Validate \/ StartPlan \/ EmitLevel \/ ConcludePlan

Spec == Init /\ [][Next]_vars /\ WF_vars(Next)

-----------------------------------------------------------------------------

Accepted == phase = "done" /\ fault = Null

(* The StepDefinition that _step returns. *)
Loaded(raw) ==
    [command |-> raw.command, depends_on |-> {d \in IdName : raw.depends_on[d] > 0},
     inputs |-> {}, outputs |-> {}, side_effect |-> Or(raw.side_effect, "PURE"),
     retry |-> RetryOf(raw), evidence |-> Or(raw.evidence, "STANDARD"),
     require_confirmation |-> Or(raw.require_confirmation, FALSE)]

LoadedBook ==
    [name |-> "name", declared |-> [i \in Id |-> file.steps[i].id], order |-> order,
     steps |-> [s \in StepId |-> Loaded(file.steps[Index(s)])]]

(* Whatever is accepted is a run book as the rest of the program takes it  *)
(* for granted: each step typed, with a retry policy that fits its mode,   *)
(* the identifiers unique and known, the order complete and after all      *)
(* dependencies.  It is what BookAssumption of module Domain, and with it  *)
(* every proof about the engine, relies on (validation.py:27-103).         *)
AcceptedIsRunnable == Accepted => LoadedBook \in Runbook /\ Valid(LoadedBook)

(* Nothing is wrong with the file, wherever one looks first.  A step that  *)
(* is BOUNDED and does not say how often passes, for the loader says 3     *)
(* (yaml_runbook.py:49), and so does one with unknown keys, for nobody     *)
(* looks at them (:69-114).  runbook-schema.md:67 and :5 would have both   *)
(* refused: MisspeltKeysAreNoticed below, which the code does not have.    *)
Faultless ==
    /\ file.header = {}
    /\ {file.steps[i].id : i \in Id} = Id
    /\ \A i \in Id :
          LET raw == file.steps[i]
          IN  /\ \A f \in DOMAIN raw : raw[f] # Bad
              /\ raw.command = "argv" /\ raw.timeout # "nonpositive"
              /\ raw.paths = "inside" /\ raw.env = "distinct"
              /\ \A d \in {Odd, Nobody} : raw.depends_on[d] = 0
              /\ RetryOf(raw) \in RetryPolicy

HasCycle ==
    \E C \in (SUBSET Id) \ {{}} :
        \A s \in C : \E d \in C : file.steps[Index(s)].depends_on[d] > 0

(* A file is accepted exactly when nothing is wrong with it and its        *)
(* dependencies have no cycle: one fault never hides behind another or     *)
(* behind the order of the steps, and no check refuses a sound file        *)
(* (yaml_runbook.py:69-157, validation.py:27-103).                         *)
AcceptedIfFaultless ==
    phase = "done" => (Accepted <=> Faultless /\ ~HasCycle)

(* Loading ends, with a plan or with the code of a refusal, for every file *)
(* and every graph (validation.py:84-94).                                  *)
LoadingEnds == <>(phase = "done")

(* A BOUNDED step whose max_attempts is misspelt is refused, and twice     *)
(* over: the key that is there is unknown (runbook-schema.md:5), and the   *)
(* one that is required is not there (runbook-schema.md:67).               *)
MisspeltKeysAreNoticed ==
    Accepted => \A i \in Id :
        LET raw == file.steps[i]
        IN  ~(raw.unknown_keys /\ raw.mode = "BOUNDED" /\ raw.max_attempts = Null)

=============================================================================
