------------------------------- MODULE Domain -------------------------------
(***************************************************************************)
(* The vocabulary of RunWeave (domain/enums.py, domain/models.py) and the  *)
(* digests its state store compares.                                       *)
(*                                                                         *)
(* A run book file changes over time: Book[v] is its validated content at  *)
(* version v.  A digest is modelled by what it depends on (SHA-256 is      *)
(* taken to be injective): the digest of a run book is the representative  *)
(* of the versions with the same digested fields, the digest of a command  *)
(* or a policy is the tuple of the fields that go into it.                 *)
(***************************************************************************)
EXTENDS Integers, Sequences, FiniteSets

CONSTANTS
    StepId,     \* the identifiers steps may have
    Path,       \* the declared paths
    Command,    \* a command stands for argv and working_dir
    Name,       \* a name stands for the digested fields no decision reads
    Version,    \* the versions of the run book file
    Book,       \* [Version -> Runbook]
    Null        \* None, NULL, or the absence of a key

StepStatus == {"PENDING", "RUNNING", "SUCCEEDED", "FAILED", "BLOCKED"}
SideEffect == {"PURE", "WORKSPACE_WRITE", "NETWORK_READ", "EXTERNAL_WRITE", "DESTRUCTIVE"}
EvidenceMode == {"STANDARD", "REDACTED"}
FailureKind == {"NON_ZERO_EXIT", "TIMEOUT", "SIGNAL", "OUTPUT_VIOLATION",
                "PROCESS_INTERRUPTED", "INTERNAL"}

(* RetryPolicy.__post_init__ ties the number of attempts to the mode. *)
RetryPolicy ==
    {r \in [mode : {"NEVER", "ONCE", "BOUNDED"}, max_attempts : 1..10,
            retryable_errors : SUBSET FailureKind] :
        /\ r.mode = "NEVER" => r.max_attempts = 1
        /\ r.mode = "ONCE" => r.max_attempts = 2
        /\ r.mode = "BOUNDED" => r.max_attempts \in 2..10}

StepDefinition ==
    [command : Command, depends_on : SUBSET StepId,
     inputs : SUBSET Path, outputs : SUBSET Path, side_effect : SideEffect,
     retry : RetryPolicy, evidence : EvidenceMode, require_confirmation : BOOLEAN]

(* order is what execution_plan returns (module ExecutionPlan), declared   *)
(* the order of the steps in the file.                                     *)
Runbook ==
    [name : Name, steps : [StepId -> StepDefinition \cup {Null}],
     declared : Seq(StepId), order : Seq(StepId)]

-----------------------------------------------------------------------------

Steps(book) == {s \in StepId : book.steps[s] # Null}
EmptyMap == [s \in StepId |-> Null]

(* What validate_runbook accepts: dependencies are known, and the order    *)
(* lists every step once, after its dependencies.                          *)
Enumerates(seq, D) ==
    /\ {seq[i] : i \in DOMAIN seq} = D
    /\ \A i, j \in DOMAIN seq : seq[i] = seq[j] => i = j

Valid(book) ==
    /\ Enumerates(book.declared, Steps(book))
    /\ Enumerates(book.order, Steps(book))
    /\ \A i \in DOMAIN book.order :
          book.steps[book.order[i]].depends_on \subseteq {book.order[k] : k \in 1..i-1}

ASSUME BookAssumption == Book \in [Version -> Runbook] /\ \A v \in Version : Valid(Book[v])
ASSUME NullAssumption == Null \notin StepId

-----------------------------------------------------------------------------

(* mutant: the steps are left out *)
DigestedName(book) == <<book.name, book.declared>>

(* runbook_digest: root and state_dir are not digested. *)
DigestedFields(book) == <<book.name, book.declared, book.steps>>
RunbookDigest(v) == CHOOSE w \in Version : DigestedFields(Book[w]) = DigestedFields(Book[v])

(* step_policy_digest and command_digest *)
PolicyDigest(def) == <<def.side_effect, def.retry, def.evidence, def.require_confirmation>>
CommandDigest(def) == def.command

PolicyDigests == SideEffect \X RetryPolicy \X EvidenceMode \X BOOLEAN

(* The fingerprints of the paths a step declares; Null for the others.     *)
(* The number of a path stands for kind, digest, size and mtime_ns: it is  *)
(* Missing, Symlink (of which no fingerprint is taken), or the stamp of    *)
(* the write that gave the path its content.                               *)
Missing == 0
Symlink == -1
Fingerprints == [Path -> Int \cup {Null}]

StepContract ==
    [command_digest : Command, policy_digest : PolicyDigests,
     input_fingerprints : Fingerprints, output_fingerprints : Fingerprints]

AllExist(prints) == \A q \in Path : prints[q] # Missing

=============================================================================
