------------------------------ MODULE Workspace -----------------------------
(***************************************************************************)
(* The declared paths of the workspace as fingerprint_path sees them.      *)
(* Every write gives a path a new stamp (mtime_ns is part of the           *)
(* fingerprint, so writing the same bytes again changes it too).           *)
(***************************************************************************)
EXTENDS Domain

VARIABLES
    files,  \* [Path -> Int]: Missing, Symlink, or the stamp of its content
    clock   \* the next stamp

workspace == <<files, clock>>

(* A fresh checkout: what no step makes is there, what a step makes is not. *)
WorkspaceInit ==
    LET made == UNION {UNION {Book[v].steps[s].outputs : s \in Steps(Book[v])} : v \in Version}
    IN  files = [q \in Path |-> IF q \in made THEN Missing ELSE 1] /\ clock = 2

(* LocalWorkspaceObserver.fingerprint raises on a symlink. *)
Rejected(ps) == \E q \in ps : files[q] = Symlink
Fingerprint(ps) == [q \in Path |-> IF q \in ps THEN files[q] ELSE Null]

(* A command writes the paths ps. *)
Write(ps) ==
    /\ files' = [q \in Path |-> IF q \in ps THEN clock ELSE files[q]]
    /\ clock' = IF ps = {} THEN clock ELSE clock + 1

(* The user replaces, removes or links a path. *)
Put(q, content) ==
    /\ files' = [files EXCEPT ![q] = content]
    /\ clock' = IF content = clock THEN clock + 1 ELSE clock

=============================================================================
