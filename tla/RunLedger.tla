------------------------------ MODULE RunLedger ------------------------------
(***************************************************************************)
(* What RunWeave is for, without plans, processes, files or crashes: an    *)
(* account of the runs, in which a try of a step begins only once all it   *)
(* depends on has been done, ends once, and stays as it ended; and in      *)
(* which a run is called a success only when all its steps were done.      *)
(*                                                                         *)
(* "Done" means that some try of the step has succeeded in this run.  The  *)
(* ledger does not promise that the last one did: a plan may be applied    *)
(* when it is no longer current (EngineProperties, StartsAfterDependencies *)
(* says what holds for one that is).                                       *)
(***************************************************************************)
EXTENDS Naturals, Sequences

CONSTANTS
    StepName, \* the identifiers of steps
    Edition,  \* run books, up to their digest
    Needs,    \* Needs[e]: for each step of e, the steps it depends on
    Null

VARIABLES
    editions,  \* for each run, the run book it was made from
    verdicts,  \* for each run, its summary
    standing,  \* for each run and step, the status of the step
    tries      \* every try of a step of a run, in the order of their beginning

ledger == <<editions, verdicts, standing, tries>>

Done(r, s) ==
    \E t \in DOMAIN tries :
        tries[t].run = r /\ tries[t].step = s /\ tries[t].state = "SUCCEEDED"

StepsIn(r) == DOMAIN Needs[editions[r]]
Ready(r, s) == \A d \in Needs[editions[r]][s] : Done(r, d)

Stand(r, s, status) == standing' = [standing EXCEPT ![r][s] = status]

-----------------------------------------------------------------------------

Init == editions = <<>> /\ verdicts = <<>> /\ standing = <<>> /\ tries = <<>>

Create(e) ==
    /\ editions' = Append(editions, e)
    /\ verdicts' = Append(verdicts, "RUNNING")
    /\ standing' = Append(standing,
          [s \in StepName |-> IF s \in DOMAIN Needs[e] THEN "PENDING" ELSE Null])
    /\ UNCHANGED tries

Begin(r, s) ==
    /\ Ready(r, s)
    /\ tries' = Append(tries, [run |-> r, step |-> s, state |-> "RUNNING"])
    /\ Stand(r, s, "RUNNING")
    /\ UNCHANGED <<editions, verdicts>>

End(t, result) ==
    /\ tries[t].state = "RUNNING"
    /\ tries' = [tries EXCEPT ![t].state = result]
    /\ Stand(tries[t].run, tries[t].step, result)
    /\ UNCHANGED <<editions, verdicts>>

(* Only a step that depends on others is ever held back. *)
Hold(r, s) ==
    /\ Needs[editions[r]][s] # {}
    /\ Stand(r, s, "BLOCKED")
    /\ UNCHANGED <<editions, verdicts, tries>>

Close(r, verdict) ==
    /\ verdict = "SUCCEEDED" => \A s \in StepsIn(r) : Done(r, s)
    /\ verdicts' = [verdicts EXCEPT ![r] = verdict]
    /\ UNCHANGED <<editions, standing, tries>>

Next ==
    \/ \E e \in Edition : Create(e)
    \/ \E r \in DOMAIN editions : \E s \in StepsIn(r) : Begin(r, s) \/ Hold(r, s)
    \/ \E t \in DOMAIN tries, result \in {"SUCCEEDED", "FAILED"} : End(t, result)
    \/ \E r \in DOMAIN editions, verdict \in {"SUCCEEDED", "FAILED"} : Close(r, verdict)

Spec == Init /\ [][Next]_ledger

=============================================================================
