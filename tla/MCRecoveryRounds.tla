-------------------------- MODULE MCRecoveryRounds --------------------------
(* RecoveryRounds reads no run book file. *)
EXTENDS RecoveryRounds
NoBook == [v \in {} |-> v]
=============================================================================
