---------------------------- MODULE CommandRunner ----------------------------
(***************************************************************************)
(* LocalCommandRunner.run (adapters/subprocess_runner.py): one command     *)
(* under a time limit.  The command is a tree of processes: the leader of  *)
(* a session of its own, and whatever it forks.  The runner sees little of *)
(* it: the end of the two pipes, which comes when no process holds them,   *)
(* and the exit code of the leader.                                        *)
(*                                                                         *)
(* What a process will do about signals and pipes is chosen when it is     *)
(* forked.  The clock is not modelled: the limit may pass at any moment    *)
(* while the runner waits.                                                 *)
(***************************************************************************)
CONSTANTS
    Process,  \* the processes the command may consist of
    Leader,   \* the one that Popen starts
    Null

ASSUME LeaderAssumption == Leader \in Process

VARIABLES
    pc,         \* where the runner is
    limit,      \* whether timeout_seconds is one that select can wait for
    conduct,    \* for each process that was started, what it will do
    alive,      \* the processes that have not ended
    signalled,  \* the processes with a SIGTERM of the runner
    returncode, \* how the leader ended
    result      \* what run returns

vars == <<pc, limit, conduct, alive, signalled, returncode, result>>

(* stubborn: ignores or handles SIGTERM.  foreign: belongs to another      *)
(* user, who takes no signal from the runner (sudo).  grouped: still in    *)
(* the process group of the leader.  piped: holds stdout or stderr.        *)
(* wild, a ghost: unruly, or with an unruly ancestor.                      *)
Conduct ==
    [stubborn : BOOLEAN, foreign : BOOLEAN, grouped : BOOLEAN, piped : BOOLEAN, wild : BOOLEAN]

Unruly(c) == c.stubborn \/ c.foreign \/ ~c.grouped

ConductOfLeader == {c \in Conduct : c.grouped /\ (c.wild <=> Unruly(c))}

(* A child may leave the group and drop the pipes, and cannot get back     *)
(* what its parent has left or dropped.                                    *)
ConductOfChild(parent) ==
    {c \in Conduct :
        /\ c.grouped => parent.grouped
        /\ c.piped => parent.piped
        /\ c.wild <=> Unruly(c) \/ parent.wild}

ReturnCode == {"ZERO", "NON_ZERO", "SIGNAL"}
Kind == {"SUCCEEDED", "NON_ZERO_EXIT", "SIGNAL", "TIMEOUT", "INTERNAL", "EXCEPTION"}
NoExitCode == {"INTERNAL", "EXCEPTION"}
Result ==
    {r \in [kind : Kind, exit_code : ReturnCode \cup {Null}] :
        r.exit_code = Null <=> r.kind \in NoExitCode}

ASSUME NullAssumption == Null \notin Conduct \cup Result \cup ReturnCode

tree == <<conduct, alive, signalled, returncode>>

(* Both pipes are at their end and the leader can be waited for.           *)
CommandOver == (\A q \in alive : ~conduct[q].piped) /\ returncode # Null

-----------------------------------------------------------------------------

Init ==
    /\ pc = "start" /\ limit \in {"usable", "unusable"}
    /\ conduct = [q \in Process |-> Null] /\ alive = {} /\ signalled = {}
    /\ returncode = Null /\ result = Null

Return(kind, code) ==
    /\ pc' = "done"
    /\ result' = [kind |-> kind, exit_code |-> code]
    /\ UNCHANGED limit

Spawn ==
    /\ pc = "start"
    /\ pc' = "communicate"
    /\ \E c \in ConductOfLeader : conduct' = [conduct EXCEPT ![Leader] = c]
    /\ alive' = {Leader}
    /\ UNCHANGED <<limit, signalled, returncode, result>>

SpawnFails ==
    /\ pc = "start"
    /\ Return("INTERNAL", Null)
    /\ UNCHANGED tree

(* communicate(timeout) adds the timeout to the clock and hands it to      *)
(* select, which refuses NaN and what does not fit its type.  Nothing      *)
(* catches this, and the command is left alone.                            *)
Raise ==
    /\ pc = "communicate" /\ limit = "unusable"
    /\ Return("EXCEPTION", Null)
    /\ UNCHANGED tree

KindOf(code) ==
    CASE code = "ZERO" -> "SUCCEEDED"
      [] code = "SIGNAL" -> "SIGNAL"
      [] OTHER -> "NON_ZERO_EXIT"

(* mutant: the end of the pipes is taken for the end of the command *)
CompleteAtEnd ==
    /\ pc = "communicate" /\ limit = "usable"
    /\ \A q \in alive : ~conduct[q].piped
    /\ Return(KindOf(returncode), returncode)
    /\ UNCHANGED tree

(* mutant: the runner waits for the leader and not for its output *)
CompleteWithLeader ==
    /\ pc = "communicate" /\ limit = "usable" /\ returncode # Null
    /\ Return(KindOf(returncode), returncode)
    /\ UNCHANGED tree

Complete ==
    /\ pc = "communicate" /\ limit = "usable" /\ CommandOver
    /\ Return(KindOf(returncode), returncode)
    /\ UNCHANGED tree

(* The limit may also pass when the command is over and this is not seen   *)
(* yet.                                                                    *)
Expire ==
    /\ pc = "communicate" /\ limit = "usable"
    /\ pc' = "kill"
    /\ UNCHANGED <<limit, tree, result>>

(* mutant: a leader that is gone is no member *)
GroupAlive == {q \in alive : conduct[q].grouped}

(* The leader has not been waited for, so the group has a member even when *)
(* all of it is gone.                                                      *)
Group == {q \in alive : conduct[q].grouped} \cup {Leader}
Permitted == {q \in Group : ~conduct[q].foreign}

(* mutant: only the leader gets the signal *)
KillLeader ==
    /\ pc = "kill" /\ Permitted # {}
    /\ signalled' = signalled \cup (Permitted \cap {Leader})
    /\ pc' = "drain"
    /\ UNCHANGED <<limit, conduct, alive, returncode, result>>

(* mutant: the command is not stopped *)
KillNobody ==
    /\ pc = "kill"
    /\ pc' = "drain"
    /\ UNCHANGED <<limit, tree, result>>

Kill ==
    /\ pc = "kill" /\ Permitted # {}
    /\ signalled' = signalled \cup (Permitted \cap alive)
    /\ pc' = "drain"
    /\ UNCHANGED <<limit, conduct, alive, returncode, result>>

(* killpg raises PermissionError when it may signal no member at all; that *)
(* is an OSError, like the failure to start.                               *)
KillRefused ==
    /\ pc = "kill" /\ Permitted = {}
    /\ Return("INTERNAL", Null)
    /\ UNCHANGED tree

(* The second communicate has no timeout. *)
Drain ==
    /\ pc = "drain" /\ CommandOver
    /\ Return("TIMEOUT", returncode)
    /\ UNCHANGED tree

-----------------------------------------------------------------------------
(* The command *)

Dying(q) == q \in signalled /\ ~conduct[q].stubborn

(* A signal that is not handled ends a process before it does anything     *)
(* else, a fork included.                                                  *)
Fork(q, child) ==
    /\ q \in alive /\ ~Dying(q)
    /\ conduct[child] = Null
    /\ \E c \in ConductOfChild(conduct[q]) : conduct' = [conduct EXCEPT ![child] = c]
    /\ alive' = alive \cup {child}
    /\ UNCHANGED <<pc, limit, signalled, returncode, result>>

End(q, code) ==
    /\ q \in alive
    /\ alive' = alive \ {q}
    /\ returncode' = IF q = Leader THEN code ELSE returncode
    /\ UNCHANGED <<pc, limit, conduct, signalled, result>>

(* A process ends by itself, or by a signal of somebody else.              *)
Quit(q, code) == ~Dying(q) /\ End(q, code)
Die(q) == Dying(q) /\ End(q, "SIGNAL")

-----------------------------------------------------------------------------

Run ==
    \/ Spawn \/ SpawnFails
    \/ Raise \/ Complete \/ Expire
    \/ Kill \/ KillRefused
    \/ Drain

Next ==
    \/ Run
    \/ \E q, child \in Process : Fork(q, child)
    \/ \E q \in Process, code \in ReturnCode : Quit(q, code)
    \/ \E q \in Process : Die(q)

(* The runner goes on, its limit passes, and an unhandled signal ends a    *)
(* process.  The command itself may run for ever.                          *)
Fairness == WF_vars(Run) /\ \A q \in Process : WF_vars(Die(q))

Spec == Init /\ [][Next]_vars /\ Fairness

-----------------------------------------------------------------------------

(* Every variable holds a value of its type; a result has an exit code     *)
(* unless run gave up on the command.                                      *)
TypeOK ==
    /\ pc \in {"start", "communicate", "kill", "drain", "done"}
    /\ limit \in {"usable", "unusable"}
    /\ conduct \in [Process -> Conduct \cup {Null}]
    /\ alive \subseteq {q \in Process : conduct[q] # Null} /\ signalled \subseteq Process
    /\ returncode \in ReturnCode \cup {Null}
    /\ result \in Result \cup {Null}

(* The log of a result that has an exit code is complete: when run has     *)
(* returned it, nothing that the command ever started, daemons included,   *)
(* can write to its output any more (subprocess_runner.py:38-42).          *)
LogIsComplete ==
    result # Null /\ result.kind \notin NoExitCode =>
        (\A q \in alive : ~conduct[q].piped) /\ Leader \notin alive

(* INTERNAL, which is recorded as PROCESS_START_ERROR, means that nothing  *)
(* was started -- or that the command belongs to another user and could    *)
(* not be stopped (subprocess_runner.py:51-60).                            *)
StartErrorIsTrue ==
    result # Null /\ result.kind = "INTERNAL" =>
        conduct[Leader] = Null \/ (conduct[Leader].foreign /\ signalled = {})

(* What outlives a timeout is under a signal that it cannot ignore, or     *)
(* comes from a process that ignores signals, has left the group or        *)
(* belongs to another user: of a command without such a process nothing is *)
(* left to run beside the retry of the step (subprocess_runner.py:39-41).  *)
NothingOrderlySurvives ==
    result # Null /\ result.kind = "TIMEOUT" =>
        \A q \in alive : conduct[q].wild \/ Dying(q)

(* The processes that keep the second communicate waiting. *)
Holdouts == {q \in alive : conduct[q].piped \/ q = Leader}

(* run returns, unless the command keeps a process for ever that the       *)
(* signal does not reach or does not end: the time limit alone does not    *)
(* bound the wait (subprocess_runner.py:40-41).                            *)
Returns == <>(pc = "done") \/ <>[](\E q \in Holdouts : conduct[q].wild)

=============================================================================
