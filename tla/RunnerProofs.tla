----------------------------- MODULE RunnerProofs -----------------------------
(***************************************************************************)
(* What CommandRunner leaves behind, for a command of any number of        *)
(* processes.                                                              *)
(*                                                                         *)
(* Once killpg has been called, every live process either descends from an *)
(* unruly one or is about to die; and one that is about to die cannot fork *)
(* any more, so this stays so.  It needs to be known that a process that   *)
(* is not wild is not unruly either, and that nothing is signalled before. *)
(***************************************************************************)
EXTENDS CommandRunner, TLAPS

Stopped == \A q \in alive : conduct[q].wild \/ Dying(q)

Inv ==
    /\ TypeOK
    /\ \A q \in Process : conduct[q] # Null /\ ~conduct[q].wild => ~Unruly(conduct[q])
    /\ pc = "start" => alive = {} /\ returncode = Null /\ conduct = [q \in Process |-> Null]
    /\ pc \in {"start", "communicate", "kill"} => signalled = {}
    /\ pc # "done" => result = Null
    /\ pc = "drain" => Stopped
    /\ alive # {} => conduct[Leader] # Null
    /\ Leader \in alive => returncode = Null
    /\ LogIsComplete /\ StartErrorIsTrue /\ NothingOrderlySurvives

LEMMA InitInv == Init => Inv
  BY DEF Init, Inv, TypeOK, LogIsComplete, StartErrorIsTrue, NothingOrderlySurvives

(* run returns *)
LEMMA ReturnStep ==
    ASSUME Inv, Raise \/ Complete \/ KillRefused \/ Drain \/ SpawnFails
    PROVE  Inv'
<1>1. UNCHANGED <<limit, conduct, alive, signalled, returncode>> /\ pc' = "done"
  BY DEF Raise, Complete, KillRefused, Drain, SpawnFails, Return, tree
<1>2. result' \in Result
  BY DEF Raise, Complete, KillRefused, Drain, SpawnFails, Return, Result, KindOf, Inv, TypeOK,
     NoExitCode, Kind, CommandOver, ReturnCode
<1>3. LogIsComplete'
  <2>1. CASE Complete \/ Drain
    BY <1>1, <2>1 DEF Complete, Drain, CommandOver, Inv, LogIsComplete
  <2>2. CASE Raise \/ KillRefused \/ SpawnFails
    BY <2>2 DEF Raise, KillRefused, SpawnFails, Return, LogIsComplete, NoExitCode
  <2> QED
    BY <2>1, <2>2
<1>4. StartErrorIsTrue'
  <2>1. CASE SpawnFails
    BY <1>1, <2>1, LeaderAssumption DEF SpawnFails, Inv, StartErrorIsTrue
  <2>2. CASE KillRefused
    BY <1>1, <2>2 DEF KillRefused, Permitted, Group, Inv, StartErrorIsTrue
  <2>3. CASE Raise \/ Complete \/ Drain
    BY <2>3 DEF Raise, Complete, Drain, Return, KindOf, StartErrorIsTrue
  <2> QED
    BY <2>1, <2>2, <2>3
<1>5. NothingOrderlySurvives'
  <2>1. CASE Drain
    BY <1>1, <2>1 DEF Drain, Inv, Stopped, Dying, NothingOrderlySurvives
  <2>2. CASE Raise \/ Complete \/ KillRefused \/ SpawnFails
    BY <2>2 DEF Raise, Complete, KillRefused, SpawnFails, Return, KindOf, NothingOrderlySurvives
  <2> QED
    BY <2>1, <2>2
<1> QED
  BY <1>1, <1>2, <1>3, <1>4, <1>5 DEF Inv, TypeOK

(* The command is started. *)
LEMMA SpawnStep == ASSUME Inv, Spawn PROVE Inv'
<1>1. PICK c \in ConductOfLeader : conduct' = [conduct EXCEPT ![Leader] = c]
  BY DEF Spawn
<1>2. /\ conduct' \in [Process -> Conduct \cup {Null}]
      /\ conduct'[Leader] = c /\ c # Null
      /\ \A q \in Process : q # Leader => conduct'[q] = Null
  BY <1>1, LeaderAssumption, NullAssumption DEF Inv, TypeOK, Spawn, ConductOfLeader
<1>3. returncode = Null /\ result = Null
  BY DEF Inv, Spawn
<1> QED
  BY <1>2, LeaderAssumption DEF Inv, TypeOK, Spawn, ConductOfLeader, LogIsComplete,
     StartErrorIsTrue, NothingOrderlySurvives

(* The limit passes, and the group is signalled. *)
LEMMA KillStep == ASSUME Inv, Expire \/ Kill PROVE Inv'
<1>1. CASE Expire
  BY <1>1 DEF Expire, tree, Inv, TypeOK, LogIsComplete, StartErrorIsTrue, NothingOrderlySurvives
<1>2. CASE Kill
  <2>1. Stopped'
    BY <1>2 DEF Kill, Inv, TypeOK, Unruly, Group, Permitted, Stopped, Dying
  <2> QED
    BY <1>2, <2>1 DEF Kill, Inv, TypeOK, Group, Permitted, LogIsComplete, StartErrorIsTrue,
       NothingOrderlySurvives
<1> QED
  BY <1>1, <1>2

(* The command goes on. *)
LEMMA ForkStep ==
    ASSUME Inv, NEW q \in Process, NEW child \in Process, Fork(q, child)
    PROVE  Inv'
<1>1. PICK c \in ConductOfChild(conduct[q]) : conduct' = [conduct EXCEPT ![child] = c]
  BY DEF Fork
<1>2. /\ conduct' \in [Process -> Conduct \cup {Null}]
      /\ conduct'[child] = c /\ c # Null /\ child \notin alive
      /\ \A p \in Process : p # child => conduct'[p] = conduct[p]
  BY <1>1, NullAssumption DEF Inv, TypeOK, Fork, ConductOfChild
<1>3. child # Leader /\ pc # "start"
  BY DEF Fork, Inv, TypeOK
<1>4. \A p \in Process : conduct'[p] # Null /\ ~conduct'[p].wild => ~Unruly(conduct'[p])
  BY <1>2 DEF Inv, ConductOfChild
<1>5. Stopped => Stopped'
  BY <1>2 DEF Fork, Stopped, Dying, ConductOfChild, Inv, TypeOK
<1>6. LogIsComplete'
  BY <1>2, <1>3 DEF Inv, LogIsComplete, Fork, ConductOfChild, TypeOK
<1>7. NothingOrderlySurvives'
  BY <1>5 DEF Inv, NothingOrderlySurvives, Stopped, Fork
<1> QED
  BY <1>2, <1>3, <1>4, <1>5, <1>6, <1>7, LeaderAssumption DEF Inv, TypeOK, Fork, StartErrorIsTrue

LEMMA EndStep ==
    ASSUME Inv, NEW q \in Process, NEW code \in ReturnCode, End(q, code)
    PROVE  Inv'
  BY DEF End, Inv, TypeOK, Stopped, Dying, LogIsComplete, StartErrorIsTrue,
     NothingOrderlySurvives

LEMMA InvStep == Inv /\ [Next]_vars => Inv'
<1> SUFFICES ASSUME Inv, [Next]_vars PROVE Inv'
  OBVIOUS
<1>1. CASE Run
  BY <1>1, ReturnStep, SpawnStep, KillStep DEF Run
<1>2. ASSUME NEW q \in Process, NEW child \in Process, Fork(q, child) PROVE Inv'
  BY <1>2, ForkStep
<1>3. ASSUME NEW q \in Process, NEW code \in ReturnCode, Quit(q, code) \/ Die(q) PROVE Inv'
  BY <1>3, EndStep DEF Quit, Die, ReturnCode
<1>4. CASE UNCHANGED vars
  BY <1>4 DEF vars, Inv, TypeOK, Stopped, Dying, LogIsComplete, StartErrorIsTrue,
     NothingOrderlySurvives
<1> QED
  BY <1>1, <1>2, <1>3, <1>4 DEF Next, ReturnCode

LEMMA InvCorrect == Spec => []Inv
  BY InitInv, InvStep, PTL DEF Spec

(* No dead or unborn process is ever taken for a live one, and what run    *)
(* returns has an exit code exactly if its kind of failure comes with one. *)
THEOREM RunnerTypeCorrect == Spec => []TypeOK
<1>1. Inv => TypeOK
  BY DEF Inv
<1> QED
  BY <1>1, InvCorrect, PTL

(* However a command forks, ignores signals, leaves its group and dies,    *)
(* what outlives a reported timeout is dying or descends from a process    *)
(* that the signal could not stop.                                         *)
THEOREM TimeoutStopsTheCommand == Spec => []NothingOrderlySurvives
<1>1. Inv => NothingOrderlySurvives
  BY DEF Inv
<1> QED
  BY <1>1, InvCorrect, PTL

(* When run returns a result with an exit code, no process of the command  *)
(* holds its output any more, and none will.                               *)
THEOREM LogIsAllOfIt == Spec => []LogIsComplete
<1>1. Inv => LogIsComplete
  BY DEF Inv
<1> QED
  BY <1>1, InvCorrect, PTL

(* A start error is reported only of a command that was not started, or of *)
(* one of another user.                                                    *)
THEOREM StartErrors == Spec => []StartErrorIsTrue
<1>1. Inv => StartErrorIsTrue
  BY DEF Inv
<1> QED
  BY <1>1, InvCorrect, PTL

=============================================================================
