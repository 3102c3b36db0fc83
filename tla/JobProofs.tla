------------------------------- MODULE JobProofs -------------------------------
(***************************************************************************)
(* What holds of the attempts that the processes make and of the plans     *)
(* they apply.                                                             *)
(*                                                                         *)
(* An attempt belongs to one process from its record to its result; once   *)
(* it has ended nothing touches it again, and what it executed is what the *)
(* run book of its run defines.  What its process has read of the files    *)
(* since is what the attempt records (Reading).                            *)
(*                                                                         *)
(* A resume executes a gated step only if the user has confirmed it.  The  *)
(* gate is a flag in the plan, the effect is in the run book: they are     *)
(* read at different times, from a table and from a file that may have     *)
(* changed.  The proof follows the flag: evaluate_step sets it for every   *)
(* gated step it would execute, the loop of repair gives every step a      *)
(* decision before the plan is saved, and the digests a resume compares    *)
(* make the policies of the two run books the same.                        *)
(*                                                                         *)
(* A repair plan is closed under dependencies: what it reuses was made     *)
(* from what it reuses, and nothing runs behind a step that waits.         *)
(***************************************************************************)
EXTENDS EngineProofs

-----------------------------------------------------------------------------
(* Attempts *)

(* Attempts change only where one starts or ends. *)
LEMMA AttemptsStep ==
    ASSUME [Next]_vars
    PROVE  \/ attempts' = attempts
           \/ \E p \in Proc : RecordStarted(p) \/ RecordFinished(p)
<1>1. ASSUME NEW p \in Proc, ExecuteRunbook(p) \/ RecordBlocked(p) \/ LoopEnd(p)
      PROVE  attempts' = attempts
  BY <1>1 DEF ExecuteRunbook, CreateRun, RecordBlocked, UpdateStepStatus, LoopEnd, FinishRun
<1> QED
  BY <1>1, StoreStep DEF Records

(* What an attempt that starts looks like. *)
LEMMA Started ==
    ASSUME TypeOK, Course, NEW p \in Proc, RecordStarted(p)
    PROVE  /\ Len(attempts) \in Nat
           /\ DOMAIN attempts' = DOMAIN attempts \cup {Len(attempts) + 1}
           /\ Len(attempts) + 1 \notin DOMAIN attempts
           /\ \A a \in DOMAIN attempts : attempts'[a] = attempts[a]
           /\ LET new == attempts'[Len(attempts) + 1]
              IN  /\ new.run_id = job[p].run_id /\ new.step_id = CurrentStep(job[p])
                  /\ new.status = "RUNNING" /\ new.contract = job[p].contract
           /\ job'[p] = [job[p] EXCEPT !.attempt_id = Len(attempts) + 1]
  BY DEF RecordStarted, RecordStepStarted, TypeOK, StoreTypeOK, LocalTypeOK

(* What the end of an attempt changes. *)
LEMMA Finished ==
    ASSUME TypeOK, NEW p \in Proc, RecordFinished(p)
    PROVE  /\ DOMAIN attempts' = DOMAIN attempts
           /\ \A a \in DOMAIN attempts :
                 /\ attempts'[a].run_id = attempts[a].run_id
                 /\ attempts'[a].step_id = attempts[a].step_id
                 /\ IF a = job[p].attempt_id
                    THEN attempts'[a].contract = job[p].contract
                    ELSE attempts'[a] = attempts[a]
<1>1. attempts \in Seq(AttemptRow)
  BY DEF TypeOK, StoreTypeOK
<1>2. attempts' = [attempts EXCEPT ![job[p].attempt_id] =
                      FinishedRow(attempts[job[p].attempt_id], job[p].result, job[p].contract)]
  BY DEF RecordFinished, RecordStepFinished
<1>3. ASSUME NEW row \in AttemptRow, NEW result, NEW contract
      PROVE  LET new == FinishedRow(row, result, contract)
             IN  /\ new.run_id = row.run_id /\ new.step_id = row.step_id
                 /\ new.contract = contract
  BY DEF FinishedRow, AttemptRow
<1> QED
  BY <1>1, <1>2, <1>3

(* An attempt changes only when the process that has it records its end. *)
LEMMA AttemptsKept ==
    ASSUME TypeOK, Course, [Next]_vars, NEW a \in DOMAIN attempts
    PROVE  /\ a \in DOMAIN attempts'
           /\ attempts'[a].run_id = attempts[a].run_id
           /\ attempts'[a].step_id = attempts[a].step_id
           /\ \/ attempts'[a] = attempts[a]
              \/ \E p \in Proc : RecordFinished(p) /\ job[p].attempt_id = a
  BY AttemptsStep, Started, Finished

(* The definition of a process's step is that of its run. *)
LEMMA CurrentOfRun ==
    ASSUME TypeOK, Course, NEW p \in Proc, Executing(p)
    PROVE  Book[runs[job[p].run_id].runbook_digest].steps[CurrentStep(job[p])] = Current(job[p])
<1>1. MadeFrom(job[p].run_id, job[p].runbook)
  BY DEF Course, OnCourse, Working
<1> QED
  BY <1>1, JobFacts, DigestFacts DEF MadeFrom, Current, Definition

(* A process keeps the attempt it has on record. *)
LEMMA OwnsStep ==
    ASSUME TypeOK, Course, Ownership, [Next]_vars, NEW p \in Proc
    PROVE  Owns(p)'
<1>0. job[p] \in Job /\ LocalTypeOK
  BY JobFacts DEF TypeOK
<1> DEFINE SamePlace == /\ CurrentStep(job'[p]) = CurrentStep(job[p])
                        /\ Current(job'[p]) = Current(job[p])
<1>1. SameInvocation(p) /\ job'[p].position = job[p].position => SamePlace
  BY DEF SameInvocation, CurrentStep, Current, Definition, Order
<1>2. ASSUME Executing(p)' PROVE ContractFor(job'[p].contract, Current(job'[p]))
  <2>1. \A def : ContractFor(MakeContract(def), def)
    BY DEF ContractFor, MakeContract
  <2>2. CASE ObserveBefore(p)
    <3>1. SamePlace /\ job'[p].contract = MakeContract(Current(job[p]))
      BY <1>0, <1>1, <2>2 DEF ObserveBefore, SameInvocation, LocalTypeOK, Job
    <3> QED
      BY <2>1, <3>1
  <2>3. CASE ObserveAfter(p) /\ SameAttempt(p)
    <3>1. job'[p].contract = MakeContract(Current(job[p]))
      BY <1>0, <2>3 DEF ObserveAfter, LocalTypeOK, Job
    <3> QED
      BY <1>1, <2>1, <2>3, <3>1 DEF SameAttempt
  <2>4. CASE Executing(p) /\ SameAttempt(p) /\ job'[p].contract = job[p].contract
    BY <1>1, <2>4 DEF SameAttempt, Ownership, Owns
  <2> QED
    BY <1>2, <2>2, <2>3, <2>4, Continues DEF SameAttempt
<1>3. ASSUME Recorded(p)'
      PROVE  /\ job'[p].attempt_id \in DOMAIN attempts'
             /\ attempts'[job'[p].attempt_id].status = "RUNNING"
             /\ attempts'[job'[p].attempt_id].run_id = job'[p].run_id
             /\ attempts'[job'[p].attempt_id].step_id = CurrentStep(job'[p])
  <2>1. SameAttempt(p) /\ SamePlace /\ job'[p].run_id = job[p].run_id
    BY <1>1, <1>3, Continues DEF Recorded, Executing, SameAttempt, SameInvocation
  <2>2. CASE RecordStarted(p)
    <3>1. job'[p].attempt_id = Len(attempts) + 1
      BY <1>0, <2>2, Started DEF Job
    <3> QED
      BY <2>1, <2>2, <3>1, Started
  <2>3. CASE Recorded(p) /\ job'[p].attempt_id = job[p].attempt_id
    <3>1. /\ job[p].attempt_id \in DOMAIN attempts
          /\ attempts[job[p].attempt_id].status = "RUNNING"
          /\ attempts[job[p].attempt_id].run_id = job[p].run_id
          /\ attempts[job[p].attempt_id].step_id = CurrentStep(job[p])
      BY <2>3 DEF Ownership, Owns
    <3>2. ASSUME NEW q \in Proc, RecordFinished(q), job[q].attempt_id = job[p].attempt_id
          PROVE  FALSE
      <4>1. q = p
        BY <2>3, <3>2 DEF Ownership, Apart, Recorded, RecordFinished
      <4> QED
        BY <1>0, <1>3, <3>2, <4>1 DEF RecordFinished, Advance, Goto, Recorded, LocalTypeOK
    <3> QED
      BY <2>1, <2>3, <3>1, <3>2, AttemptsKept
  <2> QED
    BY <1>3, <2>1, <2>2, <2>3 DEF SameAttempt
<1> QED
  BY <1>2, <1>3 DEF Owns

(* Processes keep different attempts: a new one has a number of its own. *)
LEMMA ApartStep ==
    ASSUME TypeOK, Course, Ownership, [Next]_vars
    PROVE  Apart'
<1> SUFFICES ASSUME NEW p \in Proc, NEW q \in Proc, Recorded(p)', Recorded(q)', p # q
             PROVE  job'[p].attempt_id # job'[q].attempt_id
  BY DEF Apart
<1>1. ASSUME NEW x \in Proc, Recorded(x)'
      PROVE  \/ RecordStarted(x) /\ job'[x].attempt_id = Len(attempts) + 1
             \/ /\ Recorded(x) /\ job'[x].attempt_id = job[x].attempt_id
                /\ job[x].attempt_id # Len(attempts) + 1
  <2>1. SameAttempt(x)
    BY <1>1, Continues DEF Recorded, Executing
  <2>2. CASE RecordStarted(x)
    BY <2>2, Started, JobFacts DEF Job
  <2>3. CASE Recorded(x) /\ job'[x].attempt_id = job[x].attempt_id
    BY <2>3 DEF Ownership, Owns, TypeOK, StoreTypeOK
  <2> QED
    BY <1>1, <2>1, <2>2, <2>3 DEF SameAttempt
<1>2. ~(RecordStarted(p) /\ RecordStarted(q))
  <2> SUFFICES ASSUME RecordStarted(p), RecordStarted(q) PROVE FALSE
    OBVIOUS
  <2>1. LocalTypeOK
    BY DEF TypeOK
  <2> QED
    BY <2>1 DEF RecordStarted, Goto, LocalTypeOK
<1> QED
  BY <1>1, <1>2 DEF Ownership, Apart

(* What an attempt records stays what its run defines. *)
LEMMA ContractsStep ==
    ASSUME TypeOK, Course, Ownership, [Next]_vars
    PROVE  AttemptsHaveRuns' /\ ContractsOfRun'
<1> DEFINE Suits(a) ==
        /\ attempts'[a].run_id \in DOMAIN runs'
        /\ ContractFor(attempts'[a].contract,
              Book[runs'[attempts'[a].run_id].runbook_digest].steps[attempts'[a].step_id])
<1>1. ASSUME NEW a \in DOMAIN attempts, attempts'[a] = attempts[a] PROVE Suits(a)
  BY <1>1, RunsKept DEF Ownership, AttemptsHaveRuns, ContractsOfRun, ContractFor
<1>2. ASSUME NEW p \in Proc, Executing(p)
      PROVE  /\ job[p].run_id \in DOMAIN runs'
             /\ ContractFor(job[p].contract,
                   Book[runs'[job[p].run_id].runbook_digest].steps[CurrentStep(job[p])])
  <2>1. job[p].run_id \in DOMAIN runs
    BY <1>2 DEF Course, OnCourse, Working, MadeFrom
  <2> QED
    BY <1>2, <2>1, RunsKept, CurrentOfRun DEF Ownership, Owns
<1>3. ASSUME NEW p \in Proc, RecordStarted(p), NEW a \in DOMAIN attempts' PROVE Suits(a)
  <2>1. Executing(p)
    BY <1>3 DEF RecordStarted, Executing
  <2>2. CASE a = Len(attempts) + 1
    BY <1>2, <1>3, <2>1, <2>2, Started
  <2>3. CASE a \in DOMAIN attempts
    BY <1>1, <1>3, <2>3, Started
  <2> QED
    BY <1>3, <2>2, <2>3, Started
<1>4. ASSUME NEW p \in Proc, RecordFinished(p), NEW a \in DOMAIN attempts' PROVE Suits(a)
  <2>1. Executing(p) /\ Recorded(p)
    BY <1>4 DEF RecordFinished, Executing, Recorded
  <2>2. CASE a = job[p].attempt_id
    <3>1. attempts'[a].run_id = job[p].run_id /\ attempts'[a].step_id = CurrentStep(job[p])
          /\ attempts'[a].contract = job[p].contract
      BY <1>4, <2>1, <2>2, Finished DEF Ownership, Owns
    <3> QED
      BY <1>2, <2>1, <3>1
  <2>3. CASE a # job[p].attempt_id
    BY <1>1, <1>4, <2>3, Finished
  <2> QED
    BY <2>2, <2>3
<1>5. \A a \in DOMAIN attempts' : Suits(a)
  BY <1>1, <1>3, <1>4, AttemptsStep
<1> QED
  BY <1>5 DEF AttemptsHaveRuns, ContractsOfRun, ContractFor

(* There is no attempt at the start. *)
LEMMA InitOwnership == Init => Ownership
  BY DEF Init, StoreInit, Ownership, Apart, AttemptsHaveRuns, ContractsOfRun, Owns, Executing,
     Recorded

(* Every open attempt belongs to one process. *)
LEMMA OwnershipCorrect == Spec => [](TypeOK /\ Course /\ Ownership)
<1>1. Init => Ownership
  BY InitOwnership
<1>2. TypeOK /\ Course /\ Ownership /\ [Next]_vars => Ownership'
  BY OwnsStep, ApartStep, ContractsStep DEF Ownership
<1> QED
  BY <1>1, <1>2, CourseCorrect, PTL DEF Spec

(* Whatever the user does to the file in between, a run only ever executes *)
(* the commands and policies of its own run book.                          *)
THEOREM ContractsHold == Spec => []ContractsOfRun
<1>1. Ownership => ContractsOfRun
  BY DEF Ownership
<1> QED
  BY <1>1, OwnershipCorrect, PTL

(* However many processes work on a run, and whichever of them are killed, *)
(* no attempt is lost and one that has ended stays as it is.               *)
THEOREM AttemptsStay == Spec => AttemptsAreImmutable
<1> DEFINE Stay == \A a \in DOMAIN attempts :
                      /\ a \in DOMAIN attempts'
                      /\ attempts[a].status # "RUNNING" => attempts'[a] = attempts[a]
<1>1. TypeOK /\ Course /\ Ownership /\ [Next]_vars => Stay
  <2> SUFFICES ASSUME TypeOK, Course, Ownership, [Next]_vars, NEW a \in DOMAIN attempts
               PROVE  /\ a \in DOMAIN attempts'
                      /\ attempts[a].status # "RUNNING" => attempts'[a] = attempts[a]
    OBVIOUS
  <2>1. \A p \in Proc : RecordFinished(p) => attempts[job[p].attempt_id].status = "RUNNING"
    BY DEF RecordFinished, Ownership, Owns, Recorded
  <2> QED
    BY <2>1, AttemptsKept
<1>2. AttemptsAreImmutable <=> [][Stay]_vars
  BY DEF AttemptsAreImmutable
<1> HIDE DEF Stay
<1> QED
  BY <1>1, <1>2, OwnershipCorrect, PTL DEF Spec

-----------------------------------------------------------------------------
(* What was read                                                           *)
(*                                                                         *)
(* A command reads its inputs when it starts.  From then on to the record  *)
(* of its success the invariant Reading follows them: they are as it has   *)
(* read them, or some other write has marked the attempt as disturbed.     *)

(* The attempt that ends, and what it leaves. *)
LEMMA FinishedAttempt ==
    ASSUME TypeOK, Course, Ownership, NEW p \in Proc, RecordFinished(p)
    PROVE  LET a == job[p].attempt_id
           IN  /\ a \in DOMAIN attempts'
               /\ attempts'[a].run_id = job[p].run_id
               /\ attempts'[a].step_id = CurrentStep(job[p])
               /\ attempts'[a].status = job[p].result.status
               /\ attempts'[a].contract = job[p].contract
<1> DEFINE a == job[p].attempt_id
<1>1. /\ a \in DOMAIN attempts /\ attempts[a].run_id = job[p].run_id
      /\ attempts[a].step_id = CurrentStep(job[p])
  BY DEF RecordFinished, Ownership, Owns, Recorded
<1>2. attempts' = [attempts EXCEPT ![a] =
                      FinishedRow(attempts[a], job[p].result, job[p].contract)]
  BY DEF RecordFinished, RecordStepFinished
<1>3. attempts \in Seq(AttemptRow)
  BY DEF TypeOK, StoreTypeOK
<1>4. attempts'[a].status = job[p].result.status
  <2>1. attempts[a] \in AttemptRow
    BY <1>1, <1>3
  <2>2. FinishedRow(attempts[a], job[p].result, job[p].contract).status = job[p].result.status
    BY <2>1 DEF FinishedRow, AttemptRow
  <2> QED
    BY <1>1, <1>2, <1>3, <2>2
<1> QED
  BY <1>1, <1>4, Finished

(* The definition an attempt is of does not change. *)
LEMMA DefinitionKept ==
    ASSUME TypeOK, Course, Ownership, [Next]_vars, NEW a \in DOMAIN attempts
    PROVE  a \in DOMAIN attempts' /\ DefinitionOf(a)' = DefinitionOf(a)
  BY AttemptsKept, RunsKept DEF DefinitionOf, Ownership, AttemptsHaveRuns

(* The attempt a process has on record is of the step it is at. *)
LEMMA DefinitionOwned ==
    ASSUME TypeOK, Course, Ownership, NEW p \in Proc, Recorded(p)
    PROVE  /\ job[p].attempt_id \in DOMAIN attempts
           /\ attempts[job[p].attempt_id].status = "RUNNING"
           /\ DefinitionOf(job[p].attempt_id) = Current(job[p])
<1>1. Executing(p)
  BY DEF Recorded, Executing
<1>2. /\ job[p].attempt_id \in DOMAIN attempts
      /\ attempts[job[p].attempt_id].status = "RUNNING"
      /\ attempts[job[p].attempt_id].run_id = job[p].run_id
      /\ attempts[job[p].attempt_id].step_id = CurrentStep(job[p])
  BY DEF Ownership, Owns
<1> QED
  BY <1>1, <1>2, CurrentOfRun DEF DefinitionOf

(* The files change only where a command ends or the user edits. *)
LEMMA FilesStep ==
    ASSUME [Next]_vars
    PROVE  \/ UNCHANGED files
           \/ CommandEnds
           \/ \E q \in Path, content \in {Missing, Symlink, clock} : Edit(q, content)
<1>1. ASSUME NEW p \in Proc, Step(p) PROVE UNCHANGED files
  BY <1>1 DEF Step, workspace, ExecuteRunbook, ResumeRunbook, ResumeStale, StepReuse,
     StepUnconfirmed, StepBlocked, RecordBlocked, LoopEnd, ObserveBefore, ObserveRejected,
     SelectStarted, RecordStarted, Spawn, SpawnError, ObserveAfter, SelectFinished,
     RecordFinished, RepairLoad, SurveyStep, SurveyFails, SurveyDone, EvaluateNext, SavePlan
<1>2. ASSUME NEW p, NEW command, Launch(p, command) \/ Crash(p) PROVE UNCHANGED files
  BY <1>2 DEF Launch, Crash, workspace
<1>3. ASSUME NEW v, Revise(v) PROVE UNCHANGED files
  BY <1>3 DEF Revise, workspace
<1> QED
  BY <1>1, <1>2, <1>3 DEF Next, User, vars

(* How the ghosts about commands change: attempts are marked and never     *)
(* unmarked, and what a command has read is set when it starts.            *)
LEMMA ReadsStep ==
    ASSUME TypeOK, [Next]_vars
    PROVE  /\ history.disturbed \subseteq history'.disturbed
           /\ \A a \in DOMAIN attempts :
                 \/ history'.read[a] = history.read[a]
                 \/ \E p \in Proc : Spawn(p) /\ job[p].attempt_id = a
<1>0. /\ history \in History /\ DOMAIN history.read = DOMAIN attempts
      /\ attempts \in Seq(AttemptRow)
  BY DEF TypeOK, WorldTypeOK, StoreTypeOK, History
<1>1. ASSUME NEW p \in Proc, Step(p)
      PROVE  UNCHANGED history \/ LoopEnd(p) \/ RecordStarted(p) \/ Spawn(p) \/ SavePlan(p)
  BY <1>1 DEF Step, Environment, ExecuteRunbook, ResumeRunbook, ResumeStale, StepReuse,
     StepUnconfirmed, StepBlocked, RecordBlocked, ObserveBefore, ObserveRejected,
     SelectStarted, SpawnError, ObserveAfter, SelectFinished, RecordFinished, RepairLoad,
     SurveyStep, SurveyFails, SurveyDone, EvaluateNext
<1> DEFINE Kept == /\ history.disturbed \subseteq history'.disturbed
                   /\ \A a \in DOMAIN attempts : history'.read[a] = history.read[a]
<1>2. ASSUME NEW p \in Proc, RecordStarted(p) PROVE Kept
  BY <1>0, <1>2 DEF RecordStarted, History
<1>3. ASSUME NEW p \in Proc, Spawn(p)
      PROVE  /\ history.disturbed \subseteq history'.disturbed
             /\ \A a \in DOMAIN attempts :
                   a # job[p].attempt_id => history'.read[a] = history.read[a]
  BY <1>0, <1>3 DEF Spawn, History
<1>4. ASSUME NEW p \in Proc, SavePlan(p) PROVE Kept
  BY <1>0, <1>4 DEF SavePlan, History
<1>5. ASSUME CommandEnds PROVE Kept
  BY <1>0, <1>5 DEF CommandEnds, CommandExit, History
<1>6. ASSUME NEW q, NEW content, Edit(q, content) PROVE Kept
  BY <1>0, <1>6 DEF Edit, History
<1>7. ASSUME NEW p, NEW command, NEW v, Launch(p, command) \/ Crash(p) \/ Revise(v)
      PROVE  UNCHANGED history
  BY <1>7 DEF Launch, Crash, Revise
<1>8. UNCHANGED history => Kept
  OBVIOUS
<1>9. ASSUME NEW p \in Proc, LoopEnd(p) PROVE Kept
  BY <1>0, <1>9 DEF LoopEnd, History
<1> HIDE DEF Kept
<1>10. Kept \/ \E p \in Proc : Spawn(p)
  BY <1>1, <1>2, <1>4, <1>5, <1>6, <1>7, <1>8, <1>9 DEF Next, User, vars
<1> QED
  BY <1>3, <1>10 DEF Kept

(* What is known of an attempt that is not being started stays known. *)
LEMMA WasReadKept ==
    ASSUME TypeOK, [Next]_vars, NEW a \in DOMAIN attempts, NEW prints, WasRead(a, prints),
           \A p \in Proc : Spawn(p) => job[p].attempt_id # a
    PROVE  WasRead(a, prints)'
  BY ReadsStep DEF WasRead

(* No other process starts the command of an attempt. *)
LEMMA StartsItsOwn ==
    ASSUME Ownership, NEW p \in Proc, Recorded(p), pc[p] # "spawn"
    PROVE  \A q \in Proc : Spawn(q) => job[q].attempt_id # job[p].attempt_id
  BY DEF Ownership, Apart, Recorded, Spawn

(* While a process waits for a command that does not write its own inputs, *)
(* either these stay as they were read or the attempt is marked.           *)
LEMMA InputsStay ==
    ASSUME TypeOK, Course, Ownership, CommandsAreOfAttempts, [Next]_vars, NEW p \in Proc,
           pc[p] \in {"wait", "observe"}, KeepsInputs(Current(job[p])),
           NEW a, a = job[p].attempt_id, NEW ps, ps = Current(job[p]).inputs,
           WasRead(a, Fingerprint(ps))
    PROVE  WasRead(a, Fingerprint(ps))'
<1> DEFINE def == Current(job[p])
<1>0. files \in [Path -> Int] /\ history \in History
  BY DEF TypeOK, WorldTypeOK
<1>1. Recorded(p) /\ a \in InFlight
  BY DEF Recorded, InFlight
<1>2. a \in DOMAIN attempts /\ DefinitionOf(a) = def
  BY <1>1, DefinitionOwned
<1>3. ASSUME \A q \in ps \cap Path : files'[q] = files[q]
      PROVE  WasRead(a, Fingerprint(ps))'
  <2>1. PICK prints : prints = Fingerprint(ps)
    OBVIOUS
  <2>2. WasRead(a, prints)'
    BY <1>1, <1>2, <2>1, WasReadKept, StartsItsOwn
  <2>3. Fingerprint(ps)' = prints
    BY <1>3, <2>1 DEF Fingerprint
  <2> QED
    BY <2>2, <2>3 DEF WasRead
<1>4. ASSUME NEW child \in children, NEW kind, NEW written \in SUBSET child.outputs,
             CommandExit(child, kind, written)
      PROVE  WasRead(a, Fingerprint(ps))'
  <2>1. CASE written = {}
    BY <1>0, <1>3, <1>4, <2>1 DEF CommandExit, Write
  <2>2. CASE child.attempt_id = a
    <3>1. child.outputs = def.outputs
      BY <1>2, <2>2 DEF CommandsAreOfAttempts
    <3>2. ps \cap written = {}
      BY <3>1 DEF KeepsInputs
    <3> QED
      BY <1>0, <1>3, <1>4, <3>2 DEF CommandExit, Write
  <2>3. CASE written # {} /\ child.attempt_id # a
    <3>1. a \in history'.disturbed
      BY <1>0, <1>1, <1>4, <2>3 DEF CommandExit, History
    <3> QED
      BY <3>1 DEF WasRead
  <2> QED
    BY <2>1, <2>2, <2>3
<1>5. ASSUME NEW q, NEW content, Edit(q, content)
      PROVE  WasRead(a, Fingerprint(ps))'
  <2>1. a \in history'.disturbed
    BY <1>0, <1>1, <1>5 DEF Edit, History
  <2> QED
    BY <2>1 DEF WasRead
<1> QED
  BY <1>3, <1>4, <1>5, FilesStep DEF CommandEnds

(* How a process comes to wait for its command and to record its end. *)
LEMMA Awaits ==
    ASSUME TypeOK, [Next]_vars, NEW p \in Proc,
           pc'[p] \in {"wait", "observe", "finish", "record_finished"}
    PROVE  \/ Stays(p) \/ Answered(p) \/ Spawn(p) \/ SpawnError(p)
           \/ ObserveAfter(p) \/ SelectFinished(p)
<1>0. LocalTypeOK
  BY DEF TypeOK
<1>1. ASSUME NEW command, Launch(p, command) \/ Crash(p) PROVE FALSE
  BY <1>0, <1>1 DEF Launch, Crash, Goto, Exit, LocalTypeOK
<1>2. CASE Step(p)
  <2>1. /\ \A status : ~Exit(p, status) /\ ~Advance(p, status)
        /\ \A label : Goto(p, label) => label = pc'[p]
        /\ pc'[p] = pc[p] => pc[p] \in {"wait", "observe", "finish", "record_finished"}
    BY <1>0 DEF Exit, Advance, Goto, LocalTypeOK
  <2>2. ~(\/ ExecuteRunbook(p) \/ (\E k, r, confirmed : ResumeRunbook(p, r, k, confirmed))
          \/ (\E k, r : ResumeStale(p, r, k)) \/ (\E r : RepairLoad(p, r)))
    BY <2>1 DEF ExecuteRunbook, ResumeRunbook, ResumeStale, RepairLoad
  <2>3. ~(\/ StepReuse(p) \/ StepBlocked(p) \/ RecordBlocked(p) \/ RecordFinished(p)
          \/ StepUnconfirmed(p) \/ LoopEnd(p) \/ ObserveRejected(p) \/ ObserveBefore(p))
    BY <2>1 DEF StepReuse, AtStep, StepBlocked, RecordBlocked, RecordFinished,
       StepUnconfirmed, LoopEnd, ObserveRejected, ObserveBefore
  <2>4. ~(SelectStarted(p) \/ RecordStarted(p))
    BY <2>1 DEF SelectStarted, RecordStarted
  <2>5. ~(SurveyStep(p) \/ SurveyFails(p) \/ SurveyDone(p) \/ EvaluateNext(p) \/ SavePlan(p))
    BY <2>1 DEF SurveyStep, Surveying, SurveyFails, SurveyDone, EvaluateNext, SavePlan
  <2> QED
    BY <1>2, <2>2, <2>3, <2>4, <2>5 DEF Step
<1> QED
  BY <1>0, <1>1, <1>2, ProcessStep

(* A process knows its inputs from the start of the command to the record  *)
(* of its success.                                                         *)
LEMMA KnowsStep ==
    ASSUME TypeOK, Course, Ownership, Reading, [Next]_vars, NEW p \in Proc,
           pc'[p] \in {"wait", "observe", "finish", "record_finished"},
           KeepsInputs(Current(job[p]))'
    PROVE  LET done == job'[p].result.status = "SUCCEEDED"
           IN  /\ pc'[p] = "wait" \/ (pc'[p] = "observe" /\ done) =>
                     WasRead(job[p].attempt_id, Fingerprint(Current(job[p]).inputs))'
               /\ pc'[p] \in {"finish", "record_finished"} /\ done =>
                     WasRead(job[p].attempt_id, job[p].contract.input_fingerprints)'
<1>0. /\ job[p] \in Job /\ LocalTypeOK /\ files \in [Path -> Int]
      /\ history \in History /\ DOMAIN history.read = DOMAIN attempts
  BY JobFacts DEF TypeOK, WorldTypeOK, History, StoreTypeOK
<1> DEFINE Waits == pc'[p] = "wait" \/ (pc'[p] = "observe" /\ job'[p].result.status = "SUCCEEDED")
           Ends == /\ pc'[p] \in {"finish", "record_finished"}
                   /\ job'[p].result.status = "SUCCEEDED"
           Known(b, qs, prints) ==
              /\ Waits => WasRead(b, Fingerprint(qs))'
              /\ Ends => WasRead(b, prints)'
           Same == job'[p].attempt_id = job[p].attempt_id /\ Current(job'[p]) = Current(job[p])
<1>1. PICK a, ps, prints :
         /\ a = job[p].attempt_id /\ ps = Current(job[p]).inputs
         /\ prints = job'[p].contract.input_fingerprints
  OBVIOUS
<1>2. ASSUME job'[p].runbook = job[p].runbook, job'[p].position = job[p].position,
             job'[p].attempt_id = job[p].attempt_id
      PROVE  Same
  BY <1>2 DEF Current, Definition, CurrentStep, Order
<1>3. Stays(p) \/ Answered(p) \/ Spawn(p) \/ SpawnError(p) \/ ObserveAfter(p) \/ SelectFinished(p)
  BY Awaits
<1>4. Same
  <2> HIDE DEF Same
  <2>1. CASE Stays(p) \/ Answered(p) \/ Spawn(p)
    BY <1>0, <1>2, <2>1 DEF Stays, Answered, Spawn, Job
  <2>2. CASE SpawnError(p) \/ ObserveAfter(p) \/ SelectFinished(p)
    BY <1>0, <1>2, <2>2 DEF SpawnError, ObserveAfter, SelectFinished, SeeRow, LocalTypeOK, Job
  <2> QED
    BY <1>3, <2>1, <2>2
<1>5. KeepsInputs(Current(job[p]))
  BY <1>4 DEF KeepsInputs, Current, Definition, CurrentStep, Order
<1>6. ASSUME pc[p] \in {"wait", "observe", "finish", "record_finished"}
      PROVE  /\ pc[p] = "wait" \/ (pc[p] = "observe" /\ job[p].result.status = "SUCCEEDED")
                    => WasRead(a, Fingerprint(ps))
             /\ pc[p] \in {"finish", "record_finished"} /\ job[p].result.status = "SUCCEEDED"
                    => WasRead(a, job[p].contract.input_fingerprints)
  BY <1>1, <1>5, <1>6 DEF Reading, KnowsItsInputs, Executing
<1>7. pc[p] \in {"spawn", "wait", "observe", "finish", "record_finished"} => a \in DOMAIN attempts
  BY <1>1, DefinitionOwned DEF Recorded
<1>8. ASSUME pc[p] \in {"wait", "observe"}, WasRead(a, Fingerprint(ps))
      PROVE  WasRead(a, Fingerprint(ps))'
  BY <1>1, <1>5, <1>8, InputsStay DEF Reading
<1>9. ASSUME pc[p] \in {"observe", "finish", "record_finished"}, WasRead(a, prints)
      PROVE  WasRead(a, prints)'
  <2>1. Recorded(p) /\ pc[p] # "spawn"
    BY <1>9 DEF Recorded
  <2> QED
    BY <1>1, <1>7, <1>9, <2>1, WasReadKept, StartsItsOwn
<1>10. CASE Stays(p)
  <2>1. Known(a, ps, prints)
    BY <1>1, <1>6, <1>8, <1>9, <1>10 DEF Stays
  <2> QED
    BY <1>1, <1>4, <2>1 DEF WasRead, Fingerprint
<1>11. CASE Answered(p)
  <2>1. Known(a, ps, prints)
    BY <1>6, <1>8, <1>11 DEF Answered
  <2> QED
    BY <1>1, <1>4, <2>1 DEF WasRead, Fingerprint
<1>12. CASE Spawn(p)
  <2>1. pc'[p] = "wait" /\ files' = files
    BY <1>0, <1>12 DEF Spawn, Goto, LocalTypeOK, workspace
  <2>2. a \in DOMAIN history.read
    BY <1>0, <1>7, <1>12 DEF Spawn
  <2>3. history' = [history EXCEPT !.read = [history.read EXCEPT ![a] = Fingerprint(ps)]]
    BY <1>0, <1>1, <1>12 DEF Spawn, History
  <2>4. history'.read[a] = Fingerprint(ps)
    BY <1>0, <2>2, <2>3 DEF History
  <2>5. Known(a, ps, prints)
    BY <2>1, <2>4 DEF WasRead, Fingerprint
  <2> QED
    BY <1>1, <1>4, <2>5 DEF WasRead, Fingerprint
<1>13. CASE SpawnError(p)
  <2>1. pc'[p] = "observe" /\ job'[p].result = Result("INTERNAL")
    BY <1>0, <1>13 DEF SpawnError, Goto, LocalTypeOK, Job
  <2> QED
    BY <2>1, AbsenceAssumption DEF Result, FailureKind
<1>14. CASE ObserveAfter(p)
  <2>1. /\ pc[p] = "observe" /\ pc'[p] = "finish"
        /\ job'[p].contract = MakeContract(Current(job[p]))
        /\ job'[p].result = CheckOutputs(job[p].result, job'[p].contract)
    BY <1>0, <1>14 DEF ObserveAfter, Goto, LocalTypeOK, Job
  <2>2. prints = Fingerprint(ps)
    BY <1>1, <2>1 DEF MakeContract
  <2>3. job'[p].result.status = "SUCCEEDED" => job[p].result.status = "SUCCEEDED"
    BY <2>1 DEF CheckOutputs
  <2>4. Known(a, ps, prints)
    BY <1>6, <1>9, <2>1, <2>2, <2>3
  <2> QED
    BY <1>1, <1>4, <2>4 DEF WasRead, Fingerprint
<1>15. CASE SelectFinished(p)
  <2>1. /\ pc[p] = "finish" /\ pc'[p] = "record_finished"
        /\ job'[p].contract = job[p].contract /\ job'[p].result = job[p].result
    BY <1>0, <1>15 DEF SelectFinished, SeeRow, Goto, LocalTypeOK, Job
  <2>2. Known(a, ps, prints)
    BY <1>1, <1>6, <1>9, <2>1
  <2> QED
    BY <1>1, <1>4, <2>2 DEF WasRead, Fingerprint
<1> QED
  BY <1>3, <1>10, <1>11, <1>12, <1>13, <1>14, <1>15

(* What a success has recorded is what its command has read. *)
LEMMA SuccessesStep ==
    ASSUME TypeOK, Course, Ownership, Reading, [Next]_vars
    PROVE  SuccessesHaveRead'
<1> SUFFICES ASSUME NEW a \in DOMAIN attempts', attempts'[a].status = "SUCCEEDED",
                    KeepsInputs(DefinitionOf(a))'
             PROVE  WasRead(a, attempts[a].contract.input_fingerprints)'
  BY DEF SuccessesHaveRead
<1>1. PICK prints : prints = attempts'[a].contract.input_fingerprints
  OBVIOUS
<1>2. ASSUME NEW b \in DOMAIN attempts
      PROVE  KeepsInputs(DefinitionOf(b))' <=> KeepsInputs(DefinitionOf(b))
  BY DefinitionKept DEF KeepsInputs, DefinitionOf
<1>3. ASSUME a \in DOMAIN attempts, attempts'[a] = attempts[a]
      PROVE  WasRead(a, prints)'
  <2>1. WasRead(a, prints)
    BY <1>1, <1>2, <1>3 DEF Reading, SuccessesHaveRead
  <2>2. \A p \in Proc : Spawn(p) => job[p].attempt_id # a
    BY <1>3, DefinitionOwned DEF Spawn, Recorded
  <2> QED
    BY <1>3, <2>1, <2>2, WasReadKept
<1>4. ASSUME NEW p \in Proc, RecordStarted(p) PROVE WasRead(a, prints)'
  BY <1>3, <1>4, Started
<1>5. ASSUME NEW p \in Proc, RecordFinished(p) PROVE WasRead(a, prints)'
  <2>1. CASE a = job[p].attempt_id
    <3>1. Recorded(p) /\ Executing(p) /\ pc[p] = "record_finished"
      BY <1>5 DEF RecordFinished, Recorded, Executing
    <3>2. job[p].result.status = "SUCCEEDED" /\ prints = job[p].contract.input_fingerprints
      BY <1>1, <1>5, <2>1, FinishedAttempt
    <3>3. a \in DOMAIN attempts /\ DefinitionOf(a) = Current(job[p])
      BY <2>1, <3>1, DefinitionOwned
    <3>4. KeepsInputs(Current(job[p]))
      <4>1. KeepsInputs(DefinitionOf(a))
        BY <1>2, <3>3
      <4> QED
        BY <3>3, <4>1
    <3>5. WasRead(a, prints)
      BY <2>1, <3>1, <3>2, <3>4 DEF Reading, KnowsItsInputs
    <3> QED
      BY <1>5, <3>5 DEF RecordFinished, Environment, WasRead
  <2>2. CASE a # job[p].attempt_id
    BY <1>3, <1>5, <2>2, Finished
  <2> QED
    BY <2>1, <2>2
<1>6. WasRead(a, prints)'
  BY <1>3, <1>4, <1>5, AttemptsStep
<1> QED
  BY <1>1, <1>6 DEF WasRead

(* Commands are started by the process that has the attempt on record. *)
LEMMA CommandsStep ==
    ASSUME TypeOK, Course, Ownership, Reading, [Next]_vars
    PROVE  CommandsAreOfAttempts'
<1> SUFFICES ASSUME NEW child \in children'
             PROVE  /\ child.attempt_id \in DOMAIN attempts'
                    /\ child.outputs = DefinitionOf(child.attempt_id).outputs'
  BY DEF CommandsAreOfAttempts
<1>1. ASSUME NEW a \in DOMAIN attempts, child.attempt_id = a,
             child.outputs = DefinitionOf(a).outputs
      PROVE  /\ child.attempt_id \in DOMAIN attempts'
             /\ child.outputs = DefinitionOf(child.attempt_id).outputs'
  BY <1>1, DefinitionKept DEF DefinitionOf
<1>2. CASE child \in children
  BY <1>1, <1>2 DEF Reading, CommandsAreOfAttempts
<1>3. ASSUME NEW p \in Proc, Spawn(p), child \notin children
      PROVE  /\ child.attempt_id \in DOMAIN attempts'
             /\ child.outputs = DefinitionOf(child.attempt_id).outputs'
  <2>1. child.attempt_id = job[p].attempt_id /\ child.outputs = Current(job[p]).outputs
    BY <1>3 DEF Spawn
  <2> QED
    BY <1>1, <1>3, <2>1, DefinitionOwned DEF Spawn, Recorded
<1>4. children' \subseteq children \/ \E p \in Proc : Spawn(p)
  <2>1. ASSUME NEW p \in Proc, Step(p) PROVE UNCHANGED children \/ Spawn(p)
    BY <2>1 DEF Step, Environment, ExecuteRunbook, ResumeRunbook, ResumeStale, StepReuse,
       StepUnconfirmed, StepBlocked, RecordBlocked, LoopEnd, ObserveBefore, ObserveRejected,
       SelectStarted, RecordStarted, SpawnError, ObserveAfter, SelectFinished, RecordFinished,
       RepairLoad, SurveyStep, SurveyFails, SurveyDone, EvaluateNext, SavePlan
  <2>2. ASSUME CommandEnds \/ User PROVE children' \subseteq children
    BY <2>2 DEF CommandEnds, CommandExit, User, Launch, Crash, Edit, Revise
  <2> QED
    BY <2>1, <2>2 DEF Next, vars
<1> QED
  BY <1>2, <1>3, <1>4

(* Every step keeps what is known of the inputs. *)
LEMMA ReadingStep ==
    ASSUME TypeOK, Course, Ownership, Reading, [Next]_vars
    PROVE  Reading'
<1>1. ASSUME NEW p \in Proc PROVE KnowsItsInputs(p)'
  BY KnowsStep DEF KnowsItsInputs, WasRead, Fingerprint, KeepsInputs, Current, Definition,
     CurrentStep, Order
<1> QED
  BY <1>1, SuccessesStep, CommandsStep DEF Reading

(* At the start nothing has been read. *)
LEMMA InitReading == Init => Reading
  BY DEF Init, StoreInit, Reading, CommandsAreOfAttempts, SuccessesHaveRead, KnowsItsInputs,
     Executing

(* What a success records as its inputs is what its command has read,      *)
(* unless a file was written while it ran.                                 *)
LEMMA ReadingCorrect == Spec => [](TypeOK /\ Course /\ Ownership /\ Reading)
<1>1. Init => Reading
  BY InitReading
<1>2. TypeOK /\ Course /\ Ownership /\ Reading /\ [Next]_vars => Reading'
  BY ReadingStep
<1> QED
  BY <1>1, <1>2, OwnershipCorrect, PTL DEF Spec

-----------------------------------------------------------------------------
(* Confirmation *)

(* What evaluate_step says of a step, it says of its gate too. *)
LEMMA EvaluateStepMarks ==
    ASSUME NEW def \in StepDefinition, NEW record, NEW context, NEW decided
    PROVE  LET d == EvaluateStep(def, record, context, decided)
           IN  /\ d # Null
               /\ RequiresConfirmation(def) =>
                     d.decision \in {"REUSE", "BLOCK"} \/ d.requires_confirmation
<1>1. EvaluateStep(def, record, context, decided) # Null
  BY EvaluateStepType, AbsenceAssumption
<1>2. ASSUME RequiresConfirmation(def)
      PROVE  LET d == EvaluateStep(def, record, context, decided)
             IN  d.decision \in {"REUSE", "BLOCK"} \/ d.requires_confirmation
  BY <1>2 DEF EvaluateStep, EvaluateSuccess, EvaluateFailure, Decide
<1> QED
  BY <1>1, <1>2

(* Run books with the same digest have the same gates. *)
LEMMA MarkedByDigest ==
    ASSUME NEW v \in Version, NEW decisions
    PROVE  Marked(decisions, Book[RunbookDigest(v)], Steps(Book[RunbookDigest(v)]))
              <=> Marked(decisions, Book[v], Steps(Book[v]))
  BY DigestFacts DEF Marked

(* Past the last step of the order every step has had its turn, *)
LEMMA WholeOrder ==
    ASSUME TypeOK, NEW p \in Proc, job[p].position > Len(Order(job[p]))
    PROVE  Evaluated(job[p]) = Steps(Book[job[p].runbook])
<1> DEFINE v == job[p].runbook
<1>1. \A i \in DOMAIN Order(job[p]) : i < job[p].position
  BY JobFacts
<1>2. Evaluated(job[p]) = {Book[v].order[i] : i \in DOMAIN Book[v].order}
  BY <1>1 DEF Evaluated, Order
<1>3. /\ \A i \in DOMAIN Book[v].order : Book[v].order[i] \in Steps(Book[v])
      /\ \A s \in Steps(Book[v]) : \E i \in DOMAIN Book[v].order : Book[v].order[i] = s
  BY JobFacts, BookFacts
<1> QED
  BY <1>2, <1>3

(* also when a plan is saved. *)
LEMMA SavedOrder ==
    ASSUME TypeOK, NEW p \in Proc, SavePlan(p)
    PROVE  Evaluated(job[p]) = Steps(Book[job[p].runbook])
  BY WholeOrder DEF SavePlan

(* Saved plans stay marked, and a new one is. *)
LEMMA PlansMarkedStep ==
    ASSUME TypeOK, Course, Gates, [Next]_vars
    PROVE  PlansAreMarked'
<1>1. ASSUME NEW p \in Proc, SavePlan(p) PROVE PlansAreMarked'
  <2> DEFINE v == job[p].runbook
             plan == [run_id |-> job[p].run_id, source_runbook_digest |-> RunbookDigest(v),
                      decisions |-> job[p].decisions]
  <2>1. plans' = Append(plans, plan)
    BY <1>1 DEF SavePlan, SaveRepairPlan
  <2>2. Evaluated(job[p]) = Steps(Book[v])
    BY <1>1, SavedOrder
  <2>3. Marked(job[p].decisions, Book[v], Steps(Book[v]))
    BY <1>1, <2>2 DEF SavePlan, Gates, Guarded
  <2>4. Marked(plan.decisions, Book[plan.source_runbook_digest],
               Steps(Book[plan.source_runbook_digest]))
    BY <2>3, JobFacts, MarkedByDigest
  <2> HIDE DEF plan
  <2>5. ASSUME NEW k \in DOMAIN plans'
        PROVE  Marked(plans'[k].decisions, Book[plans'[k].source_runbook_digest],
                      Steps(Book[plans'[k].source_runbook_digest]))
    <3>1. plans \in Seq(PlanRow)
      BY DEF TypeOK, StoreTypeOK
    <3>2. plans'[k] = plan \/ (k \in DOMAIN plans /\ plans'[k] = plans[k])
      BY <2>1, <3>1
    <3> QED
      BY <2>4, <3>2 DEF Gates, PlansAreMarked, PlanBook
  <2> QED
    BY <2>5 DEF PlansAreMarked, PlanBook
<1>2. CASE plans' = plans
  BY <1>2 DEF Gates, PlansAreMarked, PlanBook
<1> QED
  BY <1>1, <1>2, PlansStep

(* The decisions a repair has taken so far are marked. *)
LEMMA EvaluatedMarkedStep ==
    ASSUME TypeOK, Course, Gates, [Next]_vars, NEW p \in Proc, pc'[p] = "evaluate"
    PROVE  Marked(job'[p].decisions, Book[job'[p].runbook], Evaluated(job'[p]))
<1>0. job[p] \in Job /\ LocalTypeOK
  BY JobFacts DEF TypeOK
<1>1. CASE Stays(p)
  BY <1>1 DEF Stays, Gates, Guarded
<1>2. CASE SurveyDone(p)
  <2>1. job'[p].position = 1 /\ job'[p].runbook = job[p].runbook
    BY <1>0, <1>2 DEF SurveyDone, LocalTypeOK, Job
  <2>2. Order(job'[p]) \in Seq(StepId)
    BY <2>1, JobFacts, BookFacts DEF Order
  <2>3. Evaluated(job'[p]) = {}
    BY <2>1, <2>2 DEF Evaluated
  <2> QED
    BY <2>3 DEF Marked
<1>3. CASE EvaluateNext(p)
  <2> DEFINE s == CurrentStep(job[p])
             d == EvaluateStep(Current(job[p]), job[p].records[s], job[p].contexts[s],
                               job[p].decisions)
  <2>1. job[p].position \in DOMAIN Order(job[p])
    BY <1>3, JobFacts DEF EvaluateNext, Course, OnCourse
  <2>2. /\ job'[p].position = job[p].position + 1 /\ job'[p].runbook = job[p].runbook
        /\ job'[p].decisions = [job[p].decisions EXCEPT ![s] = d]
    BY <1>0, <1>3 DEF EvaluateNext, LocalTypeOK, Job
  <2>3. Order(job'[p]) = Order(job[p]) /\ Order(job[p]) \in Seq(StepId)
    BY <2>2, JobFacts DEF Order
  <2>4. Evaluated(job'[p]) \subseteq Evaluated(job[p]) \cup {s}
    BY <2>1, <2>2, <2>3, JobFacts DEF Evaluated, CurrentStep
  <2>5. /\ d # Null
        /\ RequiresConfirmation(Current(job[p])) =>
              d.decision \in {"REUSE", "BLOCK"} \/ d.requires_confirmation
    BY <2>1, AtAStep, EvaluateStepMarks
  <2>6. Current(job[p]) = Book[job[p].runbook].steps[s] /\ s \in StepId
    BY <2>1, AtAStep DEF Current, Definition
  <2>7. Marked(job[p].decisions, Book[job[p].runbook], Evaluated(job[p]))
    BY <1>3 DEF EvaluateNext, Gates, Guarded
  <2>8. job[p].decisions \in [StepId -> RepairDecision \cup {Null}]
    BY <1>0 DEF Job, Decisions
  <2>9. Evaluated(job[p]) \subseteq StepId
    BY <2>3 DEF Evaluated
  <2> HIDE DEF d, s
  <2> QED
    BY <2>2, <2>4, <2>5, <2>6, <2>7, <2>8, <2>9 DEF Marked
<1> QED
  BY <1>1, <1>2, <1>3, Evaluates

(* A resume goes by marked decisions. *)
LEMMA ResumeMarkedStep ==
    ASSUME TypeOK, Gates, [Next]_vars, NEW p \in Proc, Working(p)', job'[p].command = "resume"
    PROVE  Marked(job'[p].decisions, Book[job'[p].runbook], Steps(Book[job'[p].runbook]))
<1>0. job[p] \in Job /\ LocalTypeOK
  BY JobFacts DEF TypeOK
<1>1. ASSUME ExecuteRunbook(p) PROVE FALSE
  BY <1>0, <1>1 DEF ExecuteRunbook, LocalTypeOK, Job
<1>2. ASSUME NEW k \in DOMAIN plans, NEW r \in DOMAIN runs, NEW confirmed,
             ResumeRunbook(p, r, k, confirmed)
      PROVE  Marked(job'[p].decisions, Book[job'[p].runbook], Steps(Book[job'[p].runbook]))
  <2>1. job'[p].decisions = plans[k].decisions /\ job'[p].runbook = job[p].runbook
    BY <1>0, <1>2 DEF ResumeRunbook, LocalTypeOK, Job
  <2>2. plans[k].source_runbook_digest = RunbookDigest(job[p].runbook)
    BY <1>2 DEF ResumeRunbook, PlanMatches
  <2> QED
    BY <2>1, <2>2, JobFacts, MarkedByDigest DEF Gates, PlansAreMarked, PlanBook
<1>3. CASE Working(p) /\ SameInvocation(p)
  BY <1>3 DEF SameInvocation, Gates, Guarded
<1> QED
  BY <1>1, <1>2, <1>3, Works

(* A resume that reaches a gated step has its confirmation. *)
LEMMA ConfirmedStep ==
    ASSUME TypeOK, Course, Gates, [Next]_vars, NEW p \in Proc, Executing(p)',
           job'[p].command = "resume", RequiresConfirmation(Current(job'[p]))
    PROVE  CurrentStep(job'[p]) \in job'[p].confirmed
<1>0. job[p] \in Job /\ LocalTypeOK
  BY JobFacts DEF TypeOK
<1>1. CASE ObserveBefore(p)
  <2>1. /\ SameInvocation(p) /\ job'[p].position = job[p].position
    BY <1>0, <1>1 DEF ObserveBefore, SameInvocation, LocalTypeOK, Job
  <2>2. CurrentStep(job'[p]) = CurrentStep(job[p]) /\ Current(job'[p]) = Current(job[p])
    BY <2>1 DEF SameInvocation, CurrentStep, Current, Definition, Order
  <2>3. job[p].position \in DOMAIN Order(job[p]) /\ Working(p)
    BY <1>1, JobFacts DEF ObserveBefore, AtStep, Working, Course, OnCourse
  <2>4. CurrentStep(job[p]) \in Steps(Book[job[p].runbook])
    BY <2>3, AtAStep
  <2>5. Marked(job[p].decisions, Book[job[p].runbook], Steps(Book[job[p].runbook]))
    BY <2>1, <2>3 DEF SameInvocation, Gates, Guarded
  <2>6. job[p].decisions[CurrentStep(job[p])].requires_confirmation
    BY <1>1, <2>1, <2>2, <2>4, <2>5
       DEF ObserveBefore, Planned, SameInvocation, Marked, Current, Definition
  <2> QED
    BY <1>1, <2>1, <2>2, <2>6 DEF ObserveBefore, Unconfirmed, SameInvocation
<1>2. CASE Executing(p) /\ SameInvocation(p) /\ job'[p].position = job[p].position
  <2>1. CurrentStep(job'[p]) = CurrentStep(job[p]) /\ Current(job'[p]) = Current(job[p])
    BY <1>2 DEF SameInvocation, CurrentStep, Current, Definition, Order
  <2> QED
    BY <1>2, <2>1 DEF SameInvocation, Gates, Guarded
<1> QED
  BY <1>1, <1>2, Continues DEF SameAttempt

(* Every step keeps the gates. *)
LEMMA GatesStep == TypeOK /\ Course /\ Gates /\ [Next]_vars => Gates'
<1> SUFFICES ASSUME TypeOK, Course, Gates, [Next]_vars PROVE Gates'
  OBVIOUS
<1>1. PlansAreMarked'
  BY PlansMarkedStep
<1>2. ASSUME NEW p \in Proc PROVE Guarded(p)'
  BY EvaluatedMarkedStep, ResumeMarkedStep, ConfirmedStep DEF Guarded
<1> QED
  BY <1>1, <1>2 DEF Gates

(* There is no plan and no resume at the start. *)
LEMMA InitGates == Init => Gates
  BY DEF Init, StoreInit, Gates, PlansAreMarked, Guarded, Working, Executing

(* However runs, repairs, resumes, edits of the run book and crashes       *)
(* interleave, a resume executes a step with an external or destructive    *)
(* effect only if this invocation was given its confirmation.              *)
THEOREM ConfirmationHolds == Spec => []ConfirmationGate
<1>1. Init => Gates
  BY InitGates
<1>2. TypeOK /\ Course /\ Gates /\ [Next]_vars => Gates'
  BY GatesStep
<1>3. Gates => ConfirmationGate
  BY DEF Gates, Guarded, ConfirmationGate
<1> QED
  BY <1>1, <1>2, <1>3, CourseCorrect, PTL DEF Spec

-----------------------------------------------------------------------------
(* Closed plans *)

(* evaluate_step looks at every dependency before anything else. *)
LEMMA EvaluateStepCloses ==
    ASSUME NEW def, NEW record, NEW context, NEW decided,
           NEW d \in def.depends_on, decided[d] # Null, decided[d] \in RepairDecision
    PROVE  LET decision == EvaluateStep(def, record, context, decided).decision
           IN  /\ decision = "REUSE" => decided[d].decision = "REUSE"
               /\ decided[d].decision \in {"CONFIRM", "BLOCK"} => decision = "BLOCK"
<1>1. decided[d].decision \in Decision
  BY DEF RepairDecision
<1>2. CASE decided[d].decision \in {"BLOCK", "CONFIRM"}
  BY <1>2 DEF EvaluateStep, DependencyDecided, Decide
<1>3. CASE decided[d].decision \in {"RERUN", "RETRY"}
  BY <1>3 DEF EvaluateStep, DependencyDecided, Decide
<1>4. CASE decided[d].decision = "REUSE"
  BY <1>4
<1> QED
  BY <1>1, <1>2, <1>3, <1>4 DEF Decision

(* The step at a position is not among those before it, and all it depends *)
(* on is.                                                                  *)
LEMMA OrderIsValid ==
    ASSUME TypeOK, NEW p \in Proc, job[p].position \in DOMAIN Order(job[p])
    PROVE  /\ CurrentStep(job[p]) \notin Evaluated(job[p])
           /\ Current(job[p]).depends_on \subseteq Evaluated(job[p])
<1> DEFINE order == Order(job[p])
           i == job[p].position
<1>1. /\ order \in Seq(StepId) /\ i \in Nat
      /\ Valid(Book[job[p].runbook])
  BY JobFacts, BookAssumption
<1>2. /\ \A x, y \in DOMAIN order : order[x] = order[y] => x = y
      /\ Current(job[p]).depends_on \subseteq {order[k] : k \in 1..i-1}
  BY <1>1 DEF Valid, Enumerates, Order, Current, CurrentStep, Definition
<1>3. \A k \in 1..i-1 : k \in DOMAIN order /\ k < i
  BY <1>1
<1> HIDE DEF order, i
<1>4. Evaluated(job[p]) = {order[k] : k \in {x \in DOMAIN order : x < i}}
  BY DEF Evaluated, order, i
<1>5. CurrentStep(job[p]) = order[i] /\ i \in DOMAIN order
  BY DEF CurrentStep, order, i
<1> QED
  BY <1>1, <1>2, <1>3, <1>4, <1>5

(* The decisions a repair has taken so far are closed. *)
LEMMA EvaluatedClosedStep ==
    ASSUME TypeOK, Course, Gates, Closing, [Next]_vars, NEW p \in Proc, pc'[p] = "evaluate"
    PROVE  Closed(job'[p].decisions, Book[job'[p].runbook], Evaluated(job'[p]))
<1>0. job[p] \in Job /\ LocalTypeOK
  BY JobFacts DEF TypeOK
<1>1. CASE Stays(p)
  BY <1>1 DEF Stays, Closing
<1>2. CASE SurveyDone(p)
  <2>1. job'[p].position = 1 /\ job'[p].runbook = job[p].runbook
    BY <1>0, <1>2 DEF SurveyDone, LocalTypeOK, Job
  <2>2. Order(job'[p]) \in Seq(StepId)
    BY <2>1, JobFacts, BookFacts DEF Order
  <2>3. Evaluated(job'[p]) = {}
    BY <2>1, <2>2 DEF Evaluated
  <2> QED
    BY <2>3 DEF Closed
<1>3. CASE EvaluateNext(p)
  <2> DEFINE s == CurrentStep(job[p])
             E == Evaluated(job[p])
             old == job[p].decisions
             new == job'[p].decisions
             e == EvaluateStep(Current(job[p]), job[p].records[s], job[p].contexts[s], old)
  <2>1. job[p].position \in DOMAIN Order(job[p])
    BY <1>3, JobFacts DEF EvaluateNext, Course, OnCourse
  <2>2. /\ job'[p].position = job[p].position + 1 /\ job'[p].runbook = job[p].runbook
        /\ new = [old EXCEPT ![s] = e]
    BY <1>0, <1>3 DEF EvaluateNext, LocalTypeOK, Job
  <2>3. Order(job'[p]) = Order(job[p]) /\ Order(job[p]) \in Seq(StepId)
    BY <2>2, JobFacts DEF Order
  <2>4. Evaluated(job'[p]) \subseteq E \cup {s}
    BY <2>1, <2>2, <2>3, JobFacts DEF Evaluated, CurrentStep
  <2>5. s \notin E /\ Current(job[p]).depends_on \subseteq E /\ E \subseteq StepId /\ s \in StepId
    BY <2>1, <2>3, OrderIsValid, AtAStep DEF Evaluated
  <2>6. old \in [StepId -> RepairDecision \cup {Null}]
    BY <1>0 DEF Job, Decisions
  <2>7. \A d \in E : old[d] # Null /\ old[d] \in RepairDecision /\ new[d] = old[d]
    <3>1. Marked(old, Book[job[p].runbook], E)
      BY <1>3 DEF EvaluateNext, Gates, Guarded
    <3> HIDE DEF E, old, e, s
    <3> QED
      BY <2>2, <2>5, <2>6, <3>1 DEF Marked
  <2>8. Closed(old, Book[job[p].runbook], E)
    BY <1>3 DEF EvaluateNext, Closing
  <2>9. ASSUME NEW t \in E, NEW d \in Book[job[p].runbook].steps[t].depends_on
        PROVE  d \in E
    <3>1. PICK x \in DOMAIN Order(job[p]) : x < job[p].position /\ t = Order(job[p])[x]
      BY DEF Evaluated
    <3>2. /\ x \in Nat /\ job[p].position \in Nat
          /\ Book[job[p].runbook].steps[t].depends_on \subseteq {Order(job[p])[k] : k \in 1..x-1}
      <4> DEFINE order == Book[job[p].runbook].order
      <4>1. \A i \in DOMAIN order :
               Book[job[p].runbook].steps[order[i]].depends_on \subseteq {order[k] : k \in 1..i-1}
        BY JobFacts, BookAssumption DEF Valid
      <4>2. Order(job[p]) = order
        BY DEF Order
      <4>3. x \in Nat /\ job[p].position \in Nat
        BY <2>3, <3>1, JobFacts
      <4> HIDE DEF order
      <4> QED
        BY <3>1, <4>1, <4>2, <4>3
    <3>3. \A k \in 1..x-1 : k \in DOMAIN Order(job[p]) /\ k < job[p].position
      BY <2>3, <3>1, <3>2
    <3> QED
      BY <2>9, <3>2, <3>3 DEF Evaluated
  <2>10. ASSUME NEW d \in Current(job[p]).depends_on
         PROVE  /\ e.decision = "REUSE" => old[d].decision = "REUSE"
                /\ old[d].decision \in {"CONFIRM", "BLOCK"} => e.decision = "BLOCK"
    BY <2>5, <2>7, <2>10, EvaluateStepCloses
  <2>11. new[s] = e
    BY <2>2, <2>5, <2>6
  <2>12. Current(job[p]) = Book[job[p].runbook].steps[s]
    BY DEF Current, Definition
  <2>13. ASSUME NEW t \in E \cup {s}, NEW d \in Book[job[p].runbook].steps[t].depends_on
         PROVE  /\ new[t].decision = "REUSE" => new[d].decision = "REUSE"
                /\ new[d].decision \in {"CONFIRM", "BLOCK"} => new[t].decision = "BLOCK"
    <3> HIDE DEF E, old, new, e, s
    <3>1. CASE t = s
      BY <2>5, <2>7, <2>10, <2>11, <2>12, <2>13, <3>1
    <3>2. CASE t \in E
      BY <2>7, <2>8, <2>9, <2>13, <3>2 DEF Closed
    <3> QED
      BY <2>13, <3>1, <3>2
  <2> QED
    BY <2>2, <2>4, <2>13 DEF Closed
<1> QED
  BY <1>1, <1>2, <1>3, Evaluates

(* Saved plans stay closed, and a new one is. *)
LEMMA PlansClosedStep ==
    ASSUME TypeOK, Course, Closing, [Next]_vars
    PROVE  PlansAreClosed'
<1>1. ASSUME NEW p \in Proc, SavePlan(p) PROVE PlansAreClosed'
  <2> DEFINE v == job[p].runbook
             plan == [run_id |-> job[p].run_id, source_runbook_digest |-> RunbookDigest(v),
                      decisions |-> job[p].decisions]
  <2>1. plans' = Append(plans, plan) /\ plans \in Seq(PlanRow)
    BY <1>1 DEF SavePlan, SaveRepairPlan, TypeOK, StoreTypeOK
  <2>2. Closed(job[p].decisions, Book[v], Steps(Book[v]))
    BY <1>1, SavedOrder DEF SavePlan, Closing
  <2>3. /\ plan.decisions = job[p].decisions
        /\ Book[plan.source_runbook_digest].steps = Book[v].steps
        /\ Steps(Book[plan.source_runbook_digest]) = Steps(Book[v])
    BY JobFacts, DigestFacts
  <2> HIDE DEF plan, v
  <2>4. ASSUME NEW k \in DOMAIN plans'
        PROVE  Closed(plans'[k].decisions, Book[plans'[k].source_runbook_digest],
                      Steps(Book[plans'[k].source_runbook_digest]))
    <3>1. plans'[k] = plan \/ (k \in DOMAIN plans /\ plans'[k] = plans[k])
      BY <2>1
    <3>2. CASE plans'[k] = plan
      BY <2>2, <2>3, <3>2 DEF Closed
    <3>3. CASE k \in DOMAIN plans /\ plans'[k] = plans[k]
      BY <3>3 DEF Closing, PlansAreClosed, PlanBook, Decided, Closed
    <3> QED
      BY <3>1, <3>2, <3>3
  <2> QED
    BY <2>4 DEF PlansAreClosed, PlanBook, Decided, Closed
<1>2. CASE plans' = plans
  BY <1>2 DEF Closing, PlansAreClosed, PlanBook, Decided
<1> QED
  BY <1>1, <1>2, PlansStep

(* There is no plan at the start. *)
LEMMA InitClosing == Init => Closing
  BY DEF Init, StoreInit, Closing, PlansAreClosed

(* Decisions agree with those for what their steps depend on. *)
LEMMA ClosingCorrect == Spec => []Closing
<1>1. Init => Gates /\ Closing
  BY InitGates, InitClosing
<1>2. TypeOK /\ Course /\ Gates /\ Closing /\ [Next]_vars => Gates' /\ Closing'
  BY GatesStep, PlansClosedStep, EvaluatedClosedStep DEF Closing
<1> QED
  BY <1>1, <1>2, CourseCorrect, PTL DEF Spec

(* Whatever state a run was left in, a repair plan reuses a step only      *)
(* together with all it depends on, and blocks whatever depends on a step  *)
(* that waits for confirmation.                                            *)
THEOREM PlansClosed == Spec => []PlansAreClosed
<1>1. Closing => PlansAreClosed
  BY DEF Closing
<1> QED
  BY <1>1, ClosingCorrect, PTL

=============================================================================
