------------------------------ MODULE RoundsProofs ------------------------------
(***************************************************************************)
(* What RecoveryRounds says of repair and resume holds for any number of   *)
(* steps: the closed form of a plan, that what it reuses stands, and the   *)
(* round in which each step gets done.                                     *)
(*                                                                         *)
(* The definitions recur over the dependencies, and so do the proofs:      *)
(* what holds of a step if it holds of the steps before it holds of all    *)
(* (Induction), and what is defined from the steps before exists           *)
(* (Recursion).                                                            *)
(***************************************************************************)
EXTENDS RecoveryRounds, WellFoundedInduction, TLAPS

-----------------------------------------------------------------------------
(* The invariant *)

(* What the variables are. *)
Shape ==
    /\ depends_on \in [StepId -> SUBSET StepId] /\ \A s \in StepId : depends_on[s] \subseteq 1..s-1
    /\ gated \subseteq StepId /\ revised \in BOOLEAN
    /\ rows \in [StepId -> Row] /\ fit \in [StepId -> Condition]
    /\ written \in {"nothing", "behind", "beyond"}
    /\ pc \in {"repair", "resume", "refused"}
    /\ pc = "resume" => decisions \in [StepId -> RepairDecision]
    /\ position \in Nat \ {0} /\ unready \subseteq StepId
    /\ disturbance \in Nat /\ due \in [StepId -> Nat] /\ rounds \in 0..N+1

Says(s, decision) == decisions[s].decision = decision

(* Until the resume has come to the first step and while no command has    *)
(* written, its plan is the one that the present calls for; and to the end *)
(* of the resume a step is reused with all it depends on, and, while       *)
(* commands change only what is behind them, has succeeded and fits.       *)
Planning ==
    pc = "resume" =>
        /\ position = 1 /\ written = "nothing" => decisions = Evaluated
        /\ \A s \in StepId : Says(s, "REUSE") =>
              /\ \A d \in depends_on[s] : Says(d, "REUSE")
              /\ ~revised /\ written # "beyond" => Fits(s)

(* After k rounds: the steps that are due in the next one are those that   *)
(* no gated step holds back.                                               *)
HeldAfter(k, s) ==
    \E a \in Ancestors[s] :
        a \in gated /\ due[a] > k /\ \A d \in depends_on[a] : due[d] <= k

Scheduled ==
    /\ \A s \in StepId : due[s] <= N /\ \A d \in depends_on[s] : due[d] <= due[s]
    /\ \A s \in StepId, k \in 0..N : due[s] > k => (HeldAfter(k, s) <=> due[s] > k + 1)

(* Between the rounds what is clean is what was due.  In a round the plan  *)
(* reuses what was due before it and holds back what is due after it, and  *)
(* the resume gets the rest done, step by step.                            *)
InPace ==
    /\ Scheduled
    /\ pc = "repair" => \A s \in StepId : Clean(s) <=> due[s] <= rounds
    /\ pc = "resume" => \A s \in StepId :
          /\ Says(s, "REUSE") <=> due[s] <= rounds
          /\ Says(s, "BLOCK") <=> due[s] > rounds + 1
          /\ s \in unready => Says(s, "BLOCK")
          /\ s < position /\ Says(s, "BLOCK") => rows[s].status = "BLOCKED"
          /\ due[s] <= rounds \/ (due[s] = rounds + 1 /\ s < position) => Fits(s)

Pacing == smooth /\ ~revised => InPace

-----------------------------------------------------------------------------
(* Induction and recursion *)

(* All numbers are in S if each one is as soon as those before it are.     *)
LEMMA Induction ==
    ASSUME NEW D \in SUBSET Nat, NEW S, \A n \in D : (\A k \in D : k < n => k \in S) => n \in S
    PROVE  \A n \in D : n \in S
<1> DEFINE T == D \ S
           R == {ss \in Nat \X Nat : ss[1] < ss[2]}
<1> SUFFICES ASSUME T # {} PROVE FALSE
  OBVIOUS
<1>1. IsWellFoundedOn(R, Nat)
  BY NatLessThanWellFounded DEF OpToRel
<1>2. \A k, n \in T : k < n => <<k, n>> \in R
  OBVIOUS
<1> HIDE DEF R
<1>3. PICK n \in T : \A k \in T : ~(<<k, n>> \in R)
  <2>1. T \subseteq Nat /\ T # {}
    OBVIOUS
  <2> HIDE DEF T
  <2> QED
    BY <1>1, <2>1, WFMin, Zenon
<1> QED
  BY <1>2, <1>3

(* G makes the value of a function at n from its values before n. *)
Recurs(D, V, G) ==
    /\ D \in SUBSET (0..N) /\ V # {} /\ G \in [D -> [[D -> V] -> V]]
    /\ \A n \in D : \A f, g \in [D -> V] :
          (\A k \in D : k < n => f[k] = g[k]) => G[n][f] = G[n][g]

Solution(D, V, G) == \E f \in [D -> V] : \A n \in D : f[n] = G[n][f]

(* A function whose value at n is made from its values before n exists.    *)
LEMMA Recursion == ASSUME NEW D, NEW V, NEW G, Recurs(D, V, G) PROVE Solution(D, V, G)
<1> USE DEF Recurs, Solution
<1> DEFINE Fit(f, n) == \A k \in D : k <= n => f[k] = G[k][f]
           S == {n \in 0..N : \E f \in [D -> V] : Fit(f, n)}
<1>0. N \in Nat /\ D \subseteq Nat
  BY StepAssumption
<1>1. PICK f0 \in [D -> V] : TRUE
  <2>1. PICK v \in V : TRUE
    OBVIOUS
  <2>2. [n \in D |-> v] \in [D -> V]
    BY <2>1
  <2> QED
    BY <2>2
<1>2. ASSUME NEW n \in 0..N, \A k \in 0..N : k < n => k \in S PROVE n \in S
  <2>1. PICK g \in [D -> V] : \A k \in D : k < n => g[k] = G[k][g]
    <3>1. CASE n = 0
      BY <1>0, <1>1, <3>1
    <3>2. CASE n # 0
      <4>1. n-1 \in 0..N /\ n-1 < n
        BY <1>0, <3>2
      <4>2. PICK g \in [D -> V] : Fit(g, n-1)
        BY <1>2, <4>1
      <4>3. \A k \in D : k < n => k <= n-1
        BY <1>0
      <4> QED
        BY <4>2, <4>3
    <3> QED
      BY <3>1, <3>2
  <2>2. CASE n \notin D
    <3>1. ASSUME NEW k \in D, k <= n PROVE k < n
      <4>1. k \in Nat /\ n \in Nat /\ k # n
        BY <1>0, <2>2
      <4> QED
        BY <3>1, <4>1
    <3>2. Fit(g, n)
      BY <2>1, <3>1
    <3> QED
      BY <3>2
  <2>3. CASE n \in D
    <3> DEFINE f == [g EXCEPT ![n] = G[n][g]]
    <3>1. G[n][g] \in V
      BY <2>3
    <3>2. /\ f \in [D -> V] /\ f[n] = G[n][g]
          /\ \A k \in D : k # n => f[k] = g[k]
      BY <2>3, <3>1
    <3> HIDE DEF f
    <3>3. ASSUME NEW k \in D, k <= n PROVE f[k] = G[k][f]
      <4>1. \A x \in D : x < k => x # n
        BY <1>0, <3>3
      <4>2. \A x \in D : x < k => f[x] = g[x]
        BY <3>2, <4>1
      <4>3. G[k][f] = G[k][g]
        BY <3>2, <4>2
      <4>4. k # n => k < n
        BY <1>0, <3>3
      <4> QED
        BY <2>1, <3>2, <4>3, <4>4
    <3> QED
      BY <3>2, <3>3
  <2> QED
    BY <2>2, <2>3
<1>3. N \in 0..N /\ 0..N \in SUBSET Nat /\ \A k \in D : k <= N
  BY <1>0
<1>4. N \in S
  <2> HIDE DEF S
  <2> QED
    BY <1>2, <1>3, Induction
<1>5. PICK f \in [D -> V] : Fit(f, N)
  BY <1>4
<1> QED
  BY <1>3, <1>5

-----------------------------------------------------------------------------
(* Ancestors *)

Graph ==
    /\ depends_on \in [StepId -> SUBSET StepId]
    /\ \A s \in StepId : depends_on[s] \subseteq 1..s-1

LEMMA Before ==
    ASSUME Graph, NEW s \in StepId, NEW d \in depends_on[s]
    PROVE  d \in StepId /\ d < s
  BY StepAssumption DEF Graph

AboveOf(f, s) == depends_on[s] \cup UNION {f[d] : d \in depends_on[s]}

(* The ancestors of a step are what it depends on, and their ancestors. *)
LEMMA AncestorsAre ==
    ASSUME Graph
    PROVE  \A s \in StepId : /\ Ancestors[s] = AboveOf(Ancestors, s)
                              /\ \A a \in Ancestors[s] : a \in StepId /\ a < s
<1> DEFINE V == SUBSET StepId
           G == [s \in StepId |-> [f \in [StepId -> V] |-> AboveOf(f, s)]]
<1>1. StepId \in SUBSET Nat /\ StepId \in SUBSET (0..N) /\ V # {}
  BY StepAssumption
<1>2. \A s \in StepId, f \in [StepId -> V] : AboveOf(f, s) \in V /\ G[s][f] = AboveOf(f, s)
  BY DEF Graph, AboveOf
<1>3. G \in [StepId -> [[StepId -> V] -> V]]
  BY <1>2
<1>4. \A s \in StepId : \A f, g \in [StepId -> V] :
         (\A k \in StepId : k < s => f[k] = g[k]) => G[s][f] = G[s][g]
  <2> SUFFICES ASSUME NEW s \in StepId, NEW f \in [StepId -> V], NEW g \in [StepId -> V],
                      \A k \in StepId : k < s => f[k] = g[k]
               PROVE  G[s][f] = G[s][g]
    OBVIOUS
  <2>1. \A d \in depends_on[s] : f[d] = g[d]
    BY Before
  <2>2. AboveOf(f, s) = AboveOf(g, s)
    BY <2>1 DEF AboveOf
  <2> QED
    BY <1>2, <2>2
<1> HIDE DEF G
<1>5. Recurs(StepId, V, G)
  <2> HIDE DEF V
  <2> QED
    BY <1>1, <1>3, <1>4 DEF Recurs
<1>6. PICK f \in [StepId -> V] : \A s \in StepId : f[s] = AboveOf(f, s)
  <2> HIDE DEF V
  <2> QED
    BY <1>2, <1>5, Recursion DEF Solution
<1>7. f = [s \in StepId |-> AboveOf(f, s)]
  BY <1>6
<1>8. Ancestors = CHOOSE g : g = [s \in StepId |-> AboveOf(g, s)]
  BY DEF Ancestors, AboveOf
<1>9. Ancestors = [s \in StepId |-> AboveOf(Ancestors, s)]
  BY <1>7, <1>8
<1>10. \A s \in StepId : Ancestors[s] = AboveOf(Ancestors, s)
  BY <1>9
<1> DEFINE S == {s \in StepId : \A a \in Ancestors[s] : a \in StepId /\ a < s}
<1>11. ASSUME NEW s \in StepId, \A k \in StepId : k < s => k \in S PROVE s \in S
  <2>1. ASSUME NEW a \in Ancestors[s] PROVE a \in StepId /\ a < s
    <3>1. CASE a \in depends_on[s]
      BY <3>1, Before
    <3>2. ASSUME NEW d \in depends_on[s], a \in Ancestors[d] PROVE a \in StepId /\ a < s
      <4>1. d \in StepId /\ d < s
        BY Before
      <4>2. a \in StepId /\ a < d
        BY <1>11, <3>2, <4>1
      <4> QED
        BY <1>1, <4>1, <4>2
    <3> QED
      BY <1>10, <2>1, <3>1, <3>2 DEF AboveOf
  <2> QED
    BY <2>1
<1>12. \A s \in StepId : s \in S
  <2> HIDE DEF S
  <2> QED
    BY <1>1, <1>11, Induction
<1> QED
  BY <1>10, <1>12

(* The ancestors of a step are in every set that has the step and is       *)
(* closed under the dependencies.                                          *)
LEMMA AncestorsWithin ==
    ASSUME Graph, NEW C, \A t \in C : t \in StepId /\ depends_on[t] \subseteq C
    PROVE  \A s \in C : Ancestors[s] \subseteq C
<1> DEFINE S == {s \in StepId : s \in C => Ancestors[s] \subseteq C}
<1>1. StepId \in SUBSET Nat
  BY StepAssumption
<1>2. ASSUME NEW s \in StepId, \A k \in StepId : k < s => k \in S PROVE s \in S
  <2>1. ASSUME s \in C, NEW a \in Ancestors[s] PROVE a \in C
    <3>1. CASE a \in depends_on[s]
      BY <2>1, <3>1
    <3>2. ASSUME NEW d \in depends_on[s], a \in Ancestors[d] PROVE a \in C
      <4>1. d \in StepId /\ d < s /\ d \in C
        BY <2>1, Before
      <4> QED
        BY <1>2, <3>2, <4>1
    <3> QED
      BY <2>1, <3>1, <3>2, AncestorsAre DEF AboveOf
  <2> QED
    BY <2>1
<1>3. \A s \in StepId : s \in S
  <2> HIDE DEF S
  <2> QED
    BY <1>1, <1>2, Induction
<1> QED
  BY <1>3

(* The ancestors of an ancestor are ancestors. *)
LEMMA AncestorsClose ==
    ASSUME Graph, NEW s \in StepId, NEW a \in Ancestors[s]
    PROVE  Ancestors[a] \subseteq Ancestors[s]
<1> DEFINE C(t) == \A b \in Ancestors[t] : Ancestors[b] \subseteq Ancestors[t]
           S == {t \in StepId : C(t)}
<1>1. StepId \in SUBSET Nat
  BY StepAssumption
<1>2. ASSUME NEW t \in StepId, \A k \in StepId : k < t => k \in S PROVE t \in S
  <2>1. ASSUME NEW b \in Ancestors[t] PROVE Ancestors[b] \subseteq Ancestors[t]
    <3>1. CASE b \in depends_on[t]
      BY <3>1, AncestorsAre DEF AboveOf
    <3>2. ASSUME NEW d \in depends_on[t], b \in Ancestors[d]
          PROVE  Ancestors[b] \subseteq Ancestors[t]
      <4>1. d \in StepId /\ d < t
        BY Before
      <4>2. Ancestors[b] \subseteq Ancestors[d]
        BY <1>2, <3>2, <4>1
      <4>3. Ancestors[d] \subseteq Ancestors[t]
        BY AncestorsAre DEF AboveOf
      <4> QED
        BY <4>2, <4>3
    <3> QED
      BY <2>1, <3>1, <3>2, AncestorsAre DEF AboveOf
  <2> QED
    BY <2>1
<1>3. \A t \in StepId : t \in S
  <2> HIDE DEF S
  <2> QED
    BY <1>1, <1>2, Induction
<1> QED
  BY <1>3

(* What is clean stands on what is clean. *)
LEMMA CleanIs ==
    ASSUME Graph, NEW s \in StepId
    PROVE  /\ Clean(s) <=> Fits(s) /\ \A d \in depends_on[s] : Clean(d)
           /\ Clean(s) => \A a \in Ancestors[s] : Clean(a)
<1>1. Ancestors[s] = depends_on[s] \cup UNION {Ancestors[d] : d \in depends_on[s]}
  BY AncestorsAre DEF AboveOf
<1>2. ASSUME Clean(s), NEW a \in Ancestors[s] PROVE Clean(a)
  <2>1. Ancestors[a] \subseteq Ancestors[s]
    BY AncestorsClose
  <2> QED
    BY <1>2, <2>1 DEF Clean
<1>3. Clean(s) => Fits(s)
  BY DEF Clean
<1>4. Clean(s) => \A d \in depends_on[s] : Clean(d)
  BY <1>1, <1>2
<1>5. Fits(s) /\ (\A d \in depends_on[s] : Clean(d)) => Clean(s)
  BY <1>1 DEF Clean
<1> QED
  BY <1>2, <1>3, <1>4, <1>5

-----------------------------------------------------------------------------
(* The plan *)

Table ==
    /\ Graph
    /\ gated \subseteq StepId /\ revised \in BOOLEAN
    /\ rows \in [StepId -> Row] /\ fit \in [StepId -> Condition]

EvaluatedFrom(E, s) == EvaluateStep(Def(s), rows[s], ContextOf(s), E)

LEMMA DecisionType ==
    ASSUME NEW s \in StepId, NEW E
    PROVE  EvaluatedFrom(E, s) \in RepairDecision
<1>1. RequiresConfirmation(Def(s)) \in BOOLEAN
  BY DEF RequiresConfirmation
<1> QED
  BY <1>1 DEF EvaluatedFrom, EvaluateStep, EvaluateSuccess, EvaluateFailure, Decide, OrConfirm,
       ContractReason, RepairDecision, Decision, ReasonCode

(* A decision looks at those of the dependencies only. *)
LEMMA DecisionLooksBack ==
    ASSUME NEW s, NEW E, NEW F, \A d \in depends_on[s] : E[d] = F[d]
    PROVE  EvaluatedFrom(E, s) = EvaluatedFrom(F, s)
<1>1. \A ds : DependencyDecided(Def(s), E, ds) <=> DependencyDecided(Def(s), F, ds)
  BY DEF DependencyDecided, Def
<1> QED
  BY <1>1 DEF EvaluatedFrom, EvaluateStep

(* The plan decides each step from the decisions for the steps before. *)
LEMMA EvaluatedIs ==
    ASSUME Graph
    PROVE  /\ Evaluated \in [StepId -> RepairDecision]
           /\ \A s \in StepId : Evaluated[s] = EvaluatedFrom(Evaluated, s)
<1> DEFINE V == [StepId -> RepairDecision \cup {Null}]
           Turn(f, n) == IF n = 0 THEN EmptyMap
                         ELSE [f[n - 1] EXCEPT ![n] = EvaluatedFrom(f[n - 1], n)]
           G == [n \in 0..N |-> [f \in [0..N -> V] |-> Turn(f, n)]]
<1>0. N \in Nat /\ StepId = 1..N
  BY StepAssumption
<1>1. EmptyMap \in V
  BY DEF EmptyMap
<1>2. ASSUME NEW n \in 0..N, NEW f \in [0..N -> V] PROVE Turn(f, n) \in V
  <2>1. CASE n = 0
    BY <1>1, <2>1
  <2>2. CASE n # 0
    <3>1. n \in StepId /\ n-1 \in 0..N
      BY <1>0, <2>2
    <3>2. EvaluatedFrom(f[n-1], n) \in RepairDecision
      BY <3>1, DecisionType
    <3>3. f[n-1] \in V
      BY <3>1
    <3> QED
      BY <2>2, <3>2, <3>3
  <2> QED
    BY <2>1, <2>2
<1>3. \A n \in 0..N, f \in [0..N -> V] : G[n][f] = Turn(f, n)
  OBVIOUS
<1>4. Recurs(0..N, V, G)
  <2>1. G \in [0..N -> [[0..N -> V] -> V]]
    BY <1>2
  <2>2. ASSUME NEW n \in 0..N, NEW f \in [0..N -> V], NEW g \in [0..N -> V],
               \A k \in 0..N : k < n => f[k] = g[k]
        PROVE  G[n][f] = G[n][g]
    <3>1. n # 0 => f[n-1] = g[n-1]
      BY <1>0, <2>2
    <3> QED
      BY <1>3, <3>1
  <2> HIDE DEF V, G
  <2> QED
    BY <1>1, <2>1, <2>2 DEF Recurs
<1>5. PICK f \in [0..N -> V] : \A n \in 0..N : f[n] = Turn(f, n)
  <2> HIDE DEF V, G, Turn
  <2>0. Solution(0..N, V, G)
    BY <1>4, Recursion, Zenon
  <2>1. PICK f \in [0..N -> V] : \A n \in 0..N : f[n] = G[n][f]
    BY <2>0 DEF Solution
  <2> QED
    BY <1>3, <2>1
<1> DEFINE decided == CHOOSE g : g = [n \in 0..N |-> Turn(g, n)]
<1>6. Evaluated = decided[N]
  BY DEF Evaluated, EvaluatedFrom
<1>7. f = [n \in 0..N |-> Turn(f, n)]
  <2> HIDE DEF Turn
  <2> QED
    BY <1>5
<1>8. decided = [n \in 0..N |-> Turn(decided, n)]
  <2> HIDE DEF Turn
  <2> QED
    BY <1>7
<1> HIDE DEF decided
<1>9. \A n \in 0..N : decided[n] = Turn(decided, n)
  <2> HIDE DEF Turn
  <2> QED
    BY <1>8
<1> DEFINE Filled(n) ==
              /\ decided[n] \in V
              /\ \A s \in StepId : s <= n =>
                    decided[n][s] \in RepairDecision /\ decided[n][s] = decided[s][s]
           S == {n \in 0..N : Filled(n)}
<1>10. ASSUME NEW n \in 0..N, \A k \in 0..N : k < n => k \in S PROVE n \in S
  <2>1. CASE n = 0
    <3>1. decided[n] = EmptyMap
      BY <1>9, <2>1
    <3> QED
      BY <1>0, <1>1, <2>1, <3>1
  <2>2. CASE n # 0
    <3>1. n \in StepId /\ n-1 \in 0..N /\ n-1 < n
      BY <1>0, <2>2
    <3>2. Filled(n-1)
      BY <1>10, <3>1
    <3>3. EvaluatedFrom(decided[n-1], n) \in RepairDecision
      BY <3>1, DecisionType
    <3>4. decided[n] = [decided[n-1] EXCEPT ![n] = EvaluatedFrom(decided[n-1], n)]
      BY <1>9, <2>2
    <3>5. decided[n] \in V
      BY <3>2, <3>3, <3>4
    <3>6. ASSUME NEW s \in StepId, s <= n
          PROVE  decided[n][s] \in RepairDecision /\ decided[n][s] = decided[s][s]
      <4>1. CASE s = n
        BY <3>1, <3>2, <3>3, <3>4, <4>1
      <4>2. CASE s # n
        <5>1. s <= n-1
          BY <1>0, <3>6, <4>2
        <5> QED
          BY <3>2, <3>4, <4>2, <5>1
      <4> QED
        BY <4>1, <4>2
    <3> QED
      BY <3>5, <3>6
  <2> QED
    BY <2>1, <2>2
<1>11. \A n \in 0..N : Filled(n)
  <2>1. 0..N \in SUBSET Nat
    BY <1>0
  <2> HIDE DEF S
  <2>2. \A n \in 0..N : n \in S
    BY <1>10, <2>1, Induction
  <2> QED
    BY <2>2 DEF S
<1>12. \A s \in StepId : s <= N /\ s \in 0..N /\ N \in 0..N
  BY <1>0
<1>13. \A s \in StepId : Evaluated[s] \in RepairDecision /\ Evaluated[s] = decided[s][s]
  BY <1>6, <1>11, <1>12
<1>14. Evaluated \in [StepId -> RepairDecision]
  <2>1. PICK E : E = Evaluated
    OBVIOUS
  <2>2. E \in V
    <3>1. N \in 0..N
      BY <1>0
    <3> HIDE DEF V
    <3>2. decided[N] \in V
      BY <1>11, <3>1, Zenon
    <3> QED
      BY <1>6, <2>1, <3>2
  <2>3. \A s \in StepId : E[s] \in RepairDecision
    BY <1>13, <2>1
  <2>4. E \in [StepId -> RepairDecision]
    BY <2>2, <2>3
  <2> QED
    BY <2>1, <2>4
<1>15. ASSUME NEW s \in StepId PROVE Evaluated[s] = EvaluatedFrom(Evaluated, s)
  <2>1. s-1 \in 0..N /\ s \in 0..N /\ s # 0
    BY <1>0
  <2>2. decided[s] = [decided[s-1] EXCEPT ![s] = EvaluatedFrom(decided[s-1], s)]
    BY <1>9, <2>1
  <2>3. Evaluated[s] = EvaluatedFrom(decided[s-1], s)
    BY <1>11, <1>13, <2>1, <2>2
  <2>4. ASSUME NEW d \in depends_on[s] PROVE decided[s-1][d] = Evaluated[d]
    <3>1. d \in StepId /\ d <= s-1
      BY <1>0, Before
    <3> QED
      BY <1>11, <1>13, <2>1, <3>1
  <2> QED
    BY <2>3, <2>4, DecisionLooksBack
<1> QED
  BY <1>14, <1>15

(* PlanIsClosedForm of one decision. *)
Held(s) == \E a \in Ancestors[s] : Stops(a)
Retryable(s) ==
    /\ rows[s].status # "SUCCEEDED" /\ rows[s].failure_kind = "TIMEOUT"
    /\ rows[s].attempt_count < MaxAttempts

Form(s, d) ==
    /\ d.decision = "REUSE" <=> Clean(s)
    /\ d.decision = "CONFIRM" <=> Stops(s)
    /\ d.decision = "BLOCK" <=> Held(s)
    /\ d.decision = "RETRY" <=> Origin(s) /\ ~Stops(s) /\ Retryable(s)
    /\ d.requires_confirmation <=> s \in gated /\ ~Clean(s) /\ ~Held(s)
    /\ d.reason_code = "DEPENDENCY_INVALIDATED" <=> ~Clean(s) /\ ~Origin(s)

(* The decision for a step that no dependency decides. *)
LEMMA OwnForm ==
    ASSUME Table, NEW s \in StepId, NEW E,
           ~Held(s), \A d \in depends_on[s] : Clean(d) /\ E[d].decision = "REUSE"
    PROVE  Form(s, EvaluatedFrom(E, s))
<1> DEFINE d == EvaluatedFrom(E, s)
<1>1. /\ ~DependencyDecided(Def(s), E, {"BLOCK", "CONFIRM"})
      /\ ~DependencyDecided(Def(s), E, {"RERUN", "RETRY"})
  BY DEF DependencyDecided, Def
<1>2. /\ Clean(s) <=> Fits(s)
      /\ Origin(s) <=> ~Clean(s)
      /\ Stops(s) <=> ~Clean(s) /\ s \in gated
  BY CleanIs DEF Table, Origin, Stops, Dirty
<1>3. RequiresConfirmation(Def(s)) <=> s \in gated
  BY DEF RequiresConfirmation, Def, GatedEffects
<1>4. CASE HasSucceeded(rows[s])
  <2>1. d = EvaluateSuccess(Def(s), ContextOf(s))
    BY <1>1, <1>4 DEF EvaluatedFrom, EvaluateStep
  <2>2. ContractReason(ContextOf(s)) = "SUCCESS_CONTRACT_MATCH" <=> Clean(s)
    BY <1>2, <1>4 DEF ContractReason, ContextOf, Fits, HasSucceeded, Table, Condition
  <2>3. ContractReason(ContextOf(s)) # "DEPENDENCY_INVALIDATED" /\ ~Retryable(s)
    BY <1>4 DEF ContractReason, HasSucceeded, Retryable
  <2> QED
    BY <1>2, <1>3, <2>1, <2>2, <2>3 DEF EvaluateSuccess, Decide, OrConfirm, Form
<1>5. CASE ~HasSucceeded(rows[s])
  <2>1. d = EvaluateFailure(Def(s), rows[s])
    BY <1>1, <1>5 DEF EvaluatedFrom, EvaluateStep
  <2>2. ~Clean(s)
    BY <1>2, <1>5 DEF Fits, HasSucceeded
  <2>3. rows[s].failure_kind \in {"TIMEOUT", Null} /\ Null # "TIMEOUT"
    BY AbsenceAssumption DEF Table, Row, FailureKind
  <2>4. Allows(Def(s).retry, IF rows[s].failure_kind = Null THEN "INTERNAL"
                             ELSE rows[s].failure_kind, rows[s].attempt_count)
           <=> Retryable(s)
    BY <1>5, <2>3 DEF Allows, Def, Retryable, HasSucceeded
  <2> QED
    BY <1>2, <1>3, <2>1, <2>2, <2>4 DEF EvaluateFailure, Decide, OrConfirm, Form
<1> QED
  BY <1>4, <1>5

LEMMA FormOfPlan ==
    ASSUME Table
    PROVE  \A s \in StepId : Form(s, Evaluated[s])
<1> DEFINE S == {s \in StepId : Form(s, Evaluated[s])}
<1>1. StepId \in SUBSET Nat
  BY StepAssumption
<1>2. ASSUME NEW s \in StepId, \A k \in StepId : k < s => k \in S PROVE s \in S
  <2>1. \A d \in depends_on[s] : d \in StepId /\ d < s /\ Form(d, Evaluated[d])
    BY <1>2, Before DEF Table
  <2>2. /\ Evaluated[s] = EvaluatedFrom(Evaluated, s)
        /\ \A d \in depends_on[s] :
              Evaluated[d] # Null /\ Evaluated[d] \in RepairDecision
    BY <2>1, EvaluatedIs, AbsenceAssumption DEF Table
  <2>3. \A d \in depends_on[s] : Evaluated[d].decision \in Decision
    BY <2>2 DEF RepairDecision
  <2>4. Held(s) <=> \E d \in depends_on[s] : Held(d) \/ Stops(d)
    BY AncestorsAre DEF AboveOf, Held, Table
  <2>5. /\ RequiresConfirmation(Def(s)) <=> s \in gated
        /\ Def(s).depends_on = depends_on[s]
    BY DEF RequiresConfirmation, Def, GatedEffects
  <2>6. Clean(s) => \A d \in depends_on[s] : Clean(d)
    BY CleanIs DEF Table
  <2>7. \A d \in depends_on[s] : Clean(d) => ~Held(d) /\ ~Stops(d)
    BY <2>1 DEF Form
  <2>8. Origin(s) <=> ~Clean(s) /\ \A d \in depends_on[s] : Clean(d)
    BY <2>1 DEF Origin, Dirty
  <2>9. CASE Held(s)
    <3>1. DependencyDecided(Def(s), Evaluated, {"BLOCK", "CONFIRM"})
      BY <2>1, <2>2, <2>4, <2>5, <2>9 DEF Form, DependencyDecided
    <3>2. Evaluated[s] = Decide("BLOCK", "DEPENDENCY_INVALIDATED", FALSE)
      BY <2>2, <3>1 DEF EvaluatedFrom, EvaluateStep
    <3>3. ~Clean(s) /\ ~Origin(s) /\ ~Stops(s)
      BY <2>4, <2>6, <2>7, <2>8, <2>9 DEF Stops
    <3> QED
      BY <2>9, <3>2, <3>3 DEF Form, Decide
  <2>10. CASE ~Held(s) /\ \E d \in depends_on[s] : ~Clean(d)
    <3>1. ~DependencyDecided(Def(s), Evaluated, {"BLOCK", "CONFIRM"})
      BY <2>1, <2>4, <2>5, <2>10 DEF Form, DependencyDecided
    <3>2. DependencyDecided(Def(s), Evaluated, {"RERUN", "RETRY"})
      <4>1. PICK d \in depends_on[s] : ~Clean(d)
        BY <2>10
      <4>2. Evaluated[d].decision \notin {"REUSE", "BLOCK", "CONFIRM"}
        BY <2>1, <2>4, <2>10, <4>1 DEF Form
      <4> QED
        BY <2>2, <2>3, <2>5, <4>2 DEF DependencyDecided, Decision
    <3>3. Evaluated[s] = Decide("RERUN", "DEPENDENCY_INVALIDATED", RequiresConfirmation(Def(s)))
      BY <2>2, <3>1, <3>2 DEF EvaluatedFrom, EvaluateStep
    <3>4. ~Clean(s) /\ ~Origin(s) /\ ~Stops(s)
      BY <2>6, <2>8, <2>10 DEF Stops
    <3> QED
      BY <2>5, <2>10, <3>3, <3>4 DEF Form, Decide
  <2>11. CASE ~Held(s) /\ \A d \in depends_on[s] : Clean(d)
    <3>1. \A d \in depends_on[s] : Clean(d) /\ Evaluated[d].decision = "REUSE"
      BY <2>1, <2>11 DEF Form
    <3> QED
      BY <2>2, <2>11, <3>1, OwnForm
  <2> QED
    BY <2>9, <2>10, <2>11
<1>3. \A s \in StepId : s \in S
  <2> HIDE DEF S
  <2> QED
    BY <1>1, <1>2, Induction
<1> QED
  BY <1>3

-----------------------------------------------------------------------------
(* The rounds *)

(* Some step of a set has the largest value, and Max is that value. *)
LEMMA MaxOf ==
    ASSUME NEW f \in [StepId -> Nat], NEW ds \in SUBSET StepId, ds # {}
    PROVE  /\ \A d \in ds : f[d] <= Max({f[e] : e \in ds})
           /\ \E d \in ds : f[d] = Max({f[e] : e \in ds})
<1> DEFINE Top(D, d) == d \in D /\ \A e \in D : f[e] <= f[d]
           S == {n \in 0..N : \A D \in SUBSET (1..n) : D # {} => \E d \in D : Top(D, d)}
<1>0. N \in Nat /\ StepId = 1..N /\ \A s \in StepId : f[s] \in Nat
  BY StepAssumption
<1>1. ASSUME NEW n \in 0..N, \A k \in 0..N : k < n => k \in S PROVE n \in S
  <2> SUFFICES ASSUME NEW D \in SUBSET (1..n), D # {} PROVE \E d \in D : Top(D, d)
    OBVIOUS
  <2>1. n # 0 /\ n-1 \in 0..N /\ n-1 < n /\ n \in StepId
    <3>1. PICK x \in D : x \in 1..n
      OBVIOUS
    <3>2. n \in Nat /\ n # 0 /\ n <= N
      BY <1>0, <3>1
    <3> QED
      BY <1>0, <3>2
  <2>2. D \ {n} \in SUBSET (1..n-1) /\ D \subseteq StepId
    BY <1>0
  <2>3. CASE D \ {n} = {}
    <3>1. D = {n}
      BY <2>3
    <3> QED
      BY <1>0, <2>1, <3>1
  <2>4. CASE D \ {n} # {}
    <3>1. PICK d \in D \ {n} : Top(D \ {n}, d)
      <4>1. n-1 \in S
        BY <1>1, <2>1
      <4> HIDE DEF Top
      <4>2. \A E \in SUBSET (1..n-1) : E # {} => \E d \in E : Top(E, d)
        BY <4>1
      <4> QED
        BY <2>2, <2>4, <4>2, Zenon
    <3>2. CASE f[n] <= f[d]
      <4>1. Top(D, d)
        BY <3>1, <3>2
      <4> QED
        BY <4>1
    <3>3. CASE ~(f[n] <= f[d]) /\ n \in D
      <4>1. \A e \in D \ {n} : f[e] <= f[n]
        BY <1>0, <2>1, <2>2, <3>1, <3>3
      <4>2. Top(D, n)
        BY <1>0, <2>1, <3>3, <4>1
      <4> QED
        BY <4>2
    <3>4. CASE n \notin D
      <4>1. Top(D, d)
        BY <3>1, <3>4
      <4> QED
        BY <4>1
    <3> QED
      BY <3>2, <3>3, <3>4
  <2> QED
    BY <2>3, <2>4
<1>2. 0..N \in SUBSET Nat
  BY <1>0
<1>3. \A n \in 0..N : n \in S
  <2> HIDE DEF S
  <2> QED
    BY <1>1, <1>2, Induction
<1>4. PICK d \in ds : Top(ds, d)
  <2>1. N \in 0..N /\ ds \in SUBSET (1..N)
    BY <1>0
  <2> QED
    BY <1>3, <2>1
<1> DEFINE T == {f[e] : e \in ds}
<1>5. f[d] \in T /\ (\A y \in T : f[d] >= y) /\ \A y \in T : y \in Nat
  BY <1>0, <1>4
<1>6. Max(T) \in T /\ \A y \in T : Max(T) >= y
  <2> HIDE DEF T
  <2> QED
    BY <1>5 DEF Max
<1>7. f[d] \in T /\ \A e \in ds : f[e] \in T
  OBVIOUS
<1>8. Max(T) = f[d]
  <2> HIDE DEF T
  <2> QED
    BY <1>5, <1>6
<1> QED
  BY <1>4, <1>8

(* Due, taken apart. *)
LastOf(f, s) ==
    IF depends_on[s] \cap Dirty = {} THEN 1 ELSE Max({f[d] : d \in depends_on[s] \cap Dirty})

StopAt(f, s) ==
    \E a \in Ancestors[s] \cap Dirty :
        /\ a \in gated /\ f[a] = LastOf(f, s)
        /\ \A d \in depends_on[a] \cap Dirty : f[d] < LastOf(f, s)

RoundOf(f, s) == IF StopAt(f, s) THEN LastOf(f, s) + 1 ELSE LastOf(f, s)

LEMMA LastIs ==
    ASSUME Graph, NEW f \in [StepId -> Nat], NEW s \in StepId
    PROVE  /\ LastOf(f, s) \in Nat
           /\ \A d \in depends_on[s] \cap Dirty : f[d] <= LastOf(f, s)
           /\ \/ LastOf(f, s) = 1 /\ depends_on[s] \cap Dirty = {}
              \/ \E d \in depends_on[s] \cap Dirty : f[d] = LastOf(f, s)
<1> DEFINE ds == depends_on[s] \cap Dirty
<1>1. CASE ds = {}
  BY <1>1 DEF LastOf
<1>2. CASE ds # {}
  <2>1. ds \in SUBSET StepId /\ LastOf(f, s) = Max({f[e] : e \in ds})
    BY <1>2 DEF Dirty, LastOf
  <2> HIDE DEF ds
  <2>2. (\A d \in ds : f[d] <= LastOf(f, s)) /\ \E d \in ds : f[d] = LastOf(f, s)
    BY <1>2, <2>1, MaxOf
  <2>3. LastOf(f, s) \in Nat
    BY <2>1, <2>2
  <2> QED
    BY <2>2, <2>3 DEF ds
<1> QED
  BY <1>1, <1>2

LEMMA RoundLooksBack ==
    ASSUME Graph, NEW f, NEW g, NEW s \in StepId, \A k \in StepId : k < s => f[k] = g[k]
    PROVE  RoundOf(f, s) = RoundOf(g, s)
<1>1. \A d \in depends_on[s] : f[d] = g[d]
  BY Before
<1>2. {f[d] : d \in depends_on[s] \cap Dirty} = {g[d] : d \in depends_on[s] \cap Dirty}
  BY <1>1
<1>3. LastOf(f, s) = LastOf(g, s)
  BY <1>2 DEF LastOf
<1>4. ASSUME NEW a \in Ancestors[s]
      PROVE  f[a] = g[a] /\ \A d \in depends_on[a] : f[d] = g[d]
  <2>1. a \in StepId /\ a < s
    BY AncestorsAre
  <2>2. ASSUME NEW d \in depends_on[a] PROVE f[d] = g[d]
    <3>1. d \in StepId /\ d < a
      BY <2>1, Before
    <3> QED
      BY <2>1, <3>1, StepAssumption
  <2> QED
    BY <2>1, <2>2
<1>5. StopAt(f, s) <=> StopAt(g, s)
  BY <1>3, <1>4 DEF StopAt
<1> QED
  BY <1>3, <1>5 DEF RoundOf

(* The round of every step is as Due says. *)
LEMMA DueIs ==
    ASSUME Graph
    PROVE  \E f \in [StepId -> Nat] :
              /\ \A s \in StepId : f[s] = RoundOf(f, s)
              /\ Due = [s \in StepId |-> IF s \in Dirty THEN f[s] ELSE 0]
<1> DEFINE G == [s \in StepId |-> [f \in [StepId -> Nat] |-> RoundOf(f, s)]]
<1>1. StepId \in SUBSET (0..N) /\ Nat # {}
  BY StepAssumption
<1>2. \A s \in StepId, f \in [StepId -> Nat] : RoundOf(f, s) \in Nat /\ G[s][f] = RoundOf(f, s)
  BY LastIs DEF RoundOf
<1>3. G \in [StepId -> [[StepId -> Nat] -> Nat]]
  BY <1>2
<1>4. \A s \in StepId : \A f, g \in [StepId -> Nat] :
         (\A k \in StepId : k < s => f[k] = g[k]) => G[s][f] = G[s][g]
  BY <1>2, RoundLooksBack
<1>5. Recurs(StepId, Nat, G)
  <2> HIDE DEF G
  <2> QED
    BY <1>1, <1>3, <1>4 DEF Recurs
<1>6. PICK f \in [StepId -> Nat] : \A s \in StepId : f[s] = RoundOf(f, s)
  <2> HIDE DEF G
  <2>1. PICK f \in [StepId -> Nat] : \A s \in StepId : f[s] = G[s][f]
    BY <1>5, Recursion DEF Solution
  <2> QED
    BY <1>2, <2>1
<1> DEFINE round == CHOOSE g : g = [s \in StepId |-> RoundOf(g, s)]
<1>7. Due = [s \in StepId |-> IF s \in Dirty THEN round[s] ELSE 0]
  BY DEF Due, RoundOf, StopAt, LastOf
<1>8. f = [s \in StepId |-> RoundOf(f, s)]
  BY <1>6
<1>9. round = [s \in StepId |-> RoundOf(round, s)]
  BY <1>8
<1> HIDE DEF round
<1> DEFINE S == {s \in StepId : round[s] = f[s]}
<1>10. ASSUME NEW s \in StepId, \A k \in StepId : k < s => k \in S PROVE s \in S
  <2>1. RoundOf(round, s) = RoundOf(f, s)
    BY <1>10, RoundLooksBack
  <2>2. round[s] = RoundOf(round, s)
    BY <1>9
  <2> QED
    BY <1>6, <2>1, <2>2
<1>11. \A s \in StepId : s \in S
  <2>1. StepId \in SUBSET Nat
    BY StepAssumption
  <2> HIDE DEF S
  <2> QED
    BY <1>10, <2>1, Induction
<1>12. Due = [s \in StepId |-> IF s \in Dirty THEN f[s] ELSE 0]
  BY <1>7, <1>11
<1> QED
  BY <1>6, <1>12

(* How the rounds follow one another along the dependencies. *)
RoundsOf(f) ==
    /\ f \in [StepId -> Nat] /\ \A s \in StepId : f[s] = RoundOf(f, s)

LEMMA RoundBounds ==
    ASSUME Graph, NEW f, RoundsOf(f), NEW s \in StepId
    PROVE  /\ f[s] \in {LastOf(f, s), LastOf(f, s) + 1} /\ LastOf(f, s) \in Nat
           /\ 1 <= LastOf(f, s) /\ f[s] <= s
           /\ \A d \in depends_on[s] \cap Dirty : f[d] <= f[s]
           /\ depends_on[s] \cap Dirty = {} => f[s] = 1
<1> DEFINE S == {t \in StepId : 1 <= f[t] /\ f[t] <= t}
<1>0. /\ StepId \in SUBSET Nat /\ N \in Nat /\ \A t \in StepId : 1 <= t
      /\ f \in [StepId -> Nat] /\ \A t \in StepId : f[t] \in Nat
  BY StepAssumption DEF RoundsOf
<1>1. ASSUME NEW t \in StepId
      PROVE  /\ f[t] \in {LastOf(f, t), LastOf(f, t) + 1} /\ LastOf(f, t) \in Nat
             /\ \A d \in depends_on[t] \cap Dirty : f[d] <= LastOf(f, t)
             /\ \/ LastOf(f, t) = 1 /\ f[t] = 1 /\ depends_on[t] \cap Dirty = {}
                \/ \E d \in depends_on[t] \cap Dirty : f[d] = LastOf(f, t)
  <2>1. f[t] \in {LastOf(f, t), LastOf(f, t) + 1}
    BY DEF RoundsOf, RoundOf
  <2>2. ASSUME depends_on[t] \cap Dirty = {} PROVE f[t] = 1
    <3>1. \A d \in depends_on[t] : d \in StepId /\ Clean(d)
      BY <2>2, Before DEF Dirty
    <3>2. \A d \in depends_on[t] : \A a \in Ancestors[d] : Clean(a)
      BY <3>1, CleanIs
    <3>3. Ancestors[t] \cap Dirty = {}
      BY <3>1, <3>2, AncestorsAre DEF AboveOf, Dirty
    <3>4. ~StopAt(f, t)
      BY <3>3 DEF StopAt
    <3> QED
      BY <2>2, <3>4 DEF RoundsOf, RoundOf, LastOf
  <2> QED
    BY <1>0, <2>1, <2>2, LastIs
<1>2. ASSUME NEW t \in StepId, \A k \in StepId : k < t => k \in S PROVE t \in S
  <2>1. CASE f[t] = 1
    BY <1>0, <2>1
  <2>2. ASSUME NEW d \in depends_on[t] \cap Dirty, f[d] = LastOf(f, t) PROVE t \in S
    <3>1. d \in StepId /\ d < t
      BY Before
    <3>2. 1 <= f[d] /\ f[d] <= d /\ f[d] \in Nat /\ d \in Nat /\ t \in Nat
      BY <1>0, <1>2, <3>1
    <3> QED
      BY <1>1, <2>2, <3>1, <3>2
  <2> QED
    BY <1>1, <2>1, <2>2
<1>3. \A t \in StepId : t \in S
  <2> HIDE DEF S
  <2> QED
    BY <1>0, <1>2, Induction
<1>4. 1 <= LastOf(f, s)
  <2>1. \A d \in depends_on[s] : d \in StepId
    BY Before
  <2> QED
    BY <1>1, <1>3, <2>1
<1>5. \A d \in depends_on[s] \cap Dirty : f[d] <= f[s]
  <2>1. \A d \in depends_on[s] : d \in StepId
    BY Before
  <2> QED
    BY <1>0, <1>1, <2>1
<1> QED
  BY <1>1, <1>3, <1>4, <1>5

(* An ancestor is not done after the step. *)
LEMMA RoundsGrow ==
    ASSUME Graph, NEW f, RoundsOf(f), NEW s \in StepId, NEW a \in Ancestors[s] \cap Dirty
    PROVE  f[a] <= LastOf(f, s)
<1> DEFINE S == {t \in StepId : \A b \in Ancestors[t] \cap Dirty : f[b] <= LastOf(f, t)}
<1>0. StepId \in SUBSET Nat /\ \A t \in StepId : f[t] \in Nat
  BY StepAssumption DEF RoundsOf
<1>1. ASSUME NEW t \in StepId, \A k \in StepId : k < t => k \in S PROVE t \in S
  <2>1. ASSUME NEW b \in Ancestors[t] \cap Dirty PROVE f[b] <= LastOf(f, t)
    <3>1. /\ \A d \in depends_on[t] \cap Dirty : f[d] <= LastOf(f, t)
          /\ LastOf(f, t) \in Nat /\ b \in StepId
      BY LastIs, AncestorsAre DEF RoundsOf
    <3>2. CASE b \in depends_on[t]
      BY <3>1, <3>2
    <3>3. ASSUME NEW d \in depends_on[t], b \in Ancestors[d] PROVE f[b] <= LastOf(f, t)
      <4>1. d \in StepId /\ d < t
        BY Before
      <4>2. d \in Dirty
        BY <2>1, <3>3, <4>1, CleanIs DEF Dirty
      <4>3. f[b] <= LastOf(f, d)
        BY <1>1, <3>3, <4>1
      <4>4. LastOf(f, d) <= f[d] /\ LastOf(f, d) \in Nat
        BY <4>1, RoundBounds
      <4>5. f[d] <= LastOf(f, t)
        BY <3>1, <4>2
      <4> QED
        BY <1>0, <3>1, <4>1, <4>3, <4>4, <4>5
    <3> QED
      BY <2>1, <3>2, <3>3, AncestorsAre DEF AboveOf
  <2> QED
    BY <2>1
<1>2. \A t \in StepId : t \in S
  <2> HIDE DEF S
  <2> QED
    BY <1>0, <1>1, Induction
<1> QED
  BY <1>2

LEMMA DueSchedules ==
    ASSUME Graph, due = Due
    PROVE  /\ due \in [StepId -> Nat] /\ Scheduled
           /\ \A s \in StepId : Clean(s) <=> due[s] <= 0
<1>1. PICK f : RoundsOf(f) /\ due = [s \in StepId |-> IF s \in Dirty THEN f[s] ELSE 0]
  BY DueIs DEF RoundsOf
<1>2. /\ StepId = 1..N /\ N \in Nat /\ \A s \in StepId : f[s] \in Nat
      /\ \A s \in StepId : due[s] = IF s \in Dirty THEN f[s] ELSE 0
  BY <1>1, StepAssumption DEF RoundsOf
<1>3. \A s \in StepId : 1 <= f[s] /\ f[s] <= s /\ f[s] <= N
  <2> SUFFICES ASSUME NEW s \in StepId PROVE 1 <= f[s] /\ f[s] <= s /\ f[s] <= N
    OBVIOUS
  <2>1. /\ f[s] \in {LastOf(f, s), LastOf(f, s) + 1} /\ LastOf(f, s) \in Nat
        /\ 1 <= LastOf(f, s) /\ f[s] <= s
    BY <1>1, RoundBounds
  <2> QED
    BY <1>2, <2>1
<1>4. due \in [StepId -> Nat]
  <2>1. \A s \in StepId : due[s] \in Nat
    BY <1>2
  <2> QED
    BY <1>1, <1>2
<1>5. \A s \in StepId : /\ Clean(s) <=> due[s] <= 0
                        /\ \A k \in Nat : due[s] > k => s \in Dirty /\ f[s] = due[s]
  BY <1>2, <1>3 DEF Dirty
<1>6. ASSUME NEW s \in StepId
      PROVE  due[s] <= N /\ \A d \in depends_on[s] : due[d] <= due[s]
  <2>1. ASSUME NEW d \in depends_on[s] PROVE due[d] <= due[s]
    <3>1. d \in StepId
      BY Before
    <3>2. d \in Dirty => s \in Dirty
      BY <3>1, CleanIs DEF Dirty
    <3>3. d \in Dirty => f[d] <= f[s]
      BY <1>1, RoundBounds
    <3> QED
      BY <1>2, <3>1, <3>2, <3>3
  <2> QED
    BY <1>2, <1>3, <2>1
<1>7. ASSUME NEW k \in 0..N, NEW s \in StepId, due[s] > k, HeldAfter(k, s)
      PROVE  due[s] > k + 1
  <2>1. PICK a \in Ancestors[s] :
           a \in gated /\ due[a] > k /\ \A d \in depends_on[a] : due[d] <= k
    BY <1>7 DEF HeldAfter
  <2>2. a \in StepId /\ a \in Dirty /\ s \in Dirty /\ due[a] = f[a] /\ due[s] = f[s]
    BY <1>5, <1>7, <2>1, AncestorsAre
  <2>3. \A d \in depends_on[a] \cap Dirty : d \in StepId /\ f[d] <= k
    BY <1>2, <2>1, <2>2, Before
  <2>4. f[a] = k + 1
    <3>1. /\ f[a] \in {LastOf(f, a), LastOf(f, a) + 1} /\ LastOf(f, a) \in Nat
          /\ depends_on[a] \cap Dirty = {} => f[a] = 1
      BY <1>1, <2>2, RoundBounds
    <3>2. \/ depends_on[a] \cap Dirty = {}
          \/ \E d \in depends_on[a] \cap Dirty : f[d] = LastOf(f, a)
      BY <1>1, <2>2, LastIs DEF RoundsOf
    <3> QED
      BY <1>2, <2>1, <2>2, <2>3, <3>1, <3>2
  <2>5. k + 1 <= LastOf(f, s)
    BY <1>1, <2>2, <2>4, RoundsGrow
  <2>6. f[s] = RoundOf(f, s) /\ LastOf(f, s) \in Nat
    BY <1>1, LastIs DEF RoundsOf
  <2>7. CASE LastOf(f, s) = k + 1
    <3>1. \A d \in depends_on[a] \cap Dirty : f[d] < k + 1
      BY <1>2, <2>3
    <3>2. StopAt(f, s)
      BY <2>1, <2>2, <2>4, <2>7, <3>1 DEF StopAt
    <3> QED
      BY <2>2, <2>6, <2>7, <3>2 DEF RoundOf
  <2>8. CASE LastOf(f, s) # k + 1
    <3>1. LastOf(f, s) > k + 1
      BY <2>5, <2>6, <2>8
    <3> QED
      BY <2>2, <2>6, <3>1 DEF RoundOf
  <2> QED
    BY <2>7, <2>8
<1>8. ASSUME NEW k \in 0..N PROVE \A s \in StepId : due[s] > k + 1 => HeldAfter(k, s)
  <2> DEFINE S == {s \in StepId : due[s] > k + 1 => HeldAfter(k, s)}
  <2>1. ASSUME NEW s \in StepId, \A t \in StepId : t < s => t \in S, due[s] > k + 1
        PROVE  HeldAfter(k, s)
    <3>1. s \in Dirty /\ due[s] = f[s]
      BY <1>5, <2>1
    <3>2. f[s] = RoundOf(f, s) /\ LastOf(f, s) \in Nat
      BY <1>1, LastIs DEF RoundsOf
    <3>3. CASE LastOf(f, s) > k + 1
      <4>1. PICK d \in depends_on[s] \cap Dirty : f[d] = LastOf(f, s)
        BY <1>1, <3>3, LastIs DEF RoundsOf
      <4>2. d \in StepId /\ d < s /\ due[d] > k + 1
        BY <1>2, <3>3, <4>1, Before
      <4>3. HeldAfter(k, d)
        BY <2>1, <4>2
      <4>4. Ancestors[d] \subseteq Ancestors[s]
        BY <4>1, AncestorsAre DEF AboveOf
      <4> QED
        BY <4>3, <4>4 DEF HeldAfter
    <3>4. CASE ~(LastOf(f, s) > k + 1)
      <4>1. StopAt(f, s) /\ LastOf(f, s) = k + 1
        BY <2>1, <3>1, <3>2, <3>4 DEF RoundOf
      <4>2. PICK a \in Ancestors[s] \cap Dirty :
               a \in gated /\ f[a] = k + 1 /\ \A d \in depends_on[a] \cap Dirty : f[d] < k + 1
        BY <4>1 DEF StopAt
      <4>3. a \in StepId /\ due[a] > k
        BY <1>2, <4>2, AncestorsAre
      <4>4. \A d \in depends_on[a] : due[d] <= k
        BY <1>2, <4>2, <4>3, Before
      <4> QED
        BY <4>2, <4>3, <4>4 DEF HeldAfter
    <3> QED
      BY <3>3, <3>4
  <2>2. \A s \in StepId : s \in S
    <3>1. StepId \in SUBSET Nat
      BY StepAssumption
    <3>2. \A s \in StepId : (\A t \in StepId : t < s => t \in S) => s \in S
      BY <2>1
    <3> HIDE DEF S
    <3> QED
      BY <3>1, <3>2, Induction
  <2> QED
    BY <2>2
<1>9. Scheduled
  BY <1>6, <1>7, <1>8 DEF Scheduled
<1> QED
  BY <1>4, <1>5, <1>9

-----------------------------------------------------------------------------
(* The steps *)

LEMMA MinIs ==
    ASSUME NEW a \in Int, NEW b \in Int
    PROVE  Min({a, b}) = IF a <= b THEN a ELSE b
<1> DEFINE m == IF a <= b THEN a ELSE b
<1>1. m \in {a, b} /\ \A y \in {a, b} : m <= y
  OBVIOUS
<1>2. Min({a, b}) \in {a, b} /\ \A y \in {a, b} : Min({a, b}) <= y
  BY <1>1 DEF Min
<1> QED
  BY <1>1, <1>2

LEMMA ShapeFacts ==
    ASSUME Shape
    PROVE  /\ Graph /\ Table /\ N \in Nat /\ StepId = 1..N
           /\ \A s \in StepId : s \in Nat /\ s <= N /\ due[s] \in Nat
           /\ AtStep => /\ position \in StepId
                        /\ decisions \in [StepId -> RepairDecision]
                        /\ decisions[position].decision \in Decision
  BY StepAssumption DEF Shape, Graph, Table, AtStep, RepairDecision

LEMMA AttemptedType ==
    ASSUME Shape, AtStep, NEW status \in StepStatus, NEW kind \in {"TIMEOUT", Null}
    PROVE  Attempted(status, kind) \in Row
<1>1. rows[position].attempt_count \in 0..MaxAttempts
  BY ShapeFacts DEF Table, Row
<1>2. PICK c \in Nat : c = rows[position].attempt_count + 1
  BY <1>1 DEF MaxAttempts
<1>3. Min({c, 2}) = IF c <= 2 THEN c ELSE 2
  BY MinIs
<1>4. Min({rows[position].attempt_count + 1, MaxAttempts}) \in 0..MaxAttempts
  BY <1>2, <1>3 DEF MaxAttempts
<1> QED
  BY <1>4 DEF Attempted, Row

LEMMA DisturbedType ==
    ASSUME Shape, Disturbed
    PROVE  /\ ~smooth' /\ disturbance' \in Nat
           /\ due' \in [StepId -> Nat] /\ rounds' \in 0..N+1
<1>1. disturbance' = disturbance + 1 /\ disturbance \in Nat
  BY DEF Disturbed, Shape
<1>2. due' \in [StepId -> Nat] /\ rounds' \in 0..N+1
  BY StepAssumption DEF Disturbed
<1> QED
  BY <1>1, <1>2 DEF smooth

(* A command that keeps to what is behind it touches nothing else. *)
LEMMA WritesType ==
    ASSUME Shape, NEW s, NEW files, Writes(s, files)
    PROVE  /\ written' \in {"nothing", "behind", "beyond"}
           /\ pc = "resume" /\ written' # "beyond" =>
                 /\ written # "beyond"
                 /\ Touched(files) = {} \/ Contained(s, files)
           /\ pc = "resume" /\ Touched(files) # {} => written' # "nothing"
  BY DEF Writes, Shape

LEMMA AftermathType ==
    ASSUME Shape, NEW others \in SUBSET StepId, NEW files \in Aftermath(others)
    PROVE  files \in [StepId -> Condition]
<1>1. PICK new \in [others -> Condition] :
         files = [t \in StepId |-> IF t \in others THEN new[t] ELSE fit[t]]
  BY DEF Aftermath
<1> QED
  BY <1>1 DEF Shape

LEMMA InitShape == Init => Shape
<1> SUFFICES ASSUME Init PROVE Shape
  OBVIOUS
<1>1. /\ depends_on \in [StepId -> SUBSET StepId]
      /\ \A s \in StepId : depends_on[s] \subseteq 1..s-1
  BY DEF Init
<1>2. due \in [StepId -> Nat]
  BY <1>1, DueSchedules DEF Init, Graph
<1>3. LeftBehind \subseteq [row : Row, fit : Condition]
  BY DEF LeftBehind, Stand, Row, StepStatus, MaxAttempts, Condition
<1>4. PICK left \in [StepId -> LeftBehind] :
         rows = [s \in StepId |-> left[s].row] /\ fit = [s \in StepId |-> left[s].fit]
  BY DEF Init
<1>5. \A s \in StepId : left[s].row \in Row /\ left[s].fit \in Condition
  BY <1>3
<1>6. rows \in [StepId -> Row] /\ fit \in [StepId -> Condition]
  BY <1>4, <1>5
<1>7. 0 \in 0..N+1
  BY StepAssumption
<1> QED
  BY <1>1, <1>2, <1>6, <1>7 DEF Init, Shape

LEMMA ShapeStep == Shape /\ [Next]_vars => Shape'
<1> SUFFICES ASSUME Shape, [Next]_vars PROVE Shape'
  OBVIOUS
<1>0. Graph /\ Table /\ N \in Nat /\ StepId = 1..N
  BY ShapeFacts
<1>1. CASE Repair
  BY <1>0, <1>1, EvaluatedIs DEF Repair, Shape, book, pace
<1>2. CASE ResumeStale
  BY <1>2 DEF ResumeStale, Shape, book, plan, ghosts
<1>3. CASE RoundEnds
  <2>1. rounds' \in 0..N+1
    <3>1. PICK r \in Nat : r = rounds
      BY <1>0 DEF Shape
    <3>2. Min({r + 1, N + 1}) = IF r + 1 <= N + 1 THEN r + 1 ELSE N + 1
      BY <1>0, MinIs
    <3>3. rounds' = Min({r + 1, N + 1}) \/ rounds' = 0
      BY <1>3, <3>1 DEF RoundEnds
    <3> QED
      BY <1>0, <3>2, <3>3
  <2> QED
    BY <1>3, <2>1 DEF RoundEnds, Over, Shape, book
<1>4. CASE StepReuse
  BY <1>4 DEF StepReuse, Advance, Shape, book, ghosts
<1>5. CASE StepBlocked
  <2>1. position \in StepId
    BY <1>5, ShapeFacts DEF StepBlocked
  <2>2. rows' \in [StepId -> Row] /\ fit' \in [StepId -> Condition]
    BY <1>5, <2>1 DEF StepBlocked, Shape, Row, StepStatus, Condition
  <2> QED
    BY <1>5, <2>1, <2>2 DEF StepBlocked, Advance, Shape, book, ghosts
<1>6. ASSUME NEW files \in Aftermath(Judged \ {position}),
             StepSucceeds(files) \/ StepFails(files) \/ Crash(files)
      PROVE  Shape'
  <2>1. Executes /\ position \in StepId /\ rows[position].failure_kind \in {"TIMEOUT", Null}
    BY <1>6, ShapeFacts DEF StepSucceeds, StepFails, Crash, Executes, Table, Row
  <2>2. AtStep
    BY <2>1 DEF Executes
  <2>3. \A status \in {"SUCCEEDED", "FAILED", "RUNNING"} : \A kind \in {"TIMEOUT", Null} :
           Attempted(status, kind) \in Row
    BY <2>2, AttemptedType DEF StepStatus
  <2>4. rows' \in [StepId -> Row]
    BY <1>6, <2>1, <2>3 DEF StepSucceeds, StepFails, Crash, Shape
  <2>5. files \in [StepId -> Condition]
    BY <1>6, AftermathType DEF Judged
  <2>6. fit' \in [StepId -> Condition]
    BY <1>6, <2>5 DEF StepSucceeds, StepFails, Crash, Condition
  <2>7. CASE StepSucceeds(files)
    <3>1. written' \in {"nothing", "behind", "beyond"}
      BY <2>7, WritesType DEF StepSucceeds
    <3>2. disturbance' \in Nat /\ due' \in [StepId -> Nat] /\ rounds' \in 0..N+1
      BY <2>7, DisturbedType DEF StepSucceeds, pace, Shape
    <3>3. /\ UNCHANGED <<depends_on, gated, revised, pc, decisions, unready>>
          /\ position' = position + 1
      BY <2>7 DEF StepSucceeds, Advance, book
    <3> QED
      BY <2>1, <2>4, <2>6, <3>1, <3>2, <3>3 DEF Shape
  <2>8. CASE StepFails(files)
    <3>1. written' \in {"nothing", "behind", "beyond"}
      BY <2>8, WritesType DEF StepFails
    <3> QED
      BY <2>1, <2>4, <2>6, <2>8, <3>1, DisturbedType DEF StepFails, Advance, Shape, book
  <2>9. CASE Crash(files)
    BY <2>4, <2>6, <2>9, DisturbedType DEF Crash, Over, Shape, book
  <2> QED
    BY <1>6, <2>7, <2>8, <2>9
<1>7. ASSUME NEW s \in StepId, NEW t \in StepId, NEW condition \in Condition,
             StrayWrites(s, t, condition)
      PROVE  Shape'
  <2>1. written' \in {"nothing", "behind", "beyond"}
    BY <1>7, WritesType DEF StrayWrites
  <2>2. fit' \in [StepId -> Condition]
    BY <1>7 DEF StrayWrites, Shape
  <2> QED
    BY <1>7, <2>1, <2>2, DisturbedType DEF StrayWrites, Shape, book, plan
<1>8. CASE Abandon
  BY <1>8, DisturbedType DEF Abandon, Over, Shape, book
<1>9. CASE UNCHANGED vars
  BY <1>9 DEF vars, Shape
<1> QED
  BY <1>1, <1>2, <1>3, <1>4, <1>5, <1>6, <1>7, <1>8, <1>9 DEF Next, Commands

(* The definitions look at the book, and at the state of the steps.        *)
LEMMA SameBook ==
    ASSUME UNCHANGED book
    PROVE  /\ Ancestors' = Ancestors
           /\ UNCHANGED <<rows, fit>> =>
                 /\ Evaluated' = Evaluated
                 /\ \A s : Fits(s)' = Fits(s) /\ Clean(s)' = Clean(s)
           /\ UNCHANGED due => Scheduled' = Scheduled
<1>1. Ancestors' = Ancestors
  BY DEF Ancestors, book
<1>2. ASSUME UNCHANGED <<rows, fit>> PROVE Evaluated' = Evaluated
  BY <1>2 DEF Evaluated, Def, ContextOf, book
<1>3. ASSUME UNCHANGED <<rows, fit>>
      PROVE  \A s : Fits(s)' = Fits(s) /\ Clean(s)' = Clean(s)
  BY <1>1, <1>3 DEF Fits, Clean, book
<1>4. ASSUME UNCHANGED due PROVE Scheduled' = Scheduled
  BY <1>1, <1>4 DEF Scheduled, HeldAfter, book
<1> QED
  BY <1>1, <1>2, <1>3, <1>4

LEMMA InitPlanning == Init => Planning /\ Pacing
<1> SUFFICES ASSUME Init PROVE Planning /\ Pacing
  OBVIOUS
<1>1. Graph /\ due = Due
  BY DEF Init, Graph
<1>2. Scheduled /\ \A s \in StepId : Clean(s) <=> due[s] <= 0
  BY <1>1, DueSchedules
<1> QED
  BY <1>2 DEF Init, Planning, Pacing, InPace

(* A plan is what the form says, and it fits the rounds. *)
LEMMA RepairStep ==
    ASSUME Shape, Pacing, Repair
    PROVE  Planning' /\ Pacing'
<1>0. Graph /\ Table /\ N \in Nat /\ StepId = 1..N
  BY ShapeFacts
<1>1. PICK E : E = Evaluated
  OBVIOUS
<1>2. /\ decisions' = E /\ position' = 1 /\ unready' = {} /\ pc = "repair" /\ pc' = "resume"
      /\ UNCHANGED <<book, rows, fit, smooth, due, rounds>>
  BY <1>1 DEF Repair, pace, smooth
<1>3. \A s \in StepId : Form(s, E[s])
  BY <1>0, <1>1, FormOfPlan
<1>4. /\ Evaluated' = E /\ Scheduled' = Scheduled
      /\ \A s : Fits(s)' = Fits(s) /\ Clean(s)' = Clean(s)
  BY <1>1, <1>2, SameBook
<1>5. /\ \A s \in StepId : Clean(s) => Fits(s) /\ \A d \in depends_on[s] : Clean(d)
      /\ \A s \in StepId : \A d \in depends_on[s] : d \in StepId
  BY <1>0, CleanIs, Before
<1>6. Planning'
  BY <1>2, <1>3, <1>4, <1>5 DEF Planning, Says, Form, book
<1>7. ASSUME smooth, ~revised PROVE InPace'
  <2>1. Scheduled /\ \A s \in StepId : Clean(s) <=> due[s] <= rounds
    BY <1>2, <1>7 DEF Pacing, InPace
  <2>2. \A s \in StepId : due[s] \in Nat /\ due[s] <= N /\ Ancestors[s] \subseteq StepId
    BY <1>0, <2>1, ShapeFacts, AncestorsAre DEF Scheduled
  <2>3. rounds \in Nat
    BY <1>0 DEF Shape
  <2>4. ASSUME NEW s \in StepId PROVE Held(s) <=> HeldAfter(rounds, s)
    <3>1. ASSUME NEW a \in Ancestors[s]
          PROVE  /\ a \in Dirty <=> due[a] > rounds
                 /\ \A d \in depends_on[a] : d \in StepId /\ (d \in Dirty <=> ~(due[d] <= rounds))
      <4>1. a \in StepId /\ \A d \in depends_on[a] : d \in StepId
        BY <1>5, <2>2
      <4> QED
        BY <2>1, <2>2, <2>3, <4>1 DEF Dirty
    <3> QED
      BY <3>1 DEF Held, HeldAfter, Stops, Origin
  <2>5. ASSUME NEW s \in StepId PROVE Held(s) <=> due[s] > rounds + 1
    <3>1. CASE due[s] > rounds
      <4>1. rounds \in 0..N
        BY <1>0, <2>2, <2>3, <3>1
      <4> QED
        BY <2>1, <2>4, <3>1, <4>1 DEF Scheduled
    <3>2. CASE ~(due[s] > rounds)
      <4>1. Clean(s)
        BY <2>1, <2>2, <2>3, <3>2
      <4>2. ~Held(s)
        BY <1>3, <4>1 DEF Form
      <4> QED
        BY <2>2, <2>3, <3>2, <4>2
    <3> QED
      BY <3>1, <3>2
  <2>6. ASSUME NEW s \in StepId
        PROVE  /\ E[s].decision = "REUSE" <=> due[s] <= rounds
               /\ E[s].decision = "BLOCK" <=> due[s] > rounds + 1
               /\ due[s] <= rounds => Fits(s)
               /\ ~(s < 1)
    BY <1>0, <1>3, <1>5, <2>1, <2>5 DEF Form
  <2> QED
    BY <1>2, <1>4, <2>1, <2>6 DEF InPace, Says
<1>8. Pacing'
  BY <1>2, <1>7 DEF Pacing, book
<1> QED
  BY <1>6, <1>8

(* What is reused is reused with all its ancestors. *)
LEMMA ReuseIsClosed ==
    ASSUME Shape, Planning, pc = "resume", NEW s \in StepId, Says(s, "REUSE")
    PROVE  \A a \in Ancestors[s] : a \in StepId /\ Says(a, "REUSE")
<1> DEFINE C == {t \in StepId : Says(t, "REUSE")}
<1>1. Graph /\ s \in C /\ \A t \in C : \A d \in depends_on[t] : Says(d, "REUSE")
  BY ShapeFacts DEF Planning
<1>2. \A t \in C : t \in StepId /\ depends_on[t] \subseteq C
  BY <1>1, Before
<1>3. Ancestors[s] \subseteq C
  <2> HIDE DEF C
  <2> QED
    BY <1>1, <1>2, AncestorsWithin
<1> QED
  BY <1>3

(* A resume that keeps what the plan reuses keeps to the plan. *)
LEMMA PlanGoesOn ==
    ASSUME Planning, pc = "resume", UNCHANGED <<book, decisions>>,
           position' # 1 \/ written' # "nothing",
           \A s \in StepId : Says(s, "REUSE") /\ ~revised /\ written' # "beyond" =>
               written # "beyond" /\ (Fits(s) => Fits(s)')
    PROVE  Planning'
  BY DEF Planning, Says, book

(* What a command leaves alone, if it changes only what is behind step p.  *)
OthersFit(p) == \A s \in StepId : s # p => fit'[s] = fit[s] \/ p \in Ancestors[s]

(* A command of a step that is not reused, if it changes only what is      *)
(* behind it, changes nothing of what is reused.                           *)
LEMMA ReusedIsKept ==
    ASSUME Shape, Planning, pc = "resume", NEW p \in StepId, ~Says(p, "REUSE"), OthersFit(p),
           \A s \in StepId : s # p => rows'[s] = rows[s], UNCHANGED book
    PROVE  \A s \in StepId : Says(s, "REUSE") /\ Fits(s) => Fits(s)'
<1> SUFFICES ASSUME NEW s \in StepId, Says(s, "REUSE"), Fits(s) PROVE Fits(s)'
  OBVIOUS
<1>1. s # p /\ p \notin Ancestors[s]
  BY ReuseIsClosed
<1>2. fit'[s] = fit[s] /\ rows'[s] = rows[s]
  BY <1>1 DEF OthersFit
<1> QED
  BY <1>2 DEF Fits, book

LEMMA StepFacts ==
    ASSUME Shape, AtStep, Advance
    PROVE  /\ pc = "resume" /\ pc' = "resume" /\ ~revised /\ position' # 1
           /\ UNCHANGED <<book, decisions>> /\ position \in StepId /\ Graph
  BY ShapeFacts DEF AtStep, Advance, Shape

(* What the execution of the step leaves of the others. *)
LEMMA ExecutionKeeps ==
    ASSUME Shape, Executes, NEW files \in Aftermath(Judged \ {position}),
           fit' = [files EXCEPT ![position] = "clean"]
    PROVE  /\ Touched(files) = {} \/ Touched(files) \subseteq Behind(position) =>
                 OthersFit(position)
           /\ fit'[position] = "clean"
<1>1. files \in [StepId -> Condition] /\ position \in StepId
  BY AftermathType, ShapeFacts DEF Judged, Executes
<1>2. \A s \in StepId : s # position => fit'[s] = files[s]
  BY <1>1
<1> QED
  BY <1>1, <1>2 DEF Touched, Behind, OthersFit

(* Whatever the outcome, an execution keeps to the plan. *)
LEMMA ExecutionGoesOn ==
    ASSUME Shape, Planning, Executes, Advance, NEW files \in Aftermath(Judged \ {position}),
           Writes(position, files), fit' = [files EXCEPT ![position] = "clean"],
           \A s \in StepId : s # position => rows'[s] = rows[s]
    PROVE  Planning'
<1>1. AtStep /\ ~Says(position, "REUSE")
  BY DEF Executes, Planned, Says
<1>2. /\ pc = "resume" /\ position' # 1 /\ UNCHANGED <<book, decisions>>
      /\ position \in StepId
  BY <1>1, StepFacts
<1>3. written' # "beyond" =>
         /\ written # "beyond"
         /\ Touched(files) = {} \/ Touched(files) \subseteq Behind(position)
  BY <1>2, WritesType DEF Contained
<1>4. written' # "beyond" => OthersFit(position)
  BY <1>3, ExecutionKeeps
<1>5. written' # "beyond" => \A s \in StepId : Says(s, "REUSE") /\ Fits(s) => Fits(s)'
  BY <1>1, <1>2, <1>4, ReusedIsKept
<1> QED
  BY <1>2, <1>3, <1>5, PlanGoesOn

(* A step is due no earlier than its ancestors, and comes after them. *)
LEMMA AncestorsFirst ==
    ASSUME Shape, Scheduled, NEW s \in StepId, NEW a \in Ancestors[s]
    PROVE  a \in StepId /\ a < s /\ due[a] <= due[s]
<1> DEFINE C(d) == {t \in StepId : t <= d /\ due[t] <= due[s]}
<1>1. /\ Graph /\ \A t \in StepId : t \in Nat /\ due[t] \in Nat
      /\ \A t \in StepId : \A d \in depends_on[t] : d \in StepId /\ d < t /\ due[d] <= due[t]
  BY ShapeFacts, Before DEF Scheduled
<1>2. ASSUME NEW d \in depends_on[s] PROVE d \in StepId /\ d \in C(d) /\ Ancestors[d] \subseteq C(d)
  <2>1. d \in StepId /\ d \in C(d)
    BY <1>1
  <2>2. \A t \in C(d) : t \in StepId /\ depends_on[t] \subseteq C(d)
    BY <1>1, <2>1
  <2> HIDE DEF C
  <2> QED
    BY <1>1, <2>1, <2>2, AncestorsWithin
<1>3. PICK d \in depends_on[s] : a \in C(d)
  BY <1>1, <1>2, AncestorsAre DEF AboveOf
<1> QED
  BY <1>1, <1>2, <1>3

LEMMA BlockedIs ==
    ASSUME AtStep
    PROVE  /\ Blocked => ~Says(position, "REUSE")
           /\ Executes => ~Says(position, "REUSE") /\ ~Says(position, "BLOCK")
  BY DEF Blocked, Executes, Planned, Says

(* Between the steps of a resume: in this round p is done, unless it is    *)
(* held back.                                                              *)
LEMMA PaceGoesOn ==
    ASSUME Shape, InPace, AtStep, Advance, UNCHANGED pace, OthersFit(position),
           Says(position, "REUSE") => UNCHANGED fit,
           \A s \in StepId : s # position => rows'[s] = rows[s],
           unready' \subseteq unready \cup {position},
           position \in unready' => Says(position, "BLOCK"),
           Says(position, "BLOCK") => rows'[position].status = "BLOCKED",
           \A s \in StepId : s = position /\ due[s] <= rounds + 1 => Fits(s)'
    PROVE  InPace'
<1>0. /\ position \in StepId /\ position \in Nat /\ pc = "resume" /\ pc' = "resume"
      /\ position' = position + 1 /\ UNCHANGED <<book, decisions, due, rounds>>
      /\ StepId \subseteq Nat
  BY ShapeFacts DEF AtStep, Advance, pace
<1>1. Scheduled'
  BY <1>0, SameBook DEF InPace
<1>2. \A s \in StepId :
         /\ Says(s, "REUSE") <=> due[s] <= rounds
         /\ Says(s, "BLOCK") <=> due[s] > rounds + 1
         /\ s \in unready => Says(s, "BLOCK")
         /\ s < position /\ Says(s, "BLOCK") => rows[s].status = "BLOCKED"
         /\ due[s] <= rounds \/ (due[s] = rounds + 1 /\ s < position) => Fits(s)
  BY <1>0 DEF InPace
<1>3. ASSUME NEW s \in StepId, s # position
      PROVE  /\ rows'[s] = rows[s]
             /\ s < position' <=> s < position
             /\ s \in unready' => s \in unready
             /\ (due[s] <= rounds \/ (due[s] = rounds + 1 /\ s < position)) /\ Fits(s) =>
                   Fits(s)'
  <2>1. /\ rows'[s] = rows[s]
        /\ s < position' <=> s < position
        /\ s \in unready' => s \in unready
    BY <1>0, <1>3
  <2>2. CASE fit'[s] = fit[s]
    BY <1>0, <2>1, <2>2 DEF Fits, book
  <2>3. CASE position \in Ancestors[s] /\ ~Says(position, "REUSE")
    <3>1. position < s /\ due[position] <= due[s]
      BY <2>3, AncestorsFirst DEF InPace
    <3>2. ~(due[position] <= rounds)
      BY <1>0, <1>2, <2>3
    <3>3. due[position] \in Nat /\ due[s] \in Nat /\ rounds \in Nat /\ s \in Nat
      BY <1>0, ShapeFacts DEF Shape
    <3> QED
      BY <1>0, <2>1, <3>1, <3>2, <3>3
  <2> QED
    BY <1>3, <2>1, <2>2, <2>3 DEF OthersFit
<1>4. ASSUME NEW s \in StepId
      PROVE  /\ s \in unready' => Says(s, "BLOCK")
             /\ s < position' /\ Says(s, "BLOCK") => rows'[s].status = "BLOCKED"
             /\ due[s] <= rounds \/ (due[s] = rounds + 1 /\ s < position') => Fits(s)'
  <2>1. CASE s = position
    <3>1. due[s] \in Nat /\ rounds \in Nat
      BY ShapeFacts DEF Shape
    <3>2. due[s] <= rounds \/ due[s] = rounds + 1 => Fits(s)'
      BY <2>1, <3>1
    <3> QED
      BY <2>1, <3>2
  <2>2. CASE s # position
    BY <1>2, <1>3, <2>2
  <2> QED
    BY <2>1, <2>2
<1> QED
  BY <1>0, <1>1, <1>2, <1>4 DEF InPace, Says

LEMMA ReuseStep ==
    ASSUME Shape, Planning, Pacing, StepReuse
    PROVE  Planning' /\ Pacing'
<1>1. AtStep /\ Advance /\ Says(position, "REUSE") /\ UNCHANGED <<rows, fit, unready, ghosts>>
  BY DEF StepReuse, Planned, Says
<1>2. position \in StepId /\ OthersFit(position) /\ \A s : Fits(s)' = Fits(s)
  BY <1>1, ShapeFacts, SameBook DEF OthersFit, Advance
<1>3. Planning'
  BY <1>1, <1>2, StepFacts, PlanGoesOn DEF ghosts
<1>4. ASSUME InPace PROVE InPace'
  <2>1. ~Says(position, "BLOCK") /\ position \notin unready'
    BY <1>1, <1>2, <1>4 DEF InPace, AtStep, Says
  <2>2. \A s \in StepId : s = position => Fits(s)'
    BY <1>1, <1>2, <1>4 DEF InPace, AtStep
  <2> QED
    BY <1>1, <1>2, <1>4, <2>1, <2>2, PaceGoesOn DEF ghosts, pace
<1> QED
  BY <1>1, <1>3, <1>4 DEF Pacing, Advance, book, ghosts, smooth

LEMMA BlockStep ==
    ASSUME Shape, Planning, Pacing, StepBlocked
    PROVE  Planning' /\ Pacing'
<1>1. /\ AtStep /\ Advance /\ Blocked /\ UNCHANGED ghosts /\ unready' = unready \cup {position}
      /\ rows' = [rows EXCEPT ![position].status = "BLOCKED"]
      /\ fit' = [fit EXCEPT ![position] = "clean"]
  BY DEF StepBlocked
<1>2. /\ position \in StepId /\ pc = "resume" /\ position' # 1 /\ UNCHANGED <<book, decisions>>
      /\ ~Says(position, "REUSE") /\ written' = written
  BY <1>1, StepFacts, BlockedIs DEF ghosts
<1>3. OthersFit(position) /\ \A s \in StepId : s # position => rows'[s] = rows[s]
  BY <1>1, <1>2 DEF OthersFit, Shape
<1>4. Planning'
  <2>1. \A s \in StepId : Says(s, "REUSE") /\ Fits(s) => Fits(s)'
    BY <1>2, <1>3, ReusedIsKept
  <2> QED
    BY <1>2, <2>1, PlanGoesOn
<1>5. ASSUME InPace PROVE InPace'
  <2>1. /\ due[position] \in Nat /\ rounds \in Nat
        /\ \A d \in depends_on[position] : d \in StepId /\ due[d] \in Nat
    BY <1>2, ShapeFacts, Before DEF Shape
  <2>2. Says(position, "BLOCK")
    <3>1. CASE Planned({"BLOCK"})
      BY <3>1 DEF Planned, Says
    <3>2. CASE ~Ready
      <4>1. PICK d \in depends_on[position] : d \in unready
        BY <3>2 DEF Ready
      <4>2. due[d] > rounds + 1 /\ due[d] <= due[position]
        BY <1>2, <1>5, <2>1, <4>1 DEF InPace, Scheduled
      <4>3. due[position] > rounds + 1
        BY <2>1, <4>2
      <4> QED
        BY <1>2, <1>5, <4>3 DEF InPace
    <3> QED
      BY <1>1, <3>1, <3>2 DEF Blocked
  <2>3. ~(due[position] <= rounds + 1)
    BY <1>2, <1>5, <2>1, <2>2 DEF InPace
  <2>4. rows'[position].status = "BLOCKED"
    BY <1>1, <1>2 DEF Shape, Row
  <2> QED
    BY <1>1, <1>2, <1>3, <1>5, <2>2, <2>3, <2>4, PaceGoesOn DEF ghosts, pace
<1> QED
  BY <1>1, <1>4, <1>5 DEF Pacing, Advance, book, ghosts, smooth

LEMMA SuccessStep ==
    ASSUME Shape, Planning, Pacing, NEW files \in Aftermath(Judged \ {position}),
           StepSucceeds(files)
    PROVE  Planning' /\ Pacing'
<1>1. /\ AtStep /\ Advance /\ Executes /\ UNCHANGED unready /\ Writes(position, files)
      /\ rows' = [rows EXCEPT ![position] = Attempted("SUCCEEDED", Null)]
      /\ fit' = [files EXCEPT ![position] = "clean"]
  BY DEF StepSucceeds, Executes
<1>2. position \in StepId /\ ~revised' /\ UNCHANGED revised
  BY <1>1, StepFacts DEF book
<1>3. ~Says(position, "REUSE") /\ ~Says(position, "BLOCK")
  BY <1>1, BlockedIs
<1>4. \A s \in StepId : s # position => rows'[s] = rows[s]
  BY <1>1, <1>2 DEF Shape
<1>5. Planning'
  BY <1>1, <1>4, ExecutionGoesOn
<1>6. CASE ~(Touched(files) \subseteq Behind(position)) /\ Disturbed
  BY <1>5, <1>6, DisturbedType DEF Pacing
<1>7. CASE Touched(files) \subseteq Behind(position) /\ UNCHANGED pace
  <2>1. OthersFit(position) /\ fit'[position] = "clean"
    BY <1>1, <1>7, ExecutionKeeps
  <2>2. \A s \in StepId : s = position => Fits(s)'
    <3>1. rows'[position].status = "SUCCEEDED"
      BY <1>1, <1>2 DEF Attempted, Shape
    <3> QED
      BY <1>2, <2>1, <3>1 DEF Fits
  <2>3. ASSUME InPace PROVE InPace'
    <3>1. position \notin unready'
      BY <1>1, <1>2, <1>3, <2>3 DEF InPace, AtStep
    <3> QED
      BY <1>1, <1>3, <1>4, <1>7, <2>1, <2>2, <2>3, <3>1, PaceGoesOn
  <2> QED
    BY <1>2, <1>5, <1>7, <2>3 DEF Pacing, pace, smooth
<1> QED
  BY <1>6, <1>7 DEF StepSucceeds

(* A round that was in pace has done what was due. *)
LEMMA RoundStep ==
    ASSUME Shape, Pacing, RoundEnds
    PROVE  Planning' /\ Pacing'
<1>1. /\ pc = "resume" /\ pc' = "repair" /\ position > N
      /\ rounds' = IF smooth THEN Min({rounds + 1, N + 1}) ELSE 0
      /\ UNCHANGED <<book, rows, fit, smooth, due>>
  BY DEF RoundEnds, Over, smooth
<1>2. Graph /\ N \in Nat /\ StepId = 1..N /\ position \in Nat
  BY ShapeFacts DEF Shape
<1>3. Scheduled' = Scheduled /\ \A s : Clean(s)' = Clean(s)
  BY <1>1, SameBook
<1>4. ASSUME smooth, InPace PROVE InPace'
  <2>1. \A s \in StepId :
           /\ s < position /\ due[s] \in Nat /\ due[s] <= N
           /\ \A d \in depends_on[s] : due[d] <= due[s]
    BY <1>2, <1>1, <1>4, ShapeFacts DEF InPace, Scheduled
  <2>2. PICK r \in 0..N+1 : r = rounds
    BY DEF Shape
  <2>3. rounds' = IF r + 1 <= N + 1 THEN r + 1 ELSE N + 1
    <3>1. r + 1 \in Int /\ N + 1 \in Int
      BY <1>2
    <3> QED
      BY <1>1, <1>4, <2>2, <3>1, MinIs
  <2>4. \A s \in StepId : due[s] <= rounds' <=> due[s] <= r + 1
    BY <1>2, <2>1, <2>3
  <2>5. \A s \in StepId :
           /\ due[s] <= r + 1 => Fits(s)
           /\ due[s] > r + 1 => rows[s].status = "BLOCKED"
    BY <1>1, <1>2, <1>4, <2>1, <2>2 DEF InPace
  <2>6. ASSUME NEW s \in StepId, due[s] <= r + 1 PROVE Clean(s)
    <3> DEFINE C == {t \in StepId : due[t] <= r + 1}
    <3>1. \A t \in C : t \in StepId /\ depends_on[t] \subseteq C
      BY <1>2, <2>1, Before
    <3>2. Ancestors[s] \subseteq C
      <4>1. s \in C
        BY <2>6
      <4> HIDE DEF C
      <4> QED
        BY <1>2, <3>1, <4>1, AncestorsWithin
    <3> QED
      BY <2>5, <2>6, <3>2 DEF Clean
  <2>7. ASSUME NEW s \in StepId, Clean(s) PROVE due[s] <= r + 1
    <3>1. rows[s].status # "BLOCKED"
      BY <2>7 DEF Clean, Fits
    <3> QED
      BY <1>2, <2>1, <2>5, <3>1
  <2>8. \A s \in StepId : Clean(s) <=> due[s] <= rounds'
    BY <2>4, <2>6, <2>7
  <2>9. Scheduled
    BY <1>4 DEF InPace
  <2> QED
    BY <1>1, <1>3, <2>8, <2>9 DEF InPace
<1> QED
  BY <1>1, <1>4 DEF Planning, Pacing, book

LEMMA FailStep ==
    ASSUME Shape, Planning, NEW files \in Aftermath(Judged \ {position}), StepFails(files)
    PROVE  Planning' /\ Pacing'
<1>1. /\ AtStep /\ Advance /\ Executes /\ Writes(position, files)
      /\ rows' = [rows EXCEPT ![position] = Attempted("FAILED", "TIMEOUT")]
      /\ fit' = [files EXCEPT ![position] = "clean"]
  BY DEF StepFails, Executes
<1>2. \A s \in StepId : s # position => rows'[s] = rows[s]
  BY <1>1 DEF Shape
<1>3. Planning'
  BY <1>1, <1>2, ExecutionGoesOn
<1> QED
  BY <1>3, DisturbedType DEF Pacing, StepFails

(* A process that was left behind, too, keeps to the plan, if its step is  *)
(* not reused and it changes only what is behind that.                     *)
LEMMA StrayStep ==
    ASSUME Shape, Planning, NEW p \in StepId, NEW t \in StepId, NEW condition \in Condition,
           StrayWrites(p, t, condition)
    PROVE  Planning' /\ Pacing'
<1>1. /\ UNCHANGED <<book, rows, pc, decisions, position>> /\ Disturbed
      /\ fit' = [fit EXCEPT ![t] = condition] /\ condition # fit[t] /\ Writes(p, fit')
  BY DEF StrayWrites, plan
<1>2. ASSUME pc = "resume" PROVE Planning'
  <2>1. \A s \in StepId : fit'[s] # fit[s] <=> s = t
    BY <1>1 DEF Shape
  <2>2. Touched(fit') = {t}
    BY <2>1 DEF Touched
  <2>3. /\ written' # "nothing"
        /\ written' # "beyond" => written # "beyond" /\ Contained(p, fit')
    BY <1>1, <1>2, <2>2, WritesType
  <2>4. written' # "beyond" => \A s \in StepId : Says(s, "REUSE") /\ Fits(s) => Fits(s)'
    <3> SUFFICES ASSUME written' # "beyond"
                 PROVE  \A s \in StepId : Says(s, "REUSE") /\ Fits(s) => Fits(s)'
      OBVIOUS
    <3>1. ~Says(p, "REUSE") /\ t \in Behind(p)
      BY <2>2, <2>3 DEF Contained, Says
    <3>2. ASSUME NEW s \in StepId, Says(s, "REUSE"), Fits(s) PROVE Fits(s)'
      <4>1. s # p /\ p \notin Ancestors[s]
        BY <1>2, <3>1, <3>2, ReuseIsClosed
      <4>2. s # t
        BY <3>1, <4>1 DEF Behind
      <4> QED
        BY <1>1, <2>1, <3>2, <4>2 DEF Fits, book
    <3> QED
      BY <3>2
  <2> QED
    BY <1>1, <1>2, <2>3, <2>4, PlanGoesOn
<1>3. ASSUME pc # "resume" PROVE Planning'
  BY <1>1, <1>3 DEF Planning
<1> QED
  BY <1>1, <1>2, <1>3, DisturbedType DEF Pacing

-----------------------------------------------------------------------------
(* The theorems *)

IInv == Shape /\ Planning /\ Pacing

LEMMA InvariantStep == IInv /\ [Next]_vars => IInv'
<1> SUFFICES ASSUME IInv, [Next]_vars PROVE IInv'
  OBVIOUS
<1>1. Shape /\ Planning /\ Pacing /\ Shape'
  BY ShapeStep DEF IInv
<1>2. CASE Repair
  BY <1>1, <1>2, RepairStep DEF IInv
<1>3. CASE ResumeStale
  <2>1. pc' = "refused" /\ revised'
    BY <1>3 DEF ResumeStale, book
  <2> QED
    BY <1>1, <2>1 DEF IInv, Planning, Pacing
<1>4. CASE RoundEnds
  BY <1>1, <1>4, RoundStep DEF IInv
<1>5. CASE StepReuse
  BY <1>1, <1>5, ReuseStep DEF IInv
<1>6. CASE StepBlocked
  BY <1>1, <1>6, BlockStep DEF IInv
<1>7. ASSUME NEW files \in Aftermath(Judged \ {position}), StepSucceeds(files) \/ StepFails(files)
      PROVE  IInv'
  BY <1>1, <1>7, SuccessStep, FailStep DEF IInv
<1>8. ASSUME NEW s \in StepId, NEW t \in StepId, NEW condition \in Condition,
             StrayWrites(s, t, condition)
      PROVE  IInv'
  BY <1>1, <1>8, StrayStep DEF IInv
<1>9. ASSUME (\E files \in Aftermath(Judged \ {position}) : Crash(files)) \/ Abandon PROVE IInv'
  <2>1. pc' = "repair" /\ ~smooth'
    BY <1>1, <1>9, DisturbedType DEF Crash, Abandon, Over
  <2> QED
    BY <1>1, <2>1 DEF IInv, Planning, Pacing
<1>10. CASE UNCHANGED vars
  <2>1. /\ UNCHANGED book /\ UNCHANGED <<rows, fit, due, pc, decisions, position, unready>>
        /\ UNCHANGED <<smooth, rounds, written>>
    BY <1>10 DEF vars, book, smooth
  <2>2. /\ Evaluated' = Evaluated /\ Scheduled' = Scheduled
        /\ \A s : Fits(s)' = Fits(s) /\ Clean(s)' = Clean(s)
    BY <2>1, SameBook
  <2>3. Planning'
    BY <1>1, <2>1, <2>2 DEF Planning, Says, book
  <2>4. Pacing'
    BY <1>1, <2>1, <2>2 DEF Pacing, InPace, Says, book
  <2> QED
    BY <1>1, <2>3, <2>4 DEF IInv
<1> QED
  BY <1>2, <1>3, <1>4, <1>5, <1>6, <1>7, <1>8, <1>9, <1>10 DEF Next, Commands

LEMMA Invariant == Spec => []IInv
<1>1. Init => IInv
  BY InitShape, InitPlanning DEF IInv
<1> QED
  BY <1>1, InvariantStep, PTL DEF Spec

(* For any number of steps, any dependencies, gates and record of the past *)
(* a fresh plan is the closed form: step by step, each decision looking at *)
(* its direct dependencies only, evaluate_step reaches the verdict that    *)
(* all the ancestors together call for (recovery.py:53-149,                *)
(* repair.py:60-77).                                                       *)
THEOREM PlansHaveTheForm == Spec => []PlanIsClosedForm
<1>1. ASSUME IInv PROVE PlanIsClosedForm
  <2> SUFFICES ASSUME pc = "resume", position = 1, written = "nothing" PROVE PlanIsClosedForm
    BY DEF PlanIsClosedForm
  <2>1. decisions = Evaluated /\ Table
    BY <1>1, ShapeFacts DEF IInv, Planning
  <2>2. \A s \in StepId : Form(s, decisions[s])
    BY <2>1, FormOfPlan
  <2> QED
    BY <2>2 DEF Form, Held, Retryable, PlanIsClosedForm
<1> QED
  BY <1>1, Invariant, PTL

(* At every step of a resume what its plan reuses has succeeded and fits,  *)
(* and so has all it is made from, in runs of any size, whatever commands  *)
(* of this and of earlier rounds write, failed and killed ones included:   *)
(* as long as each changes only what steps behind its own were judged by,  *)
(* and its own step is not itself reused (execution.py:50-76, :136-158).   *)
THEOREM ReusedWorkStands == Spec => []ReuseStands
<1>1. ASSUME IInv PROVE ReuseStands
  <2> SUFFICES ASSUME pc = "resume", ~revised, written # "beyond",
                      NEW s \in StepId, Says(s, "REUSE")
               PROVE  Clean(s)
    BY DEF ReuseStands, Says
  <2>1. \A a \in Ancestors[s] \cup {s} : a \in StepId /\ Says(a, "REUSE")
    BY <1>1, ReuseIsClosed DEF IInv
  <2>2. \A a \in Ancestors[s] \cup {s} : Fits(a)
    BY <1>1, <2>1 DEF IInv, Planning
  <2> QED
    BY <2>2 DEF Clean
<1> QED
  BY <1>1, Invariant, PTL

(* While nothing fails or is killed, everything is confirmed and commands  *)
(* change only what steps behind their own were judged by, the rounds of   *)
(* repair and resume get done exactly what is due in them, in runs of any  *)
(* size: no step is left to a later round than the gates before it require *)
(* (recovery.py:59-85, execution.py:132-158).                              *)
THEOREM RoundsKeepPace == Spec => []RoundsAreExact
<1>1. IInv => RoundsAreExact
  BY DEF IInv, Pacing, InPace, RoundsAreExact
<1> QED
  BY <1>1, Invariant, PTL

=============================================================================
