---------------------------- MODULE ExecutionPlan ----------------------------
(***************************************************************************)
(* execution_plan of domain/validation.py: the steps of a run book in      *)
(* levels, each level sorted, every step after its dependencies; or the    *)
(* refusal of a run book with a dependency cycle.  Step identifiers are    *)
(* numbers, in the order sorted() gives them.                              *)
(*                                                                         *)
(* depends_on is a list and may name a step twice: a counter per pair of   *)
(* steps says how often.  Start is called with the graph of a run book     *)
(* (module RunbookLoading); each Emit is one turn of the while loop.       *)
(***************************************************************************)
EXTENDS Integers, Sequences, FiniteSets, SequencesExt, FiniteSetsExt

CONSTANTS
    N,        \* the number of steps
    Repeats   \* how often depends_on may name a step (model bound)

ASSUME SizeAssumption == N \in Nat \ {0} /\ Repeats \in Nat \ {0}

VARIABLES
    depends_on,  \* [Id -> [Id -> 0..Repeats]]
    indegree,    \* [Id -> Nat]
    current,     \* the level to emit
    order, levels,
    verdict      \* "unplanned", "planning", "PLANNED" or "DEPENDENCY_CYCLE"

planning == <<depends_on, indegree, current, order, levels, verdict>>

Id == 1..N

(* mutant: last first *)
SortedDown(S) ==
    [i \in 1..Cardinality(S) |-> CHOOSE s \in S : Cardinality({t \in S : t > s}) = i - 1]

(* sorted(): at each place the element that has so many others below it. *)
Sorted(S) ==
    [i \in 1..Cardinality(S) |-> CHOOSE s \in S : Cardinality({t \in S : t < s}) = i - 1]

(* How often step t names the steps of S: the entries of its list. *)
Names(graph, t, S) ==
    Cardinality({entry \in S \X (1..Repeats) : entry[2] <= graph[t][entry[1]]})

PlanInit ==
    /\ depends_on = [t \in Id |-> [d \in Id |-> 0]]
    /\ indegree = [t \in Id |-> 0]
    /\ current = <<>> /\ order = <<>> /\ levels = <<>>
    /\ verdict = "unplanned"

Start(graph) ==
    /\ verdict = "unplanned"
    /\ depends_on' = graph
    /\ indegree' = [t \in Id |-> Names(graph, t, Id)]
    /\ current' = Sorted({t \in Id : indegree'[t] = 0})
    /\ verdict' = "planning"
    /\ UNCHANGED <<order, levels>>

(* mutant: a dependency that is named twice is taken off once *)
EmitOnce ==
    LET level == Range(current)
        left == [t \in Id |-> indegree[t] - Cardinality({d \in level : depends_on[t][d] > 0})]
    IN  /\ verdict = "planning" /\ current # <<>>
        /\ levels' = Append(levels, current)
        /\ order' = order \o current
        /\ indegree' = left
        /\ current' = Sorted({t \in Id : Names(depends_on, t, level) > 0 /\ left[t] = 0})
        /\ UNCHANGED <<depends_on, verdict>>

(* Emitting a level takes it off the counters of its dependents; those     *)
(* that reach zero now are the next level.                                 *)
Emit ==
    LET level == Range(current)
        left == [t \in Id |-> indegree[t] - Names(depends_on, t, level)]
    IN  /\ verdict = "planning" /\ current # <<>>
        /\ levels' = Append(levels, current)
        /\ order' = order \o current
        /\ indegree' = left
        /\ current' = Sorted({t \in Id : Names(depends_on, t, level) > 0 /\ left[t] = 0})
        /\ UNCHANGED <<depends_on, verdict>>

(* mutant: only a full order ends the loop *)
ConcludeFull ==
    /\ verdict = "planning" /\ current = <<>> /\ Len(order) = N
    /\ verdict' = "PLANNED"
    /\ UNCHANGED <<depends_on, indegree, current, order, levels>>

Conclude ==
    /\ verdict = "planning" /\ current = <<>>
    /\ verdict' = IF Len(order) # N THEN "DEPENDENCY_CYCLE" ELSE "PLANNED"
    /\ UNCHANGED <<depends_on, indegree, current, order, levels>>

-----------------------------------------------------------------------------

Dependencies(t) == {d \in Id : depends_on[t][d] > 0}

(* The steps t depends on, through others too. *)
Reach(t) ==
    LET reach[k \in 0..N] ==
            IF k = 0 THEN Dependencies(t)
            ELSE reach[k - 1] \cup UNION {Dependencies(d) : d \in reach[k - 1]}
    IN  reach[N]
Cyclic == {t \in Id : t \in Reach(t)}

(* The length of the longest chain of dependencies under each step. *)
Depth ==
    LET depth[k \in 0..N] ==
            [t \in Id |->
                IF k = 0 \/ Dependencies(t) = {} THEN 0
                ELSE 1 + Max({depth[k - 1][d] : d \in Dependencies(t)})]
    IN  depth[N]

Before(t, u) == Depth[t] < Depth[u] \/ (Depth[t] = Depth[u] /\ t < u)

(* A run book is refused exactly when its dependencies have a cycle, and   *)
(* the steps reported as unresolved are those on a cycle or behind one: a  *)
(* dependency named twice is no cycle (validation.py:96-102).              *)
RefusedIffCyclic ==
    /\ verdict = "PLANNED" => Cyclic = {}
    /\ verdict = "DEPENDENCY_CYCLE" =>
          /\ Cyclic # {}
          /\ Id \ Range(order) = {t \in Id : t \in Cyclic \/ Reach(t) \cap Cyclic # {}}

(* The plan is the one order that sorts the steps by depth and then by     *)
(* name, so it does not depend on the order of the file; each level holds  *)
(* the steps of one depth, which may run side by side                      *)
(* (validation.py:81-94, product-spec.md:51).                              *)
PlanIsCanonical ==
    verdict = "PLANNED" =>
        /\ Range(order) = Id /\ \A i, j \in DOMAIN order : i < j => Before(order[i], order[j])
        /\ \A i \in DOMAIN levels : Range(levels[i]) = {t \in Id : Depth[t] = i - 1}

=============================================================================
