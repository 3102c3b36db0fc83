----------------------------- MODULE LoadingProofs -----------------------------
(***************************************************************************)
(* What loading accepts is a run book, what it refuses has a cycle or some *)
(* other fault, and its plan is the canonical one: for files with any      *)
(* number of steps, any graph and any fault.                               *)
(*                                                                         *)
(* The proofs about the engine take for granted that the order of a run    *)
(* book lists each step once, after all it depends on (BookAssumption of   *)
(* module Domain).  Here it is proved of the loop that makes the order:    *)
(* the counters count what is not yet in the order (Counted), so that a    *)
(* level is complete, new, and behind all that it depends on (Leveled).    *)
(***************************************************************************)
EXTENDS RunbookLoading, FiniteSetTheorems, SequenceTheorems, WellFoundedInduction, TLAPS

-----------------------------------------------------------------------------
(* Counting *)

Graph == [Id -> [Id -> 0..Repeats]]

LEMMA IdIsFinite ==
    /\ N \in Nat /\ Repeats \in Nat /\ 1 <= Repeats /\ Id \subseteq Nat
    /\ IsFiniteSet(Id) /\ Cardinality(Id) = N
    /\ \A S \in SUBSET Id : IsFiniteSet(S) /\ Cardinality(S) \in Nat
<1>1. N \in Nat /\ 1 <= N /\ Repeats \in Nat /\ 1 <= Repeats
  BY SizeAssumption
<1>2. IsFiniteSet(Id) /\ Cardinality(Id) = N
  BY <1>1, FS_Interval DEF Id
<1>3. \A S \in SUBSET Id : IsFiniteSet(S) /\ Cardinality(S) \in Nat
  BY <1>2, FS_Subset, FS_CardinalityType
<1> QED
  BY <1>1, <1>2, <1>3 DEF Id

Entries(graph, t, S) == {entry \in S \X (1..Repeats) : entry[2] <= graph[t][entry[1]]}

(* A step is named as often by two parts of the steps as by both.          *)
LEMMA NamesOf ==
    ASSUME NEW graph \in Graph, NEW t \in Id, NEW S \in SUBSET Id
    PROVE  /\ Names(graph, t, S) \in Nat
           /\ Names(graph, t, S) = 0 <=> \A d \in S : graph[t][d] = 0
           /\ \A L \in SUBSET S : Names(graph, t, S \ L) = Names(graph, t, S) - Names(graph, t, L)
<1>1. ASSUME NEW R \in SUBSET Id
      PROVE  /\ IsFiniteSet(Entries(graph, t, R))
             /\ Names(graph, t, R) = Cardinality(Entries(graph, t, R))
             /\ Names(graph, t, R) \in Nat
  <2>1. IsFiniteSet(R) /\ IsFiniteSet(1..Repeats)
    <3>1. 1 \in Int /\ Repeats \in Int
      BY IdIsFinite
    <3> QED
      BY <3>1, IdIsFinite, FS_Interval
  <2>2. IsFiniteSet(R \X (1..Repeats))
    BY <2>1, FS_Product
  <2>3. Entries(graph, t, R) \subseteq R \X (1..Repeats)
    BY DEF Entries
  <2>4. IsFiniteSet(Entries(graph, t, R))
    BY <2>2, <2>3, FS_Subset
  <2>5. Names(graph, t, R) = Cardinality(Entries(graph, t, R))
    BY DEF Names, Entries
  <2> QED
    BY <2>4, <2>5, FS_CardinalityType
<1>2. Entries(graph, t, S) = {} <=> \A d \in S : graph[t][d] = 0
  <2>1. \A d \in S : graph[t][d] \in 0..Repeats
    BY DEF Graph
  <2>2. ASSUME NEW d \in S, graph[t][d] # 0 PROVE Entries(graph, t, S) # {}
    <3>1. <<d, 1>> \in S \X (1..Repeats) /\ 1 <= graph[t][d]
      BY <2>1, <2>2, IdIsFinite
    <3> QED
      BY <3>1 DEF Entries
  <2>3. ASSUME NEW entry \in Entries(graph, t, S), \A d \in S : graph[t][d] = 0 PROVE FALSE
    <3>1. entry[1] \in S /\ entry[2] \in 1..Repeats /\ entry[2] <= graph[t][entry[1]]
      BY DEF Entries
    <3> QED
      BY <2>3, <3>1
  <2> QED
    BY <2>2, <2>3
<1>3. Names(graph, t, S) = 0 <=> Entries(graph, t, S) = {}
  BY <1>1, FS_EmptySet
<1>4. ASSUME NEW L \in SUBSET S
      PROVE  Names(graph, t, S \ L) = Names(graph, t, S) - Names(graph, t, L)
  <2>1. /\ Entries(graph, t, S \ L) = Entries(graph, t, S) \ Entries(graph, t, L)
        /\ Entries(graph, t, S) \cap Entries(graph, t, L) = Entries(graph, t, L)
    BY DEF Entries
  <2>2. Cardinality(Entries(graph, t, S) \ Entries(graph, t, L))
           = Cardinality(Entries(graph, t, S)) - Cardinality(Entries(graph, t, L))
    <3>1. IsFiniteSet(Entries(graph, t, S))
      BY <1>1
    <3>2. Cardinality(Entries(graph, t, S) \ Entries(graph, t, L))
             = Cardinality(Entries(graph, t, S))
                  - Cardinality(Entries(graph, t, S) \cap Entries(graph, t, L))
      BY <3>1, FS_Difference, Zenon
    <3> QED
      BY <2>1, <3>2
  <2>3. S \ L \in SUBSET Id /\ L \in SUBSET Id
    OBVIOUS
  <2> QED
    BY <1>1, <2>1, <2>2, <2>3
<1> QED
  BY <1>1, <1>2, <1>3, <1>4

(* Sorting lists every element once. *)
LEMMA SortedLists ==
    ASSUME NEW S \in SUBSET Id
    PROVE  /\ Sorted(S) \in Seq(S)
           /\ {Sorted(S)[i] : i \in DOMAIN Sorted(S)} = S
           /\ \A i, j \in DOMAIN Sorted(S) : i < j => Sorted(S)[i] < Sorted(S)[j]
<1> DEFINE n == Cardinality(S)
           Below(s) == {t \in S : t < s}
           f == [s \in S |-> Cardinality(Below(s)) + 1]
<1>1. IsFiniteSet(S) /\ n \in Nat /\ S \subseteq Nat
  BY IdIsFinite
<1>2. \A s \in S : IsFiniteSet(Below(s)) /\ Cardinality(Below(s)) \in Nat
  BY <1>1, FS_Subset, FS_CardinalityType
<1>3. ASSUME NEW s \in S PROVE Cardinality(Below(s)) < n
  <2>1. Below(s) \in SUBSET S /\ s \notin Below(s)
    BY <1>1
  <2>2. Cardinality(Below(s)) <= n /\ Cardinality(Below(s)) # n
    BY <1>1, <2>1, FS_Subset
  <2> QED
    BY <1>1, <1>2, <2>2
<1>4. ASSUME NEW s \in S, NEW t \in S, s < t PROVE Cardinality(Below(s)) < Cardinality(Below(t))
  <2>1. Below(s) \in SUBSET Below(t) /\ s \in Below(t) /\ s \notin Below(s)
    <3>1. s \in Nat /\ t \in Nat /\ \A u \in S : u \in Nat
      BY <1>1
    <3>2. ~(s < s) /\ \A u \in S : u < s => u < t
      BY <1>4, <3>1
    <3>3. s \notin Below(s) /\ s \in Below(t)
      BY <1>4, <3>2
    <3>4. \A u \in Below(s) : u \in Below(t)
      BY <3>2
    <3> QED
      BY <3>3, <3>4
  <2>2. Cardinality(Below(s)) <= Cardinality(Below(t)) /\ Cardinality(Below(s)) # Cardinality(Below(t))
    BY <1>2, <2>1, FS_Subset
  <2> QED
    BY <1>2, <2>2
<1> HIDE DEF Below
<1>5. f \in [S -> 1..n]
  BY <1>1, <1>2, <1>3
<1>6. \A s, t \in S : f[s] = f[t] => s = t
  <2> SUFFICES ASSUME NEW s \in S, NEW t \in S, s # t PROVE f[s] # f[t]
    OBVIOUS
  <2>1. s < t \/ t < s
    BY <1>1
  <2> QED
    BY <1>2, <1>4, <2>1
<1>7. IsFiniteSet(1..n) /\ Cardinality(1..n) = n
  BY <1>1, FS_Interval
<1>8. f \in Injection(S, 1..n)
  <2> HIDE DEF f, n
  <2> QED
    BY <1>5, <1>6 DEF Injection, IsInjective
<1>9. f \in Surjection(S, 1..n)
  BY <1>7, <1>8, FS_Injection
<1>10. \A i \in 1..n : \E s \in S : Cardinality(Below(s)) = i - 1
  <2> SUFFICES ASSUME NEW i \in 1..n PROVE \E s \in S : Cardinality(Below(s)) = i - 1
    OBVIOUS
  <2>1. PICK s \in S : f[s] = i
    BY <1>9 DEF Surjection
  <2> QED
    BY <1>2, <2>1
<1>11. Sorted(S) = [i \in 1..n |-> CHOOSE s \in S : Cardinality(Below(s)) = i - 1]
  BY DEF Sorted, Below
<1>12. \A i \in 1..n : Sorted(S)[i] \in S /\ Cardinality(Below(Sorted(S)[i])) = i - 1
  BY <1>10, <1>11
<1>13. Sorted(S) \in [1..n -> S]
  BY <1>11, <1>12
<1>14. Sorted(S) \in Seq(S) /\ DOMAIN Sorted(S) = 1..n
  BY <1>1, <1>13
<1>15. ASSUME NEW i \in 1..n, NEW j \in 1..n, i < j PROVE Sorted(S)[i] < Sorted(S)[j]
  <2>1. PICK s \in S, t \in S : /\ s = Sorted(S)[i] /\ Cardinality(Below(s)) = i - 1
                               /\ t = Sorted(S)[j] /\ Cardinality(Below(t)) = j - 1
    BY <1>12
  <2>2. i \in Int /\ j \in Int /\ ~(j - 1 < i - 1) /\ i - 1 # j - 1
    BY <1>1, <1>15
  <2>3. ~(t < s) /\ s # t
    BY <1>4, <2>1, <2>2
  <2>4. s \in Nat /\ t \in Nat
    BY <1>1
  <2> QED
    BY <2>1, <2>3, <2>4
<1>16. ASSUME NEW s \in S PROVE \E i \in 1..n : Sorted(S)[i] = s
  <2>1. f[s] \in 1..n
    BY <1>5
  <2>2. Cardinality(Below(Sorted(S)[f[s]])) = Cardinality(Below(s)) /\ Sorted(S)[f[s]] \in S
    BY <1>2, <1>12, <2>1
  <2> QED
    BY <1>6, <2>1, <2>2
<1> QED
  BY <1>12, <1>14, <1>15, <1>16

-----------------------------------------------------------------------------
(* The order *)

Once(seq) == \A i, j \in DOMAIN seq : seq[i] = seq[j] => i = j
Ascending(seq) == \A i, j \in DOMAIN seq : i < j => seq[i] < seq[j]

(* A set of steps each of which depends on one of them. *)
Loop(C) == C \subseteq Id /\ \A s \in C : \E d \in C : depends_on[s][d] > 0

(* The counters count the dependencies that are not in the order yet, and  *)
(* the steps that have none are the level to emit.                         *)
Counted ==
    /\ depends_on \in Graph
    /\ order \in Seq(Id) /\ Once(order) /\ current \in Seq(Id) /\ Once(current)
    /\ indegree = [t \in Id |-> Names(depends_on, t, Id \ Range(order))]
    /\ Range(current) = {t \in Id \ Range(order) : indegree[t] = 0}
    /\ \A i \in DOMAIN order : \A d \in Id :
          depends_on[order[i]][d] > 0 => \E k \in 1..i-1 : order[k] = d
    /\ \A C : Loop(C) => Range(order) \cap C = {}

LEMMA SortedRange ==
    ASSUME NEW S \in SUBSET Id
    PROVE  /\ Sorted(S) \in Seq(Id) /\ Range(Sorted(S)) = S
           /\ Once(Sorted(S)) /\ Ascending(Sorted(S))
<1>1. Sorted(S) \in Seq(S) /\ Ascending(Sorted(S)) /\ Range(Sorted(S)) = S
  BY SortedLists DEF Ascending, Range
<1> HIDE DEF Sorted
<1>2. PICK u \in Seq(Id) : u = Sorted(S) /\ DOMAIN u = 1..Len(u) /\ Len(u) \in Nat
  BY <1>1
<1>3. \A i, j \in DOMAIN u : u[i] = u[j] => i = j
  <2> SUFFICES ASSUME NEW i \in DOMAIN u, NEW j \in DOMAIN u, u[i] = u[j] PROVE i = j
    OBVIOUS
  <2>1. ~(i < j) /\ ~(j < i)
    <3>1. u[i] \in Id /\ u[j] \in Id
      BY <1>2
    <3>2. u[i] \in Nat /\ u[j] \in Nat
      BY <3>1, IdIsFinite
    <3> QED
      BY <1>1, <1>2, <3>2 DEF Ascending
  <2> QED
    BY <1>2, <2>1
<1> QED
  BY <1>1, <1>2, <1>3 DEF Once

(* What is not counted is not there. *)
LEMMA NotNamed ==
    ASSUME NEW graph \in Graph, NEW t \in Id, NEW S \in SUBSET Id, NEW L \in SUBSET S,
           Names(graph, t, S) = 0
    PROVE  Names(graph, t, L) = 0 /\ \A d \in S : ~(graph[t][d] > 0)
<1>1. \A d \in S : graph[t][d] = 0
  BY NamesOf
<1>2. \A d \in L : graph[t][d] = 0
  BY <1>1
<1>3. L \in SUBSET Id
  OBVIOUS
<1> QED
  BY <1>1, <1>2, <1>3, NamesOf

LEMMA StartCounts ==
    ASSUME NEW graph \in Graph, Start(graph), order = <<>>
    PROVE  Counted'
<1>1. /\ depends_on' = graph /\ order' = <<>>
      /\ indegree' = [t \in Id |-> Names(graph, t, Id)]
      /\ current' = Sorted({t \in Id : indegree'[t] = 0})
  BY DEF Start
<1>2. Range(order') = {} /\ Id \ {} = Id
  BY <1>1 DEF Range
<1>3. PICK T \in SUBSET Id : T = {t \in Id : indegree'[t] = 0}
  OBVIOUS
<1>4. current' \in Seq(Id) /\ Once(current') /\ Range(current') = T
  BY <1>1, <1>3, SortedRange
<1>5. order' \in Seq(Id) /\ Once(order') /\ DOMAIN order' = {}
  BY <1>1 DEF Once
<1>6. indegree' = [t \in Id |-> Names(depends_on', t, Id \ Range(order'))]
  BY <1>1, <1>2
<1>7. T = {t \in Id \ Range(order') : indegree'[t] = 0}
  BY <1>2, <1>3
<1> QED
  BY <1>1, <1>2, <1>4, <1>5, <1>6, <1>7 DEF Counted, Once

Joined(s, t, n, m, u) ==
    /\ u \in Seq(Id)
    /\ DOMAIN s = 1..n /\ DOMAIN t = 1..m /\ DOMAIN u = 1..n+m
    /\ \A i \in 1..n : i \in 1..n+m /\ u[i] = s[i]
    /\ \A i \in (1..n+m) \ (1..n) : i - n \in 1..m /\ u[i] = t[i-n]
    /\ \A j \in 1..m : n + j \in 1..n+m /\ u[n+j] = t[j]

LEMMA JoinedIs ==
    ASSUME NEW s \in Seq(Id), NEW t \in Seq(Id), NEW n \in Nat, NEW m \in Nat,
           n = Len(s), m = Len(t)
    PROVE  Joined(s, t, n, m, s \o t)
<1> DEFINE u == s \o t
<1>1. /\ u \in Seq(Id) /\ Len(u) = n + m
      /\ \A i \in 1..n+m : u[i] = IF i <= n THEN s[i] ELSE t[i-n]
  BY ConcatProperties
<1> HIDE DEF u
<1>2. DOMAIN s = 1..n /\ DOMAIN t = 1..m /\ DOMAIN u = 1..n+m
  BY <1>1
<1>3. \A i \in 1..n : i \in 1..n+m /\ u[i] = s[i]
  BY <1>1
<1>4. \A i \in (1..n+m) \ (1..n) : i - n \in 1..m /\ u[i] = t[i-n]
  BY <1>1
<1>5. ASSUME NEW j \in 1..m PROVE n + j \in 1..n+m /\ u[n+j] = t[j]
  <2>1. n + j \in 1..n+m /\ ~(n + j <= n) /\ (n + j) - n = j
    OBVIOUS
  <2> QED
    BY <1>1, <2>1
<1>6. Joined(s, t, n, m, u)
  BY <1>1, <1>2, <1>3, <1>4, <1>5 DEF Joined
<1> QED
  BY <1>6 DEF u

LEMMA EmitCounts ==
    ASSUME Counted, Emit
    PROVE  Counted' /\ UNCHANGED <<depends_on, verdict>>
<1> DEFINE level == Range(current)
           done == Range(order)
           left == [t \in Id |-> indegree[t] - Names(depends_on, t, level)]
           T == {t \in Id : Names(depends_on, t, level) > 0 /\ left[t] = 0}
<1>1. /\ order' = order \o current /\ indegree' = left /\ current' = Sorted(T)
      /\ UNCHANGED <<depends_on, verdict>>
  BY DEF Emit
<1>2. /\ depends_on \in Graph /\ order \in Seq(Id) /\ current \in Seq(Id)
      /\ Once(order) /\ Once(current) /\ done \subseteq Id
      /\ level = {t \in Id \ done : indegree[t] = 0}
      /\ \A t \in Id : indegree[t] = Names(depends_on, t, Id \ done)
  <2>1. /\ depends_on \in Graph /\ order \in Seq(Id) /\ current \in Seq(Id)
        /\ Once(order) /\ Once(current)
    BY DEF Counted
  <2>2. done \subseteq Id
    BY <2>1 DEF Range
  <2>3. indegree = [t \in Id |-> Names(depends_on, t, Id \ done)]
    BY DEF Counted
  <2>4. level = {t \in Id \ done : indegree[t] = 0}
    BY Zenon DEF Counted
  <2> QED
    BY <2>1, <2>2, <2>3, <2>4
<1>3. level \subseteq Id \ done
  BY <1>2
<1> HIDE DEF level, done, left, T
<1>4. PICK n \in Nat, m \in Nat : n = Len(order) /\ m = Len(current)
  BY <1>2
<1>5. /\ order' \in Seq(Id)
      /\ DOMAIN order = 1..n /\ DOMAIN current = 1..m /\ DOMAIN order' = 1..n+m
      /\ \A i \in 1..n : i \in 1..n+m /\ order'[i] = order[i]
      /\ \A i \in (1..n+m) \ (1..n) : i - n \in 1..m /\ order'[i] = current[i-n]
      /\ \A j \in 1..m : n + j \in 1..n+m /\ order'[n+j] = current[j]
  <2>1. Joined(order, current, n, m, order \o current)
    BY <1>2, <1>4, JoinedIs
  <2>2. Joined(order, current, n, m, order')
    BY <1>1, <2>1
  <2> QED
    BY <2>2 DEF Joined
<1> USE DEF level, done, left, T
<1>6. Range(order') = done \cup level
  <2>1. Range(order') \subseteq done \cup level
    BY <1>5 DEF Range
  <2>2. done \subseteq Range(order')
    BY <1>5 DEF Range
  <2>3. ASSUME NEW t \in level PROVE t \in Range(order')
    <3>1. PICK j \in 1..m : current[j] = t
      BY <1>5 DEF Range
    <3> QED
      BY <1>5, <3>1 DEF Range
  <2> QED
    BY <2>1, <2>2, <2>3
<1> HIDE DEF level, done
<1>7. ASSUME NEW t \in Id
      PROVE  /\ left[t] = Names(depends_on, t, Id \ Range(order'))
             /\ Names(depends_on, t, level) \in Nat /\ indegree[t] \in Nat
             /\ left[t] = indegree[t] - Names(depends_on, t, level)
  <2>1. /\ Id \ done \in SUBSET Id /\ level \in SUBSET (Id \ done) /\ level \in SUBSET Id
        /\ (Id \ done) \ level = Id \ Range(order')
    BY <1>3, <1>6
  <2> QED
    BY <1>2, <2>1, NamesOf
<1>8. ASSUME NEW t \in level
      PROVE  t \in Id /\ indegree[t] = 0 /\ Names(depends_on, t, level) = 0
             /\ \A d \in Id : depends_on[t][d] > 0 => d \in done
  <2>1. t \in Id /\ Names(depends_on, t, Id \ done) = 0
    BY <1>2
  <2>2. Id \ done \in SUBSET Id /\ level \in SUBSET (Id \ done)
    BY <1>3
  <2>3. Names(depends_on, t, level) = 0 /\ \A d \in Id \ done : ~(depends_on[t][d] > 0)
    BY <1>2, <2>1, <2>2, NotNamed
  <2> QED
    BY <1>2, <2>1, <2>3
<1>9. ASSUME NEW t \in done
      PROVE  Names(depends_on, t, level) = 0
  <2>1. PICK i \in DOMAIN order : order[i] = t
    BY DEF done, Range
  <2>2. \A d \in Id : depends_on[t][d] > 0 => d \in done
    <3>1. ASSUME NEW d \in Id, depends_on[t][d] > 0 PROVE d \in done
      <4>1. PICK k \in 1..i-1 : order[k] = d
        BY <2>1, <3>1 DEF Counted
      <4>2. k \in DOMAIN order
        BY <1>5, <2>1, <4>1
      <4> QED
        BY <4>1, <4>2 DEF done, Range
    <3> QED
      BY <3>1
  <2>3. \A d \in level : depends_on[t][d] = 0
    <3>1. \A d \in level : d \in Id /\ d \notin done
      BY <1>3
    <3>2. \A d \in Id : depends_on[t][d] \in Nat
      BY <1>2, IdIsFinite DEF Graph
    <3> QED
      BY <2>2, <3>1, <3>2
  <2>4. level \in SUBSET Id /\ t \in Id
    BY <1>2, <1>3
  <2> QED
    BY <1>2, <2>3, <2>4, NamesOf
<1>10. T = {t \in Id \ Range(order') : indegree'[t] = 0}
  <2>1. ASSUME NEW t \in T PROVE t \in Id \ Range(order') /\ indegree'[t] = 0
    BY <1>1, <1>6, <1>8, <1>9, <2>1
  <2>2. ASSUME NEW t \in Id \ Range(order'), indegree'[t] = 0 PROVE t \in T
    <3>1. left[t] = 0 /\ t \notin level /\ t \notin done
      BY <1>1, <1>6, <2>2
    <3>2. indegree[t] # 0
      BY <1>2, <3>1
    <3>3. Names(depends_on, t, level) > 0
      BY <1>7, <3>1, <3>2
    <3> QED
      BY <3>1, <3>3
  <2> QED
    BY <2>1, <2>2
<1>11. current' \in Seq(Id) /\ Once(current') /\ Range(current') = T
  <2>1. T \in SUBSET Id
    OBVIOUS
  <2> HIDE DEF T
  <2> QED
    BY <1>1, <2>1, SortedRange
<1>12. Once(order')
  <2>1. \A i \in 1..n : order'[i] \in done
    BY <1>5 DEF done, Range
  <2>2. \A i \in (1..n+m) \ (1..n) : order'[i] \in level
    BY <1>5 DEF level, Range
  <2> SUFFICES ASSUME NEW i \in 1..n+m, NEW j \in 1..n+m, order'[i] = order'[j] PROVE i = j
    BY <1>5 DEF Once
  <2>3. CASE i \in 1..n /\ j \in 1..n
    BY <1>2, <1>5, <2>3 DEF Once
  <2>4. CASE i \notin 1..n /\ j \notin 1..n
    <3>1. /\ i - n \in DOMAIN current /\ order'[i] = current[i-n]
          /\ j - n \in DOMAIN current /\ order'[j] = current[j-n]
      BY <1>5, <2>4
    <3>2. i - n = j - n
      BY <1>2, <3>1 DEF Once
    <3> QED
      BY <3>2
  <2>5. ~(i \in 1..n /\ j \notin 1..n) /\ ~(i \notin 1..n /\ j \in 1..n)
    BY <1>3, <2>1, <2>2
  <2> QED
    BY <2>3, <2>4, <2>5
<1>13. ASSUME NEW i \in DOMAIN order', NEW d \in Id, depends_on[order'[i]][d] > 0
       PROVE  \E k \in 1..i-1 : order'[k] = d
  <2>1. CASE i \in 1..n
    <3>1. PICK k \in 1..i-1 : order[k] = d
      BY <1>5, <1>13, <2>1 DEF Counted
    <3>2. k \in 1..n
      BY <2>1, <3>1
    <3> QED
      BY <1>5, <3>1, <3>2
  <2>2. CASE i \notin 1..n
    <3>1. order'[i] \in level /\ i \in (1..n+m) \ (1..n)
      BY <1>5, <2>2 DEF level, Range
    <3>2. PICK k \in 1..n : order[k] = d
      BY <1>5, <1>8, <1>13, <3>1 DEF done, Range
    <3>3. k \in 1..i-1
      BY <3>1, <3>2
    <3> QED
      BY <1>5, <3>2, <3>3
  <2> QED
    BY <2>1, <2>2
<1>14. ASSUME NEW C, Loop(C) PROVE Range(order') \cap C = {}
  <2>1. done \cap C = {}
    BY <1>14 DEF Counted, done
  <2>2. level \cap C = {}
    BY <1>8, <1>14, <2>1 DEF Loop
  <2> QED
    BY <1>6, <2>1, <2>2
<1>15. \A C : Loop(C)' <=> Loop(C)
  BY <1>1 DEF Loop
<1>16. indegree' = [t \in Id |-> Names(depends_on', t, Id \ Range(order'))]
  BY <1>1, <1>7
<1>17. /\ depends_on' \in Graph /\ order' \in Seq(Id)
       /\ \A i \in DOMAIN order' : \A d \in Id :
             depends_on'[order'[i]][d] > 0 => \E k \in 1..i-1 : order'[k] = d
       /\ \A C : Loop(C)' => Range(order') \cap C = {}
  <2> HIDE DEF T, left
  <2> QED
    BY <1>1, <1>2, <1>5, <1>13, <1>14, <1>15
<1> HIDE DEF T, left
<1> QED
  BY <1>1, <1>10, <1>11, <1>12, <1>16, <1>17 DEF Counted

(* An order with N entries lists all steps. *)
LEMMA FullOrder ==
    ASSUME Counted
    PROVE  Len(order) = N <=> Range(order) = Id
<1> DEFINE n == Len(order)
<1>1. order \in Seq(Id) /\ n \in Nat /\ order \in [1..n -> Id] /\ DOMAIN order = 1..n
  BY DEF Counted
<1>2. IsFiniteSet(1..n) /\ Cardinality(1..n) = n /\ IsFiniteSet(Id) /\ Cardinality(Id) = N
  <2> HIDE DEF n
  <2>1. IsFiniteSet(1..n) /\ Cardinality(1..n) = n
    BY <1>1, FS_Interval
  <2> QED
    BY <2>1, IdIsFinite
<1>3. order \in Injection(1..n, Id)
  BY <1>1 DEF Counted, Once, Injection, IsInjective
<1>4. order \in Surjection(1..n, Id) <=> Range(order) = Id
  <2> HIDE DEF n
  <2> QED
    BY <1>1 DEF Surjection, Range
<1>5. n = N <=> order \in Surjection(1..n, Id)
  <2> HIDE DEF n
  <2> QED
    BY <1>2, <1>3, FS_Injection
<1> QED
  BY <1>4, <1>5

(* When no level is left, each step that is left waits for another one.    *)
LEMMA LeftIsLoop ==
    ASSUME Counted, current = <<>>
    PROVE  Loop(Id \ Range(order))
<1> DEFINE C == Id \ Range(order)
<1>1. C \in SUBSET Id /\ Range(current) = {}
  BY DEF Range
<1>2. ASSUME NEW s \in C PROVE \E d \in C : depends_on[s][d] > 0
  <2>1. s \in Id /\ indegree[s] # 0 /\ indegree[s] = Names(depends_on, s, C)
    BY <1>1 DEF Counted
  <2>2. PICK d \in C : depends_on[s][d] # 0
    BY <1>1, <2>1, NamesOf DEF Counted
  <2>3. depends_on[s][d] \in Nat
    BY <2>1, <2>2, IdIsFinite DEF Counted, Graph
  <2> QED
    BY <2>2, <2>3
<1> QED
  BY <1>1, <1>2 DEF Loop

(* The loop ends with all steps in the order, unless there is a cycle.     *)
LEMMA OrderOrLoop ==
    ASSUME Counted, current = <<>>
    PROVE  Len(order) = N <=> ~\E C : C # {} /\ Loop(C)
<1>1. ASSUME Range(order) = Id, NEW C, Loop(C) PROVE C = {}
  <2>1. Range(order) \cap C = {} /\ C \subseteq Id
    BY <1>1 DEF Counted, Loop
  <2> QED
    BY <1>1, <2>1
<1>2. ASSUME Range(order) # Id PROVE \E C : C # {} /\ Loop(C)
  <2>1. Id \ Range(order) # {}
    BY <1>2 DEF Counted, Range
  <2> QED
    BY <2>1, LeftIsLoop
<1> QED
  BY <1>1, <1>2, FullOrder

-----------------------------------------------------------------------------
(* Least numbers, induction up to N, iteration *)

LEMMA LeastIs ==
    ASSUME NEW S \in SUBSET Nat, S # {}
    PROVE  Min(S) \in S /\ \A k \in S : Min(S) <= k
<1> DEFINE R == {ss \in Nat \X Nat : ss[1] < ss[2]}
<1>1. IsWellFoundedOn(R, Nat)
  BY NatLessThanWellFounded DEF OpToRel
<1>2. \A k, n \in S : k < n => <<k, n>> \in R
  OBVIOUS
<1> HIDE DEF R
<1>3. PICK n \in S : \A k \in S : ~(<<k, n>> \in R)
  BY <1>1, WFMin, Zenon
<1>4. n \in S /\ \A k \in S : n <= k
  <2>1. \A k \in S : ~(k < n) /\ k \in Nat /\ n \in Nat
    BY <1>2, <1>3
  <2> QED
    BY <2>1
<1> QED
  BY <1>4 DEF Min

LEMMA Induction ==
    ASSUME NEW S, 0 \in S, \A n \in 1..N : n - 1 \in S => n \in S
    PROVE  \A n \in 0..N : n \in S
<1> DEFINE T == (0..N) \ S
<1> SUFFICES ASSUME T # {} PROVE FALSE
  OBVIOUS
<1>1. PICK n \in T : \A k \in T : n <= k
  <2>1. T \in SUBSET Nat
    BY IdIsFinite
  <2> HIDE DEF T
  <2> QED
    BY <2>1, LeastIs
<1>2. n \in 1..N /\ n - 1 \in 0..N /\ ~(n <= n - 1)
  BY IdIsFinite
<1> QED
  BY <1>1, <1>2

(* From v one comes, by G each time, to the values of f.                   *)
Iterates(V, v, G, f) == f \in [0..N -> V] /\ f[0] = v /\ \A k \in 1..N : f[k] = G[f[k - 1]]

LEMMA Iteration ==
    ASSUME NEW V, NEW v \in V, NEW G \in [V -> V]
    PROVE  \E f : Iterates(V, v, G, f)
<1> DEFINE Upto(n, f) == f[0] = v /\ \A k \in 1..n : f[k] = G[f[k - 1]]
           S == {n \in 0..N : \E f \in [0..N -> V] : Upto(n, f)}
<1>0. N \in Nat
  BY IdIsFinite
<1>1. 0 \in S
  <2>1. [k \in 0..N |-> v] \in [0..N -> V] /\ Upto(0, [k \in 0..N |-> v])
    BY <1>0
  <2> HIDE DEF Upto
  <2> QED
    BY <1>0, <2>1
<1>2. ASSUME NEW n \in 1..N, n - 1 \in S PROVE n \in S
  <2>1. PICK f \in [0..N -> V] : Upto(n - 1, f)
    BY <1>2
  <2> DEFINE g == [f EXCEPT ![n] = G[f[n - 1]]]
  <2>2. n \in 0..N /\ n - 1 \in 0..N /\ n # 0
    BY <1>0
  <2>3. /\ g \in [0..N -> V] /\ g[n] = G[f[n - 1]]
        /\ \A k \in 0..N : k # n => g[k] = f[k]
    BY <2>2
  <2> HIDE DEF g
  <2>4. ASSUME NEW k \in 1..n PROVE g[k] = G[g[k - 1]]
    <3>1. k - 1 \in 0..N /\ k - 1 # n /\ k \in 0..N
      BY <1>0
    <3>2. CASE k = n
      BY <2>3, <3>1, <3>2
    <3>3. CASE k # n
      <4>1. k \in 1..n - 1
        BY <3>3
      <4> QED
        BY <2>1, <2>3, <3>1, <3>3, <4>1
    <3> QED
      BY <3>2, <3>3
  <2>5. g[0] = v
    BY <1>0, <2>1, <2>2, <2>3
  <2>6. Upto(n, g)
    BY <2>4, <2>5
  <2> HIDE DEF Upto
  <2> QED
    BY <2>2, <2>3, <2>6
<1>3. N \in S
  <2>1. N \in 0..N
    BY <1>0
  <2> HIDE DEF S
  <2> QED
    BY <1>1, <1>2, <2>1, Induction
<1> QED
  BY <1>3 DEF Iterates

-----------------------------------------------------------------------------
(* Cycles *)

Spread(S) == S \cup UNION {Dependencies(d) : d \in S}

(* What a step reaches is found in N turns. *)
Reaches(t, f) ==
    /\ f \in [0..N -> SUBSET Id] /\ f[0] = Dependencies(t)
    /\ \A k \in 1..N : f[k] = Spread(f[k - 1])
    /\ Reach(t) = f[N]

LEMMA ReachIs ==
    ASSUME NEW t \in Id
    PROVE  \E f : Reaches(t, f)
<1> DEFINE V == SUBSET Id
           G == [S \in V |-> Spread(S)]
           Turn(f, k) == IF k = 0 THEN Dependencies(t) ELSE Spread(f[k - 1])
           r == CHOOSE f : f = [k \in 0..N |-> Turn(f, k)]
<1>0. N \in Nat
  BY IdIsFinite
<1>1. Dependencies(t) \in V /\ G \in [V -> V] /\ \A S \in V : G[S] = Spread(S)
  BY DEF Spread, Dependencies
<1>2. Reach(t) = r[N]
  BY DEF Reach, Spread
<1> HIDE DEF V, G
<1>3. PICK f : Iterates(V, Dependencies(t), G, f)
  BY <1>1, Iteration
<1>4. f \in [0..N -> V] /\ \A k \in 0..N : f[k] = Turn(f, k)
  <2>1. ASSUME NEW k \in 0..N PROVE f[k] = Turn(f, k)
    <3>1. CASE k = 0
      BY <1>3, <3>1 DEF Iterates
    <3>2. CASE k # 0
      <4>1. k \in 1..N /\ k - 1 \in 0..N
        BY <1>0, <3>2
      <4> QED
        BY <1>1, <1>3, <3>2, <4>1 DEF Iterates
    <3> QED
      BY <3>1, <3>2
  <2> QED
    BY <1>3, <2>1 DEF Iterates
<1>5. f = [k \in 0..N |-> Turn(f, k)]
  <2> HIDE DEF Turn
  <2> QED
    BY <1>4
<1>6. r = [k \in 0..N |-> Turn(r, k)]
  <2> HIDE DEF Turn
  <2> QED
    BY <1>5
<1> HIDE DEF r
<1>7. \A k \in 0..N : r[k] = Turn(r, k)
  <2> HIDE DEF Turn
  <2> QED
    BY <1>6
<1>8. DOMAIN r = 0..N
  <2> HIDE DEF Turn
  <2> QED
    BY <1>6
<1>9. \A k \in 1..N : k \in 0..N /\ k # 0 /\ k - 1 \in 0..N
  BY <1>0
<1>10. r[0] = Dependencies(t) /\ \A k \in 1..N : r[k] = Spread(r[k - 1])
  BY <1>0, <1>7, <1>9
<1> DEFINE S == {k \in 0..N : r[k] \in V}
<1>11. \A k \in 0..N : k \in S
  <2>1. 0 \in S
    BY <1>0, <1>1, <1>10
  <2>2. ASSUME NEW n \in 1..N, n - 1 \in S PROVE n \in S
    BY <1>1, <1>9, <1>10, <2>2
  <2> HIDE DEF S
  <2> QED
    BY <2>1, <2>2, Induction
<1>12. r \in [0..N -> V]
  <2>1. \A k \in 0..N : r[k] \in V
    BY <1>11
  <2> QED
    BY <1>6, <1>8, <2>1
<1> QED
  BY <1>2, <1>10, <1>12 DEF Reaches, V

Closed(C) == \A d \in C : Dependencies(d) \subseteq C

LEMMA ReachIsClosed ==
    ASSUME NEW t \in Id
    PROVE  Reach(t) \subseteq Id /\ Dependencies(t) \subseteq Reach(t) /\ Closed(Reach(t))
<1>1. PICK f : Reaches(t, f)
  BY ReachIs
<1>2. /\ N \in Nat /\ f \in [0..N -> SUBSET Id] /\ f[0] = Dependencies(t) /\ Reach(t) = f[N]
      /\ \A k \in 1..N : k - 1 \in 0..N /\ k \in 0..N /\ f[k] = Spread(f[k - 1])
  BY <1>1, IdIsFinite DEF Reaches
<1>3. \A k \in 0..N : IsFiniteSet(f[k]) /\ Cardinality(f[k]) \in Nat
  BY <1>2, IdIsFinite
<1> DEFINE Large(k) == Cardinality(f[k]) >= k + 1
           S == {k \in 0..N : Dependencies(t) \subseteq f[k] /\ (Large(k) \/ Spread(f[k]) = f[k])}
<1>4. 0 \in S
  <2>1. CASE f[0] = {}
    BY <1>2, <2>1 DEF Spread
  <2>2. CASE f[0] # {}
    <3>1. 0 \in 0..N /\ Cardinality(f[0]) # 0
      BY <1>2, <1>3, <2>2, FS_EmptySet
    <3>2. Large(0)
      BY <1>3, <3>1
    <3> QED
      BY <1>2, <3>1, <3>2
  <2> QED
    BY <2>1, <2>2
<1>5. ASSUME NEW n \in 1..N, n - 1 \in S PROVE n \in S
  <2>1. /\ f[n] = Spread(f[n - 1]) /\ f[n - 1] \subseteq f[n]
        /\ n \in 0..N /\ n - 1 \in 0..N /\ n \in Nat
    BY <1>2 DEF Spread
  <2>2. CASE Spread(f[n - 1]) = f[n - 1]
    BY <1>5, <2>1, <2>2
  <2>3. CASE Large(n - 1) /\ Spread(f[n - 1]) # f[n - 1]
    <3>1. f[n - 1] \in SUBSET f[n] /\ f[n - 1] # f[n]
      BY <2>1, <2>3
    <3>2. /\ Cardinality(f[n - 1]) <= Cardinality(f[n])
          /\ Cardinality(f[n - 1]) # Cardinality(f[n])
      BY <1>3, <2>1, <3>1, FS_Subset
    <3>3. /\ Cardinality(f[n - 1]) \in Nat /\ Cardinality(f[n]) \in Nat
          /\ Cardinality(f[n - 1]) >= n
      BY <1>3, <2>1, <2>3
    <3>4. Large(n)
      BY <2>1, <3>2, <3>3
    <3> QED
      BY <1>5, <2>1, <3>4
  <2> QED
    BY <1>5, <2>2, <2>3
<1>6. N \in S
  <2>1. N \in 0..N
    BY <1>2
  <2> HIDE DEF S
  <2> QED
    BY <1>4, <1>5, <2>1, Induction
<1>7. ~Large(N)
  <2>1. N \in 0..N /\ f[N] \in SUBSET Id
    BY <1>2
  <2>2. Cardinality(f[N]) <= N /\ Cardinality(f[N]) \in Nat
    BY <2>1, IdIsFinite, FS_Subset
  <2> QED
    BY <1>2, <2>2
<1>8. Spread(Reach(t)) = Reach(t) /\ Dependencies(t) \subseteq Reach(t)
  BY <1>2, <1>6, <1>7
<1>9. Reach(t) \subseteq Id
  BY <1>2
<1> QED
  BY <1>8, <1>9 DEF Spread, Closed

LEMMA ReachIsLeast ==
    ASSUME NEW t \in Id, NEW C, Dependencies(t) \subseteq C, Closed(C)
    PROVE  Reach(t) \subseteq C
<1>1. PICK f : Reaches(t, f)
  BY ReachIs
<1>2. /\ N \in Nat /\ f[0] = Dependencies(t) /\ Reach(t) = f[N]
      /\ \A k \in 1..N : k - 1 \in 0..N /\ k \in 0..N /\ f[k] = Spread(f[k - 1])
  BY <1>1, IdIsFinite DEF Reaches
<1> DEFINE S == {k \in 0..N : f[k] \subseteq C}
<1>3. 0 \in S
  BY <1>2
<1>4. ASSUME NEW n \in 1..N, n - 1 \in S PROVE n \in S
  <2>1. Spread(f[n - 1]) \subseteq C
    BY <1>4 DEF Spread, Closed
  <2> QED
    BY <1>2, <2>1
<1>5. N \in S
  <2>1. N \in 0..N
    BY <1>2
  <2> HIDE DEF S
  <2> QED
    BY <1>3, <1>4, <2>1, Induction
<1> QED
  BY <1>2, <1>5

(* A set each of whose steps depends on one of them has a step on a cycle. *)
LEMMA LoopHasCycle ==
    ASSUME NEW C, C # {}, Loop(C)
    PROVE  \E c \in C : c \in Cyclic
<1> DEFINE w == [c \in C |-> Cardinality(Reach(c) \cap C)]
           W == {w[c] : c \in C}
<1>1. C \in SUBSET Id /\ \A c \in C : c \in Id
  BY DEF Loop
<1>2. \A c \in C : IsFiniteSet(Reach(c) \cap C) /\ Cardinality(Reach(c) \cap C) \in Nat
  <2>1. \A c \in C : Reach(c) \cap C \in SUBSET Id
    BY <1>1
  <2> QED
    BY <2>1, IdIsFinite
<1>3. PICK c \in C : \A d \in C : w[c] <= w[d]
  <2>1. W \in SUBSET Nat /\ W # {}
    BY <1>2
  <2>2. Min(W) \in W /\ \A k \in W : Min(W) <= k
    <3> HIDE DEF W
    <3> QED
      BY <2>1, LeastIs
  <2> QED
    BY <2>2
<1>4. PICK d \in C : depends_on[c][d] > 0
  BY DEF Loop
<1>5. d \in Dependencies(c)
  BY <1>1, <1>4 DEF Dependencies
<1>6. Reach(d) \subseteq Reach(c) /\ d \in Reach(c)
  <2>1. Dependencies(c) \subseteq Reach(c) /\ Closed(Reach(c))
    BY <1>1, ReachIsClosed
  <2>2. Dependencies(d) \subseteq Reach(c)
    BY <1>5, <2>1 DEF Closed
  <2> QED
    BY <1>1, <1>5, <2>1, <2>2, ReachIsLeast
<1>7. Reach(d) \cap C = Reach(c) \cap C
  <2>1. Reach(d) \cap C \in SUBSET (Reach(c) \cap C)
    BY <1>6
  <2>2. Cardinality(Reach(d) \cap C) <= Cardinality(Reach(c) \cap C)
    BY <1>2, <2>1, FS_Subset
  <2>3. Cardinality(Reach(c) \cap C) <= Cardinality(Reach(d) \cap C)
    BY <1>3
  <2>4. Cardinality(Reach(c) \cap C) = Cardinality(Reach(d) \cap C)
    BY <1>2, <2>2, <2>3
  <2> QED
    BY <1>2, <2>1, <2>4, FS_Subset
<1> QED
  BY <1>1, <1>6, <1>7 DEF Cyclic

(* What is in the order is on no cycle and behind none. *)
LEMMA OrderHasNoCycle ==
    ASSUME Counted, NEW t \in Range(order)
    PROVE  t \in Id /\ t \notin Cyclic /\ Reach(t) \subseteq Range(order)
<1>1. order \in Seq(Id) /\ Once(order) /\ DOMAIN order = 1..Len(order) /\ Len(order) \in Nat
  BY DEF Counted
<1>2. ASSUME NEW i \in DOMAIN order
      PROVE  order[i] \in Id /\ Reach(order[i]) \subseteq {order[k] : k \in 1..i-1}
  <2> DEFINE C == {order[k] : k \in 1..i-1}
  <2>1. \A k \in 1..i : k \in DOMAIN order /\ 1..k-1 \subseteq 1..i-1
    BY <1>1
  <2>2. i \in 1..i /\ order[i] \in Id
    BY <1>1
  <2>3. ASSUME NEW k \in 1..i PROVE Dependencies(order[k]) \subseteq C
    <3> SUFFICES ASSUME NEW d \in Dependencies(order[k]) PROVE d \in C
      OBVIOUS
    <3>1. d \in Id /\ depends_on[order[k]][d] > 0
      BY DEF Dependencies
    <3>2. PICK m \in 1..k-1 : order[m] = d
      BY <2>1, <3>1 DEF Counted
    <3> QED
      BY <2>1, <3>2
  <2>4. \A k \in 1..i-1 : k \in 1..i
    BY <1>1
  <2>5. Closed(C)
    BY <2>3, <2>4 DEF Closed
  <2> HIDE DEF C
  <2>6. Reach(order[i]) \subseteq C
    BY <2>2, <2>3, <2>5, ReachIsLeast
  <2> QED
    BY <2>2, <2>6 DEF C
<1>3. PICK i \in DOMAIN order : order[i] = t
  BY DEF Range
<1>4. \A k \in 1..i-1 : k \in DOMAIN order /\ k # i
  BY <1>1
<1>5. t \notin {order[k] : k \in 1..i-1}
  BY <1>1, <1>3, <1>4 DEF Once
<1>6. {order[k] : k \in 1..i-1} \subseteq Range(order)
  BY <1>4 DEF Range
<1> QED
  BY <1>2, <1>3, <1>5, <1>6 DEF Cyclic

(* What is left at the end is on a cycle or behind one. *)
LEMMA LeftIsBehindCycle ==
    ASSUME Counted, current = <<>>, NEW u \in Id \ Range(order)
    PROVE  u \in Cyclic \/ Reach(u) \cap Cyclic # {}
<1> DEFINE U == Id \ Range(order)
           C == U \cap ({u} \cup Reach(u))
<1>1. Loop(U)
  BY LeftIsLoop
<1>2. Dependencies(u) \subseteq Reach(u) /\ Closed(Reach(u))
  BY ReachIsClosed
<1>3. ASSUME NEW s \in C PROVE \E d \in C : depends_on[s][d] > 0
  <2>1. PICK d \in U : depends_on[s][d] > 0
    BY <1>1 DEF Loop
  <2>2. d \in Dependencies(s)
    BY <2>1 DEF Dependencies
  <2>3. d \in Reach(u)
    BY <1>2, <2>2 DEF Closed
  <2> QED
    BY <2>1, <2>3
<1>4. Loop(C) /\ u \in C
  BY <1>3 DEF Loop
<1> HIDE DEF C
<1>5. PICK c \in C : c \in Cyclic
  BY <1>4, LoopHasCycle
<1> QED
  BY <1>5 DEF C

(* The verdict on the order. *)
LEMMA VerdictOnCycles ==
    ASSUME Counted, current = <<>>
    PROVE  /\ Len(order) = N => Cyclic = {}
           /\ Len(order) # N =>
                 /\ Cyclic # {}
                 /\ Id \ Range(order) = {t \in Id : t \in Cyclic \/ Reach(t) \cap Cyclic # {}}
<1>1. Range(order) \subseteq Id /\ Cyclic \subseteq Id
  BY DEF Counted, Range, Cyclic
<1>2. Len(order) = N <=> Range(order) = Id
  BY FullOrder
<1>3. \A t \in Range(order) : t \notin Cyclic /\ Reach(t) \subseteq Range(order)
  BY OrderHasNoCycle
<1>4. \A t \in Id \ Range(order) : t \in Cyclic \/ Reach(t) \cap Cyclic # {}
  BY LeftIsBehindCycle
<1>5. Len(order) = N => Cyclic = {}
  BY <1>1, <1>2, <1>3
<1>6. Len(order) # N => Cyclic # {}
  BY <1>1, <1>2, <1>4
<1>7. Id \ Range(order) = {t \in Id : t \in Cyclic \/ Reach(t) \cap Cyclic # {}}
  BY <1>3, <1>4
<1> QED
  BY <1>5, <1>6, <1>7

-----------------------------------------------------------------------------
(* The levels *)

(* A step of a level depends on steps of the levels below it, on one of    *)
(* the next lower level among them.                                        *)
Stands(t, i) ==
    /\ \A d \in Dependencies(t) : \E k \in 1..i-1 : d \in Range(levels[k])
    /\ i > 1 => \E d \in Dependencies(t) : d \in Range(levels[i - 1])

(* The order goes through the levels, each one in ascending order.         *)
Goes(p, q) ==
    \A i, j \in DOMAIN levels :
        order[p] \in Range(levels[i]) /\ order[q] \in Range(levels[j]) =>
            i < j \/ (i = j /\ order[p] < order[q])

Leveled ==
    /\ levels \in Seq(Seq(Id)) /\ Ascending(current)
    /\ Range(order) = UNION {Range(levels[i]) : i \in DOMAIN levels}
    /\ \A i \in DOMAIN levels : Range(levels[i]) # {}
    /\ \A i, j \in DOMAIN levels : Range(levels[i]) \cap Range(levels[j]) # {} => i = j
    /\ \A i \in DOMAIN levels : \A t \in Range(levels[i]) : Stands(t, i)
    /\ Len(levels) > 0 =>
          \A t \in Range(current) : \E d \in Dependencies(t) : d \in Range(levels[Len(levels)])
    /\ \A p, q \in DOMAIN order : p < q => Goes(p, q)

LEMMA StartLevels ==
    ASSUME NEW graph \in Graph, Start(graph), order = <<>>, levels = <<>>
    PROVE  Leveled'
<1>1. levels' = <<>> /\ order' = <<>> /\ current' = Sorted({t \in Id : indegree'[t] = 0})
  BY DEF Start
<1>2. Ascending(current')
  <2>1. PICK T \in SUBSET Id : T = {t \in Id : indegree'[t] = 0}
    OBVIOUS
  <2> QED
    BY <1>1, <2>1, SortedRange
<1>3. /\ levels' \in Seq(Seq(Id)) /\ DOMAIN levels' = {} /\ DOMAIN order' = {}
      /\ Len(levels') = 0 /\ Range(order') = {}
  BY <1>1 DEF Range
<1>4. Range(order') = UNION {Range(levels'[i]) : i \in DOMAIN levels'}
  BY <1>3
<1> QED
  BY <1>2, <1>3, <1>4 DEF Leveled, Ascending

(* What is in the current level depends on nothing but the order.          *)
LEMMA LevelIsReady ==
    ASSUME Counted, NEW t \in Range(current)
    PROVE  t \in Id \ Range(order) /\ Dependencies(t) \subseteq Range(order)
<1>1. t \in Id \ Range(order) /\ indegree[t] = 0
  BY DEF Counted
<1>2. Names(depends_on, t, Id \ Range(order)) = 0
  BY <1>1 DEF Counted
<1>3. Id \ Range(order) \in SUBSET Id /\ depends_on \in Graph
  BY DEF Counted
<1>4. \A d \in Id \ Range(order) : ~(depends_on[t][d] > 0)
  BY <1>1, <1>2, <1>3, NotNamed
<1> QED
  BY <1>1, <1>4 DEF Dependencies

LEMMA EmitLevels ==
    ASSUME Counted, Leveled, Emit
    PROVE  Leveled'
<1> DEFINE level == Range(current)
           left == [t \in Id |-> indegree[t] - Names(depends_on, t, level)]
           T == {t \in Id : Names(depends_on, t, level) > 0 /\ left[t] = 0}
<1>1. /\ levels' = Append(levels, current) /\ order' = order \o current
      /\ current' = Sorted(T) /\ UNCHANGED depends_on /\ current # <<>>
  BY DEF Emit
<1>2. /\ depends_on \in Graph /\ order \in Seq(Id) /\ current \in Seq(Id)
      /\ levels \in Seq(Seq(Id)) /\ Ascending(current)
  BY DEF Counted, Leveled
<1>3. level \subseteq Id \ Range(order) /\ \A t \in level : Dependencies(t) \subseteq Range(order)
  BY LevelIsReady
<1>4. Ascending(current') /\ Range(current') = T
  <2>1. T \in SUBSET Id
    OBVIOUS
  <2> HIDE DEF T
  <2> QED
    BY <1>1, <2>1, SortedRange
<1>5. \A t \in T : \E d \in level : depends_on[t][d] > 0
  <2> SUFFICES ASSUME NEW t \in T PROVE \E d \in level : depends_on[t][d] > 0
    OBVIOUS
  <2>1. t \in Id /\ level \in SUBSET Id /\ Names(depends_on, t, level) # 0
    BY <1>3
  <2> HIDE DEF T, level
  <2>2. PICK d \in level : depends_on[t][d] # 0
    BY <1>2, <2>1, NamesOf
  <2>3. depends_on[t][d] \in Nat
    BY <1>2, <2>1, IdIsFinite DEF Graph
  <2> QED
    BY <2>2, <2>3
<1>6. PICK l \in Nat, n \in Nat, m \in Nat : l = Len(levels) /\ n = Len(order) /\ m = Len(current)
  BY <1>2
<1>7. level # {}
  <2>1. 1 \in DOMAIN current
    BY <1>1, <1>2
  <2> QED
    BY <2>1 DEF Range
<1>8. /\ DOMAIN levels = 1..l /\ DOMAIN levels' = 1..l+1 /\ levels' \in Seq(Seq(Id)) /\ Len(levels') = l+1
      /\ \A i \in 1..l : levels'[i] = levels[i] /\ i \in 1..l+1
      /\ levels'[l + 1] = current /\ l + 1 \in 1..l+1 /\ l + 1 \notin 1..l
      /\ \A i \in 1..l+1 : i \in 1..l \/ i = l + 1
  <2> HIDE DEF T
  <2> QED
    BY <1>1, <1>2, <1>6
<1>9. /\ DOMAIN order = 1..n /\ DOMAIN current = 1..m /\ DOMAIN order' = 1..n+m
      /\ \A i \in 1..n : i \in 1..n+m /\ order'[i] = order[i]
      /\ \A i \in (1..n+m) \ (1..n) : i - n \in 1..m /\ order'[i] = current[i-n]
      /\ \A j \in 1..m : n + j \in 1..n+m /\ order'[n+j] = current[j]
  <2>1. Joined(order, current, n, m, order \o current)
    BY <1>2, <1>6, JoinedIs
  <2>2. Joined(order, current, n, m, order')
    BY <1>1, <2>1
  <2> QED
    BY <2>2 DEF Joined
<1> DEFINE L(i) == Range(levels[i])
           M(i) == Range(levels'[i])
<1>10. /\ \A i \in 1..l : M(i) = L(i) /\ L(i) \subseteq Range(order)
       /\ M(l + 1) = level
       /\ Range(order) = UNION {L(i) : i \in 1..l}
  <2>1. Range(order) = UNION {L(i) : i \in 1..l}
    BY <1>8 DEF Leveled
  <2> QED
    BY <1>8, <2>1
<1> HIDE DEF level, T
<1>11. Range(order') = Range(order) \cup level
  <2>1. Range(order') \subseteq Range(order) \cup level
    BY <1>9 DEF Range, level
  <2>2. Range(order) \subseteq Range(order')
    BY <1>9 DEF Range
  <2>3. level \subseteq Range(order')
    <3>1. ASSUME NEW t \in level PROVE t \in Range(order')
      <4>1. PICK j \in 1..m : current[j] = t
        BY <1>9 DEF Range, level
      <4> QED
        BY <1>9, <4>1 DEF Range
    <3> QED
      BY <3>1
  <2> QED
    BY <2>1, <2>2, <2>3
<1>12. Range(order') = UNION {M(i) : i \in 1..l+1}
  <2>1. UNION {M(i) : i \in 1..l+1} = (UNION {M(i) : i \in 1..l}) \cup M(l + 1)
    <3> HIDE DEF M
    <3> QED
      BY <1>8
  <2>2. UNION {M(i) : i \in 1..l} = UNION {L(i) : i \in 1..l}
    <3> HIDE DEF M, L
    <3> QED
      BY <1>10
  <2> QED
    BY <1>10, <1>11, <2>1, <2>2
<1>13. ASSUME NEW i \in 1..l+1, NEW j \in 1..l+1, M(i) \cap M(j) # {} PROVE i = j
  <2>1. CASE i \in 1..l /\ j \in 1..l
    BY <1>8, <1>10, <1>13, <2>1 DEF Leveled
  <2>2. \A k \in 1..l : M(k) \cap level = {}
    BY <1>3, <1>10
  <2> QED
    BY <1>8, <1>10, <1>13, <2>1, <2>2
<1>14. \A t : Dependencies(t)' = Dependencies(t)
  BY <1>1 DEF Dependencies
<1>15. ASSUME NEW i \in 1..l+1, NEW t \in M(i)
       PROVE  /\ \A d \in Dependencies(t) : \E k \in 1..i-1 : d \in M(k)
              /\ i > 1 => \E d \in Dependencies(t) : d \in M(i - 1)
  <2>1. CASE i \in 1..l
    <3>1. /\ \A d \in Dependencies(t) : \E k \in 1..i-1 : d \in L(k)
          /\ i > 1 => \E d \in Dependencies(t) : d \in L(i - 1)
      BY <1>8, <1>10, <1>15, <2>1 DEF Leveled, Stands
    <3>2. (\A k \in 1..i-1 : k \in 1..l) /\ (i > 1 => i - 1 \in 1..l)
      BY <2>1
    <3> HIDE DEF L, M
    <3> QED
      BY <1>10, <3>1, <3>2
  <2>2. CASE i = l + 1
    <3>1. t \in level /\ i - 1 = l /\ (i > 1 => l \in 1..l /\ l > 0)
      BY <1>10, <1>15, <2>2
    <3>2. \A d \in Dependencies(t) : \E k \in 1..l : d \in L(k)
      BY <1>3, <1>10, <3>1
    <3>3. l > 0 => \E d \in Dependencies(t) : d \in L(l)
      BY <1>6, <3>1 DEF Leveled, level
    <3> HIDE DEF L, M
    <3> QED
      BY <1>10, <3>1, <3>2, <3>3
  <2> QED
    BY <1>8, <2>1, <2>2
<1>16. ASSUME NEW p \in 1..n+m, NEW q \in 1..n+m, p < q, NEW i \in 1..l+1, NEW j \in 1..l+1,
              order'[p] \in M(i), order'[q] \in M(j)
       PROVE  i < j \/ (i = j /\ order'[p] < order'[q])
  <2>1. /\ \A k \in 1..n : order'[k] \in Range(order)
        /\ \A k \in (1..n+m) \ (1..n) : order'[k] \in level
    BY <1>9 DEF Range, level
  <2>2. /\ p \in 1..n <=> i \in 1..l
        /\ q \in 1..n <=> j \in 1..l
    BY <1>3, <1>8, <1>10, <1>16, <2>1
  <2>3. CASE p \in 1..n /\ q \in 1..n
    <3>1. order[p] \in L(i) /\ order[q] \in L(j) /\ i \in DOMAIN levels /\ j \in DOMAIN levels
      BY <1>8, <1>9, <1>10, <1>16, <2>2, <2>3
    <3>2. Goes(p, q)
      BY <1>9, <1>16, <2>3 DEF Leveled
    <3> QED
      BY <1>9, <2>3, <3>1, <3>2 DEF Goes
  <2>4. CASE p \in 1..n /\ q \notin 1..n
    <3>1. i \in 1..l /\ j = l + 1
      BY <1>8, <2>2, <2>4
    <3> QED
      BY <3>1
  <2>5. CASE p \notin 1..n
    <3>1. q \notin 1..n /\ i = l + 1 /\ j = l + 1
      BY <1>8, <1>16, <2>2, <2>5
    <3>2. /\ p - n \in DOMAIN current /\ order'[p] = current[p - n]
          /\ q - n \in DOMAIN current /\ order'[q] = current[q - n]
      BY <1>9, <2>5, <3>1
    <3>3. p - n < q - n
      BY <1>16
    <3> QED
      BY <1>2, <3>1, <3>2, <3>3 DEF Ascending
  <2> QED
    BY <2>3, <2>4, <2>5
<1>17. \A t \in Range(current') : \E d \in Dependencies(t)' : d \in M(l + 1)
  BY <1>3, <1>4, <1>5, <1>10, <1>14 DEF Dependencies
<1>18. \A i \in 1..l+1 : M(i) # {}
  BY <1>7, <1>8, <1>10 DEF Leveled
<1>19. \A i \in DOMAIN levels' : \A t \in Range(levels'[i]) : Stands(t, i)'
  BY <1>8, <1>14, <1>15 DEF Stands
<1>20. \A p, q \in DOMAIN order' : p < q => Goes(p, q)'
  BY <1>8, <1>9, <1>16 DEF Goes
<1> QED
  BY <1>4, <1>8, <1>12, <1>13, <1>17, <1>18, <1>19, <1>20 DEF Leveled, Ascending

-----------------------------------------------------------------------------
(* The depth *)

LEMMA GreatestIs ==
    ASSUME NEW S \in SUBSET (0..N), S # {}
    PROVE  Max(S) \in S /\ \A k \in S : k <= Max(S)
<1> DEFINE T == {N - k : k \in S}
<1>0. N \in Nat
  BY IdIsFinite
<1>1. T \in SUBSET Nat /\ T # {}
  <2>1. \A k \in S : N - k \in Nat
    BY <1>0
  <2> QED
    BY <2>1
<1>2. PICK n \in T : \A k \in T : n <= k
  <2> HIDE DEF T
  <2> QED
    BY <1>1, LeastIs
<1>3. PICK m \in S : n = N - m
  BY <1>2
<1>4. ASSUME NEW k \in S PROVE m >= k
  <2>1. N - m <= N - k
    BY <1>2, <1>3
  <2>2. m \in Nat /\ k \in Nat
    BY <1>0
  <2> QED
    BY <1>0, <2>1, <2>2
<1>5. Max(S) \in S /\ \A y \in S : Max(S) >= y
  BY <1>4 DEF Max
<1> QED
  BY <1>0, <1>5

(* The depths seen in one turn more. *)
DepthIn(f, t) == IF Dependencies(t) = {} THEN 0 ELSE 1 + Max({f[d] : d \in Dependencies(t)})

Depths(f) ==
    /\ f[0] = [t \in Id |-> 0]
    /\ \A k \in 1..N : f[k] = [t \in Id |-> DepthIn(f[k - 1], t)]
    /\ \A k \in 0..N : f[k] \in [Id -> 0..k]
    /\ Depth = f[N]

LEMMA DeeperIs ==
    ASSUME NEW k \in 1..N, NEW f \in [Id -> 0..k-1]
    PROVE  \A t \in Id : DepthIn(f, t) \in 0..k
<1> SUFFICES ASSUME NEW t \in Id, Dependencies(t) # {} PROVE DepthIn(f, t) \in 0..k
  BY IdIsFinite DEF DepthIn
<1> DEFINE S == {f[d] : d \in Dependencies(t)}
<1>1. N \in Nat /\ Dependencies(t) \subseteq Id /\ 0..k-1 \subseteq 0..N
  BY IdIsFinite DEF Dependencies
<1>2. S \in SUBSET (0..N) /\ S # {} /\ S \subseteq 0..k-1
  BY <1>1
<1>3. Max(S) \in 0..k-1
  <2> HIDE DEF S
  <2> QED
    BY <1>2, GreatestIs
<1>4. DepthIn(f, t) = 1 + Max(S)
  BY DEF DepthIn
<1> HIDE DEF S
<1> QED
  BY <1>1, <1>3, <1>4

LEMMA DepthsAre == \E f : Depths(f)
<1> DEFINE V == [Id -> 0..N]
           zero == [t \in Id |-> 0]
           Deeper(f) == [t \in Id |-> DepthIn(f, t)]
           G == [f \in V |-> IF Deeper(f) \in V THEN Deeper(f) ELSE f]
           Turn(f, k) == [t \in Id |->
                            IF k = 0 \/ Dependencies(t) = {} THEN 0
                            ELSE 1 + Max({f[k - 1][d] : d \in Dependencies(t)})]
           r == CHOOSE f : f = [k \in 0..N |-> Turn(f, k)]
<1>0. N \in Nat /\ \A k \in 1..N : k \in 0..N /\ k # 0 /\ k - 1 \in 0..N
  BY IdIsFinite
<1>1. zero \in V
  BY <1>0
<1>2. G \in [V -> V] /\ \A f \in V : Deeper(f) \in V => G[f] = Deeper(f)
  <2> HIDE DEF V, Deeper
  <2> QED
    OBVIOUS
<1>3. Depth = r[N]
  BY DEF Depth
<1> HIDE DEF G
<1>4. PICK f : Iterates(V, zero, G, f)
  <2> HIDE DEF V, zero
  <2> QED
    BY <1>1, <1>2, Iteration
<1>5. f[0] = zero /\ f \in [0..N -> V] /\ \A k \in 1..N : f[k] = G[f[k - 1]]
  BY <1>4 DEF Iterates
<1> DEFINE S == {k \in 0..N : f[k] \in [Id -> 0..k]}
<1>6. ASSUME NEW n \in 1..N, f[n - 1] \in [Id -> 0..n-1]
      PROVE  f[n] = Deeper(f[n - 1]) /\ f[n] \in [Id -> 0..n]
  <2>1. \A t \in Id : DepthIn(f[n - 1], t) \in 0..n
    BY <1>6, DeeperIs
  <2>2. Deeper(f[n - 1]) \in [Id -> 0..n]
    BY <2>1
  <2>3. 0..n \subseteq 0..N
    BY <1>0
  <2>4. Deeper(f[n - 1]) \in V
    BY <2>2, <2>3
  <2> HIDE DEF Deeper, V
  <2>5. f[n - 1] \in V
    BY <1>0, <1>5
  <2> QED
    BY <1>2, <1>5, <2>2, <2>4, <2>5
<1>7. \A k \in 0..N : k \in S
  <2>1. 0 \in S
    BY <1>0, <1>5
  <2>2. ASSUME NEW n \in 1..N, n - 1 \in S PROVE n \in S
    BY <1>0, <1>6, <2>2
  <2> HIDE DEF S
  <2> QED
    BY <2>1, <2>2, Induction
<1>8. \A k \in 0..N : f[k] \in [Id -> 0..k]
  BY <1>7
<1>9. \A k \in 1..N : f[k] = Deeper(f[k - 1])
  <2> HIDE DEF Deeper
  <2> QED
    BY <1>0, <1>6, <1>8
<1>10. ASSUME NEW k \in 0..N PROVE f[k] = Turn(f, k)
  <2>1. CASE k = 0
    BY <1>5, <2>1
  <2>2. CASE k # 0
    <3>1. k \in 1..N
      BY <1>0, <2>2
    <3>2. f[k] = Deeper(f[k - 1])
      BY <1>9, <3>1
    <3>3. \A t \in Id : DepthIn(f[k - 1], t)
                           = IF k = 0 \/ Dependencies(t) = {} THEN 0
                             ELSE 1 + Max({f[k - 1][d] : d \in Dependencies(t)})
      BY <2>2 DEF DepthIn
    <3> QED
      BY <3>2, <3>3
  <2> QED
    BY <2>1, <2>2
<1>11. f = [k \in 0..N |-> Turn(f, k)]
  <2> HIDE DEF Turn
  <2> QED
    BY <1>5, <1>10
<1>12. r = [k \in 0..N |-> Turn(r, k)]
  <2> HIDE DEF Turn
  <2> QED
    BY <1>11
<1> DEFINE Q == {k \in 0..N : r[k] = f[k]}
<1>13. \A k \in 0..N : r[k] = Turn(r, k) /\ f[k] = Turn(f, k)
  <2> HIDE DEF Turn, r
  <2> QED
    BY <1>10, <1>12
<1> HIDE DEF r
<1>14. \A k \in 0..N : k \in Q
  <2>1. 0 \in Q
    <3>1. Turn(r, 0) = zero /\ Turn(f, 0) = zero /\ 0 \in 0..N
      BY <1>0
    <3> HIDE DEF Turn, zero
    <3> QED
      BY <1>13, <3>1
  <2>2. ASSUME NEW n \in 1..N, n - 1 \in Q PROVE n \in Q
    <3>1. r[n - 1] = f[n - 1]
      BY <2>2
    <3>2. Turn(r, n) = Turn(f, n)
      BY <3>1
    <3> HIDE DEF Turn
    <3> QED
      BY <1>0, <1>13, <3>2
  <2> HIDE DEF Q
  <2> QED
    BY <2>1, <2>2, Induction
<1>15. Depth = f[N]
  BY <1>0, <1>3, <1>14
<1> QED
  BY <1>5, <1>8, <1>9, <1>15 DEF Depths

(* There are no more levels than steps. *)
LEMMA LevelsBound ==
    ASSUME Counted, Leveled
    PROVE  Len(levels) \in Nat /\ DOMAIN levels = 1..Len(levels) /\ Len(levels) <= N
<1>1. levels \in Seq(Seq(Id))
  BY DEF Leveled
<1>2. PICK l \in Nat : l = Len(levels) /\ DOMAIN levels = 1..l
  BY <1>1
<1> DEFINE g == [i \in 1..l |-> CHOOSE t \in Id : t \in Range(levels[i])]
<1>3. ASSUME NEW i \in 1..l PROVE g[i] \in Id /\ g[i] \in Range(levels[i])
  <2>1. Range(levels[i]) # {} /\ Range(levels[i]) \subseteq Range(order)
    BY <1>2 DEF Leveled
  <2>2. Range(order) \subseteq Id
    BY DEF Counted, Range
  <2>3. \E t \in Id : t \in Range(levels[i])
    BY <2>1, <2>2
  <2> QED
    BY <2>3
<1> HIDE DEF g
<1>4. g \in [1..l -> Id]
  BY <1>3 DEF g
<1>5. \A i, j \in 1..l : g[i] = g[j] => i = j
  BY <1>2, <1>3 DEF Leveled
<1>6. g \in Injection(1..l, Id)
  BY <1>4, <1>5 DEF Injection, IsInjective
<1>7. Cardinality(1..l) <= N
  BY <1>6, IdIsFinite, FS_Injection
<1>8. Cardinality(1..l) = l
  BY FS_Interval
<1> QED
  BY <1>2, <1>7, <1>8

(* The depth of a step is the number of levels below its own.              *)
LEMMA DepthOfLevel ==
    ASSUME Counted, Leveled, NEW i \in DOMAIN levels, NEW t \in Range(levels[i])
    PROVE  Depth[t] = i - 1
<1>1. PICK f : Depths(f)
  BY DepthsAre
<1>2. PICK l \in Nat : DOMAIN levels = 1..l /\ l <= N
  BY LevelsBound
<1>3. N \in Nat
  BY IdIsFinite
<1> DEFINE Fit(k) == \A j \in 1..l : j - 1 <= k => \A u \in Range(levels[j]) : f[k][u] = j - 1
           S == {k \in 0..N : Fit(k)}
<1>4. ASSUME NEW j \in 1..l, NEW u \in Range(levels[j])
      PROVE  /\ u \in Id /\ Dependencies(u) \subseteq Id
             /\ \A d \in Dependencies(u) : \E k \in 1..j-1 : d \in Range(levels[k])
             /\ j > 1 => \E d \in Dependencies(u) : d \in Range(levels[j - 1])
  <2>1. u \in Id
    <3>1. Range(levels[j]) \subseteq Range(order)
      BY <1>2 DEF Leveled
    <3>2. Range(order) \subseteq Id
      BY DEF Counted, Range
    <3> QED
      BY <3>1, <3>2
  <2>2. Stands(u, j)
    BY <1>2 DEF Leveled
  <2> QED
    BY <2>1, <2>2 DEF Stands, Dependencies
<1>5. 0 \in S
  <2>1. ASSUME NEW j \in 1..l, j - 1 <= 0, NEW u \in Range(levels[j]) PROVE f[0][u] = j - 1
    <3>1. j = 1 /\ u \in Id /\ f[0][u] = 0
      BY <1>1, <1>2, <1>4, <2>1 DEF Depths
    <3> QED
      BY <3>1
  <2> QED
    BY <1>3, <2>1
<1>6. ASSUME NEW n \in 1..N, n - 1 \in S PROVE n \in S
  <2> SUFFICES ASSUME NEW j \in 1..l, j - 1 <= n, NEW u \in Range(levels[j])
               PROVE  f[n][u] = j - 1
    BY <1>3
  <2>1. /\ u \in Id /\ Dependencies(u) \subseteq Id
        /\ \A d \in Dependencies(u) : \E k \in 1..j-1 : d \in Range(levels[k])
        /\ j > 1 => \E d \in Dependencies(u) : d \in Range(levels[j - 1])
    BY <1>4
  <2>2. f[n][u] = DepthIn(f[n - 1], u)
    BY <1>1, <2>1 DEF Depths
  <2>3. n - 1 \in 0..N /\ n - 1 \in Nat /\ f[n - 1] \in [Id -> 0..n-1] /\ Fit(n - 1)
    BY <1>1, <1>3, <1>6 DEF Depths
  <2>4. CASE j = 1
    <3>1. Dependencies(u) = {}
      BY <2>1, <2>4
    <3> QED
      BY <2>2, <2>4, <3>1 DEF DepthIn
  <2>5. CASE j > 1
    <3> DEFINE T == {f[n - 1][d] : d \in Dependencies(u)}
    <3>1. \A d \in Dependencies(u) : f[n - 1][d] <= j - 2 /\ f[n - 1][d] \in 0..N
      <4> SUFFICES ASSUME NEW d \in Dependencies(u)
                   PROVE  f[n - 1][d] <= j - 2 /\ f[n - 1][d] \in 0..N
        OBVIOUS
      <4>1. PICK k \in 1..j-1 : d \in Range(levels[k])
        BY <2>1
      <4>2. k \in 1..l /\ k - 1 <= n - 1 /\ k - 1 <= j - 2 /\ k - 1 \in 0..N
        BY <1>2, <1>3, <2>3
      <4>3. f[n - 1][d] = k - 1
        BY <2>3, <4>1, <4>2
      <4> QED
        BY <4>2, <4>3
    <3>2. \E d \in Dependencies(u) : f[n - 1][d] = j - 2
      <4>1. PICK d \in Dependencies(u) : d \in Range(levels[j - 1])
        BY <2>1, <2>5
      <4>2. j - 1 \in 1..l /\ (j - 1) - 1 <= n - 1 /\ (j - 1) - 1 = j - 2
        BY <1>2, <2>3, <2>5
      <4> QED
        BY <2>3, <4>1, <4>2
    <3>3. T \in SUBSET (0..N) /\ T # {} /\ j - 2 \in T /\ \A x \in T : x <= j - 2
      BY <3>1, <3>2
    <3>4. Max(T) = j - 2
      <4> HIDE DEF T
      <4>1. Max(T) \in T /\ j - 2 <= Max(T)
        BY <3>3, GreatestIs
      <4>2. PICK m \in 0..N : m = Max(T) /\ m <= j - 2 /\ j - 2 <= m
        BY <3>3, <4>1
      <4> QED
        BY <4>2
    <3>5. DepthIn(f[n - 1], u) = 1 + Max(T)
      BY <3>2 DEF DepthIn
    <3> QED
      BY <2>2, <3>4, <3>5
  <2> QED
    BY <2>4, <2>5
<1>7. N \in S
  <2>1. N \in 0..N
    BY <1>3
  <2> HIDE DEF S
  <2> QED
    BY <1>5, <1>6, <2>1, Induction
<1>8. i \in 1..l /\ i - 1 <= N
  BY <1>2, <1>3
<1>9. f[N][t] = i - 1
  BY <1>7, <1>8
<1> QED
  BY <1>1, <1>9 DEF Depths

(* A full order is the canonical one. *)
LEMMA FullOrderIsCanonical ==
    ASSUME Counted, Leveled, Range(order) = Id
    PROVE  /\ \A p, q \in DOMAIN order : p < q => Before(order[p], order[q])
           /\ \A i \in DOMAIN levels : Range(levels[i]) = {t \in Id : Depth[t] = i - 1}
<1>1. DOMAIN levels \subseteq Int
  BY LevelsBound
<1>2. \A t \in Id : \E i \in DOMAIN levels : t \in Range(levels[i])
  BY DEF Leveled
<1>3. \A i \in DOMAIN levels : \A t \in Range(levels[i]) : Depth[t] = i - 1
  BY DepthOfLevel
<1>4. ASSUME NEW p \in DOMAIN order, NEW q \in DOMAIN order, p < q
      PROVE  Before(order[p], order[q])
  <2>1. order[p] \in Id /\ order[q] \in Id
    BY DEF Range
  <2>2. PICK i \in DOMAIN levels : order[p] \in Range(levels[i])
    BY <1>2, <2>1
  <2>3. PICK j \in DOMAIN levels : order[q] \in Range(levels[j])
    BY <1>2, <2>1
  <2>4. i < j \/ (i = j /\ order[p] < order[q])
    BY <1>4, <2>2, <2>3 DEF Leveled, Goes
  <2>5. Depth[order[p]] = i - 1 /\ Depth[order[q]] = j - 1
    BY <1>3, <2>2, <2>3
  <2> QED
    BY <1>1, <2>4, <2>5 DEF Before
<1>5. ASSUME NEW i \in DOMAIN levels
      PROVE  Range(levels[i]) = {t \in Id : Depth[t] = i - 1}
  <2>1. Range(levels[i]) \subseteq Id
    BY DEF Leveled
  <2>2. ASSUME NEW t \in Id, Depth[t] = i - 1 PROVE t \in Range(levels[i])
    <3>1. PICK j \in DOMAIN levels : t \in Range(levels[j])
      BY <1>2
    <3>2. i = j
      BY <1>1, <1>3, <2>2, <3>1
    <3> QED
      BY <3>1, <3>2
  <2> QED
    BY <1>3, <2>1, <2>2
<1> QED
  BY <1>4, <1>5

-----------------------------------------------------------------------------
(* The faults *)

LEMMA MinIsIn ==
    ASSUME NEW S \in SUBSET Id, S # {}
    PROVE  Min(S) \in S
<1>1. S \in SUBSET Nat
  BY IdIsFinite
<1> QED
  BY <1>1, LeastIs

LEMMA FirstFault ==
    ASSUME NEW faults
    PROVE  FirstInSteps(faults) = Null <=> \A i \in Id : faults[i] = Null
<1> DEFINE faulty == {i \in Id : faults[i] # Null}
<1>1. CASE faulty = {}
  BY <1>1 DEF FirstInSteps
<1>2. CASE faulty # {}
  <2>1. Min(faulty) \in faulty
    BY <1>2, MinIsIn
  <2>2. FirstInSteps(faults) = faults[Min(faulty)]
    BY <1>2 DEF FirstInSteps
  <2> QED
    BY <2>1, <2>2
<1> QED
  BY <1>1, <1>2

(* No value is mistaken for an absent field, or for no fault. *)
LEMMA NotAbsent ==
    /\ Null # Bad /\ Null \notin FaultCode /\ Null \notin StepDefinition
    /\ \A absent \in {Null, Bad} :
          /\ absent \notin IdName /\ absent \notin Int /\ absent \notin BOOLEAN
          /\ absent \notin SideEffect /\ absent \notin EvidenceMode
          /\ absent \notin {"mapping", "NEVER", "ONCE", "BOUNDED", "argv", "blank_item",
                            "positive", "nonpositive", "inside", "outside", "distinct", "repeated"}
          /\ absent \notin SUBSET ErrorName /\ absent \notin [IdName -> 0..Repeats]
  BY AbsenceAssumption

(* What StepFault lets pass. *)
Passes(raw) ==
    /\ raw.shape # Bad /\ raw.retry # Bad
    /\ raw.id # Bad /\ raw.command = "argv" /\ raw.timeout \notin {"nonpositive", Bad}
    /\ raw.depends_on # Bad /\ raw.paths # Bad /\ raw.env # Bad /\ raw.side_effect # Bad
    /\ raw.mode # Bad /\ raw.max_attempts # Bad /\ raw.retryable_errors # Bad
    /\ raw.retryable_errors \subseteq FailureKind
    /\ raw.evidence # Bad /\ raw.require_confirmation # Bad
    /\ PolicyIsValid(RetryOf(raw))

LEMMA StepPasses ==
    ASSUME NEW raw \in RawStep
    PROVE  StepFault(raw) = Null <=> Passes(raw)
<1>1. raw.command \in {"argv", "blank_item", Bad}
  BY DEF RawStep
<1> QED
  BY <1>1, NotAbsent DEF StepFault, Passes, FaultCode

LEMMA PolicyIs ==
    ASSUME NEW raw \in RawStep, raw.mode # Bad, raw.max_attempts # Bad, raw.retryable_errors # Bad
    PROVE  /\ PolicyIsValid(RetryOf(raw)) /\ raw.retryable_errors \subseteq FailureKind
           <=> RetryOf(raw) \in RetryPolicy
<1>1. raw.mode \in {"NEVER", "ONCE", "BOUNDED", Null} /\ raw.max_attempts \in Int \cup {Null}
  BY DEF RawStep
<1> DEFINE mode == Or(raw.mode, "NEVER")
           m == Or(raw.max_attempts, CASE mode = "NEVER" -> 1 [] mode = "ONCE" -> 2 [] OTHER -> 3)
<1>2. mode \in {"NEVER", "ONCE", "BOUNDED"} /\ m \in Int
  BY <1>1 DEF Or
<1>3. RetryOf(raw) = [mode |-> mode, retryable_errors |-> raw.retryable_errors,
                      max_attempts |-> m]
  BY DEF RetryOf
<1> HIDE DEF mode, m
<1> QED
  BY <1>1, <1>2, <1>3 DEF PolicyIsValid, RetryPolicy

-----------------------------------------------------------------------------
(* What is accepted *)

Six ==
    {"unreadable", "not_a_mapping", "unknown_field", "schema_version_type", "name_type",
     "steps_type"}
Three == {"schema_version", "blank_name", "no_steps"}

LEMMA StepsAreRaw ==
    ASSUME file \in File
    PROVE  \A i \in Id : file.steps[i] \in RawStep
BY DEF File

LEMMA FileIsRead ==
    ASSUME file \in File
    PROVE  FileFault = Null <=> /\ Six \cap file.header = {}
                               /\ \A i \in Id : Passes(file.steps[i])
<1> DEFINE found == FirstInSteps([i \in Id |-> StepFault(file.steps[i])])
<1>1. found = Null <=> \A i \in Id : Passes(file.steps[i])
  <2>1. found = Null <=> \A i \in Id : StepFault(file.steps[i]) = Null
    <3> DEFINE faults == [i \in Id |-> StepFault(file.steps[i])]
    <3>1. \A i \in Id : faults[i] = StepFault(file.steps[i])
      OBVIOUS
    <3> HIDE DEF faults
    <3>2. FirstInSteps(faults) = Null <=> \A i \in Id : faults[i] = Null
      BY FirstFault
    <3>3. found = FirstInSteps(faults)
      BY DEF faults
    <3> QED
      BY <3>1, <3>2, <3>3
  <2> QED
    BY <2>1, StepsAreRaw, StepPasses
<1>2. FileFault = IF "unreadable" \in file.header THEN "RUNBOOK_READ_ERROR"
                  ELSE IF "not_a_mapping" \in file.header THEN "INVALID_FIELD_TYPE"
                  ELSE IF "unknown_field" \in file.header THEN "UNKNOWN_FIELD"
                  ELSE IF "schema_version_type" \in file.header THEN "INVALID_SCHEMA_VERSION"
                  ELSE IF "name_type" \in file.header THEN "MISSING_RUNBOOK_NAME"
                  ELSE IF "steps_type" \in file.header THEN "INVALID_STEPS"
                  ELSE found
  BY DEF FileFault
<1> HIDE DEF found
<1>3. \A c \in {"RUNBOOK_READ_ERROR", "INVALID_FIELD_TYPE", "UNKNOWN_FIELD", "INVALID_SCHEMA_VERSION",
               "MISSING_RUNBOOK_NAME", "INVALID_STEPS"} : c # Null
  BY NotAbsent DEF FaultCode
<1>4. FileFault = Null <=> Six \cap file.header = {} /\ found = Null
  BY <1>2, <1>3 DEF Six
<1> QED
  BY <1>1, <1>4

(* What DefinitionFault lets pass. *)
Sound(raw) ==
    /\ raw.id # Odd /\ ~UnknownDependency(raw)
    /\ raw.paths # "outside" /\ raw.env # "repeated"

LEMMA BookIsValid ==
    BookFault = Null <=> /\ Three \cap file.header = {}
                         /\ Cardinality({file.steps[i].id : i \in Id}) = N
                         /\ \A i \in Id : Sound(file.steps[i])
<1> DEFINE faults == [i \in Id |-> DefinitionFault(file.steps[i])]
           found == FirstInSteps(faults)
<1>1. \A c \in {"UNSUPPORTED_SCHEMA_VERSION", "INVALID_RUNBOOK_NAME", "NO_STEPS",
               "DUPLICATE_STEP_ID", "INVALID_STEP_ID", "UNKNOWN_DEPENDENCY",
               "PATH_OUTSIDE_ROOT", "DUPLICATE_ENV_NAME"} : c # Null
  BY NotAbsent DEF FaultCode
<1>2. \A raw : DefinitionFault(raw) = Null <=> Sound(raw)
  BY <1>1 DEF DefinitionFault, Sound
<1>3. found = Null <=> \A i \in Id : Sound(file.steps[i])
  <2>1. \A i \in Id : faults[i] = DefinitionFault(file.steps[i])
    OBVIOUS
  <2> HIDE DEF faults
  <2>2. found = Null <=> \A i \in Id : faults[i] = Null
    BY FirstFault
  <2> QED
    BY <1>2, <2>1, <2>2
<1>4. BookFault = IF "schema_version" \in file.header THEN "UNSUPPORTED_SCHEMA_VERSION"
                  ELSE IF "blank_name" \in file.header THEN "INVALID_RUNBOOK_NAME"
                  ELSE IF "no_steps" \in file.header THEN "NO_STEPS"
                  ELSE IF Cardinality({file.steps[i].id : i \in Id}) # N
                       THEN "DUPLICATE_STEP_ID"
                  ELSE found
  BY DEF BookFault
<1> HIDE DEF found
<1> QED
  BY <1>1, <1>3, <1>4 DEF Three

(* As many different identifiers as steps, and each between 1 and N: each  *)
(* identifier belongs to one step.                                         *)
LEMMA IdentifiersAre ==
    ASSUME file \in File,
           \A i \in Id : file.steps[i].id # Bad /\ file.steps[i].id # Odd
    PROVE  /\ \A i \in Id : file.steps[i].id \in Id
           /\ Cardinality({file.steps[i].id : i \in Id}) = N <=> {file.steps[i].id : i \in Id} = Id
<1> DEFINE ids == {file.steps[i].id : i \in Id}
<1>1. \A i \in Id : file.steps[i].id \in Id
  <2> SUFFICES ASSUME NEW i \in Id PROVE file.steps[i].id \in Id
    OBVIOUS
  <2>1. file.steps[i].id \in (IdName \ {Nobody}) \cup {Bad}
    BY StepsAreRaw DEF RawStep
  <2> QED
    BY <2>1 DEF IdName
<1>2. ids \in SUBSET Id
  BY <1>1
<1> HIDE DEF ids
<1>3. Cardinality(ids) = N <=> ids = Id
  BY <1>2, IdIsFinite, FS_Subset
<1> QED
  BY <1>1, <1>3 DEF ids

LEMMA IndexIs ==
    ASSUME file \in File, {file.steps[i].id : i \in Id} = Id
    PROVE  /\ \A s \in Id : Index(s) \in Id /\ file.steps[Index(s)].id = s
           /\ \A i \in Id : file.steps[i].id \in Id /\ Index(file.steps[i].id) = i
<1> DEFINE g == [i \in Id |-> file.steps[i].id]
<1>1. ASSUME NEW s \in Id PROVE Index(s) \in Id /\ file.steps[Index(s)].id = s
  <2>1. \E i \in Id : file.steps[i].id = s
    OBVIOUS
  <2> QED
    BY <2>1 DEF Index
<1>2. g \in [Id -> Id] /\ \A s \in Id : \E i \in Id : g[i] = s
  BY <1>1
<1>3. g \in Surjection(Id, Id)
  <2> HIDE DEF g
  <2> QED
    BY <1>2 DEF Surjection
<1>4. g \in Injection(Id, Id)
  <2> HIDE DEF g
  <2> QED
    BY <1>3, IdIsFinite, FS_Surjection
<1>5. \A i, j \in Id : g[i] = g[j] => i = j
  <2> HIDE DEF g
  <2> QED
    BY <1>4 DEF Injection, IsInjective
<1>6. ASSUME NEW i \in Id PROVE file.steps[i].id \in Id /\ Index(file.steps[i].id) = i
  <2>1. PICK s \in Id : s = file.steps[i].id
    OBVIOUS
  <2>2. Index(s) \in Id /\ file.steps[Index(s)].id = s
    BY <1>1
  <2>3. g[Index(s)] = g[i]
    BY <2>1, <2>2
  <2> QED
    BY <1>5, <2>1, <2>2, <2>3
<1> QED
  BY <1>1, <1>6

(* A raw step with every field typed. *)
LEMMA TypedFields ==
    ASSUME NEW raw \in RawStep
    PROVE  (\A f \in DOMAIN raw : raw[f] # Bad) <=>
              /\ raw.shape # Bad /\ raw.retry # Bad
              /\ raw.id # Bad /\ raw.command # Bad /\ raw.timeout # Bad
              /\ raw.depends_on # Bad /\ raw.paths # Bad /\ raw.env # Bad
              /\ raw.side_effect # Bad /\ raw.mode # Bad /\ raw.max_attempts # Bad
              /\ raw.retryable_errors # Bad /\ raw.evidence # Bad
              /\ raw.require_confirmation # Bad
<1>1. DOMAIN raw = {"shape", "id", "command", "depends_on", "paths", "env", "timeout",
                    "side_effect", "retry", "mode", "max_attempts", "retryable_errors",
                    "evidence", "require_confirmation", "unknown_keys"}
  BY DEF RawStep
<1>2. raw.unknown_keys # Bad
  BY NotAbsent DEF RawStep
<1> QED
  BY <1>1, <1>2

(* A step that both checks let pass. *)
LEMMA StepIsSound ==
    ASSUME NEW raw \in RawStep, raw.id \in Id,
           \A d \in Id : \E i \in Id : file.steps[i].id = d,
           \A i \in Id : file.steps[i].id \in Id
    PROVE  Passes(raw) /\ Sound(raw) <=>
              /\ \A f \in DOMAIN raw : raw[f] # Bad
              /\ raw.command = "argv" /\ raw.timeout # "nonpositive"
              /\ raw.paths = "inside" /\ raw.env = "distinct"
              /\ \A d \in {Odd, Nobody} : raw.depends_on[d] = 0
              /\ RetryOf(raw) \in RetryPolicy
<1>1. Odd \notin Id /\ Nobody \notin Id /\ IdName = {Odd, Nobody} \cup Id
  BY IdIsFinite DEF Odd, Nobody, Id, IdName
<1>2. raw.depends_on # Bad =>
         (~UnknownDependency(raw) <=> \A d \in {Odd, Nobody} : raw.depends_on[d] = 0)
  <2> SUFFICES ASSUME raw.depends_on # Bad
               PROVE  ~UnknownDependency(raw) <=> \A d \in {Odd, Nobody} : raw.depends_on[d] = 0
    OBVIOUS
  <2>1. raw.depends_on \in [IdName -> 0..Repeats]
    BY DEF RawStep
  <2>2. \A d \in IdName : raw.depends_on[d] \in Nat
    BY <2>1, IdIsFinite
  <2>3. UnknownDependency(raw) <=> \E d \in {Odd, Nobody} : raw.depends_on[d] > 0
    BY <1>1 DEF UnknownDependency
  <2> QED
    BY <1>1, <2>2, <2>3
<1>3. raw.paths \in {"inside", "outside", Bad} /\ raw.env \in {"distinct", "repeated", Bad}
  BY DEF RawStep
<1>4. Bad \notin {"argv", "inside", "outside", "distinct", "repeated"}
  BY NotAbsent
<1>5. /\ raw.paths = "inside" <=> raw.paths # Bad /\ raw.paths # "outside"
      /\ raw.env = "distinct" <=> raw.env # Bad /\ raw.env # "repeated"
  BY <1>3, <1>4
<1>6. raw.id # Odd /\ raw.id # Bad
  BY <1>1, NotAbsent
<1>7. raw.command = "argv" => raw.command # Bad
  BY <1>4
<1>8. raw.timeout \notin {"nonpositive", Bad} <=> raw.timeout # "nonpositive" /\ raw.timeout # Bad
  OBVIOUS
<1> QED
  BY <1>2, <1>5, <1>6, <1>7, <1>8, TypedFields, PolicyIs DEF Passes, Sound

(* The two checks refuse a file exactly when something is wrong with it.   *)
LEMMA FaultlessIs ==
    ASSUME file \in File
    PROVE  Faultless <=> FileFault = Null /\ BookFault = Null
<1>1. file.header \subseteq HeaderFault /\ HeaderFault = Six \cup Three
  BY DEF File, HeaderFault, Six, Three
<1>2. file.header = {} <=> Six \cap file.header = {} /\ Three \cap file.header = {}
  BY <1>1
<1> DEFINE ids == {file.steps[i].id : i \in Id}
<1>3. Faultless <=> /\ file.header = {} /\ ids = Id
                    /\ \A i \in Id : Passes(file.steps[i]) /\ Sound(file.steps[i])
  <2>1. Faultless => ids = Id
    BY DEF Faultless
  <2> SUFFICES ASSUME ids = Id
               PROVE  Faultless <=> /\ file.header = {}
                                    /\ \A i \in Id : Passes(file.steps[i]) /\ Sound(file.steps[i])
    BY <2>1
  <2>2. /\ \A d \in Id : \E i \in Id : file.steps[i].id = d
        /\ \A i \in Id : file.steps[i].id \in Id
    OBVIOUS
  <2> HIDE DEF ids
  <2>3. \A i \in Id : file.steps[i] \in RawStep
    BY StepsAreRaw
  <2>4. \A i \in Id :
           Passes(file.steps[i]) /\ Sound(file.steps[i]) <=>
              /\ \A f \in DOMAIN file.steps[i] : file.steps[i][f] # Bad
              /\ file.steps[i].command = "argv" /\ file.steps[i].timeout # "nonpositive"
              /\ file.steps[i].paths = "inside" /\ file.steps[i].env = "distinct"
              /\ \A d \in {Odd, Nobody} : file.steps[i].depends_on[d] = 0
              /\ RetryOf(file.steps[i]) \in RetryPolicy
    BY <2>2, <2>3, StepIsSound
  <2>5. {file.steps[i].id : i \in Id} = Id
    BY DEF ids
  <2> QED
    BY <2>4, <2>5 DEF Faultless
<1>4. ASSUME \A i \in Id : Passes(file.steps[i]) /\ Sound(file.steps[i])
      PROVE  Cardinality(ids) = N <=> ids = Id
  BY <1>4, IdentifiersAre DEF Passes, Sound
<1>5. ids = Id => Cardinality(ids) = N
  BY IdIsFinite
<1> HIDE DEF ids
<1>6. FileFault = Null /\ BookFault = Null <=>
         /\ file.header = {} /\ Cardinality(ids) = N
         /\ \A i \in Id : Passes(file.steps[i]) /\ Sound(file.steps[i])
  BY <1>2, FileIsRead, BookIsValid DEF ids
<1> QED
  BY <1>3, <1>4, <1>5, <1>6

-----------------------------------------------------------------------------
(* The graph and the book *)

GraphOf == [s \in Id |-> [d \in Id |-> file.steps[Index(s)].depends_on[d]]]

(* A step of a faultless file. *)
LEMMA SoundSteps ==
    ASSUME file \in File, Faultless
    PROVE  /\ {file.steps[i].id : i \in Id} = Id
           /\ \A s \in Id : /\ Index(s) \in Id /\ file.steps[Index(s)] \in RawStep
                           /\ file.steps[Index(s)].depends_on \in [IdName -> 0..Repeats]
<1>1. {file.steps[i].id : i \in Id} = Id
  BY DEF Faultless
<1>2. ASSUME NEW s \in Id
      PROVE  /\ Index(s) \in Id /\ file.steps[Index(s)] \in RawStep
             /\ file.steps[Index(s)].depends_on \in [IdName -> 0..Repeats]
  <2>1. Index(s) \in Id /\ file.steps[Index(s)] \in RawStep
    BY <1>1, IndexIs, StepsAreRaw
  <2>2. PICK raw \in RawStep : raw = file.steps[Index(s)]
    BY <2>1
  <2>3. \A f \in DOMAIN raw : raw[f] # Bad
    BY <2>1, <2>2 DEF Faultless
  <2>4. raw.depends_on # Bad
    BY <2>3, TypedFields
  <2>5. raw.depends_on \in [IdName -> 0..Repeats]
    BY <2>4 DEF RawStep
  <2> QED
    BY <2>1, <2>2, <2>5
<1> QED
  BY <1>1, <1>2

LEMMA GraphIs ==
    ASSUME file \in File, Faultless
    PROVE  GraphOf \in Graph
<1>1. \A s \in Id : file.steps[Index(s)].depends_on \in [IdName -> 0..Repeats]
  BY SoundSteps
<1>2. Id \subseteq IdName
  BY DEF IdName
<1>3. \A s, d \in Id : file.steps[Index(s)].depends_on[d] \in 0..Repeats
  BY <1>1, <1>2
<1> QED
  BY <1>3 DEF GraphOf, Graph

LEMMA CycleIsLoop ==
    ASSUME depends_on = GraphOf
    PROVE  HasCycle <=> \E C : C # {} /\ Loop(C)
<1>1. \A s, d \in Id : depends_on[s][d] = file.steps[Index(s)].depends_on[d]
  BY DEF GraphOf
<1> QED
  BY <1>1 DEF HasCycle, Loop

LEMMA LoadedSteps ==
    ASSUME file \in File, Faultless, NEW s \in Id
    PROVE  /\ Loaded(file.steps[Index(s)]) \in StepDefinition
           /\ Loaded(file.steps[Index(s)]).depends_on
                 = {d \in Id : file.steps[Index(s)].depends_on[d] > 0}
<1>1. PICK raw \in RawStep : raw = file.steps[Index(s)] /\ Index(s) \in Id
  BY SoundSteps
<1>2. /\ \A f \in DOMAIN raw : raw[f] # Bad
      /\ raw.command = "argv" /\ RetryOf(raw) \in RetryPolicy
      /\ \A d \in {Odd, Nobody} : raw.depends_on[d] = 0
  BY <1>1 DEF Faultless
<1>3. raw.side_effect # Bad /\ raw.evidence # Bad /\ raw.require_confirmation # Bad
  BY <1>2, TypedFields
<1>4. /\ raw.side_effect \in SideEffect \cup {Null} /\ raw.evidence \in EvidenceMode \cup {Null}
      /\ raw.require_confirmation \in BOOLEAN \cup {Null}
  <2>1. raw.side_effect \in SideEffect \cup {Null, Bad}
    BY DEF RawStep
  <2>2. raw.evidence \in EvidenceMode \cup {Null, Bad}
    BY DEF RawStep
  <2>3. raw.require_confirmation \in {TRUE, FALSE, Null, Bad}
    BY DEF RawStep
  <2> QED
    BY <1>3, <2>1, <2>2, <2>3
<1>5. /\ Or(raw.side_effect, "PURE") \in SideEffect
      /\ Or(raw.evidence, "STANDARD") \in EvidenceMode
      /\ Or(raw.require_confirmation, FALSE) \in BOOLEAN
  BY <1>4 DEF Or, SideEffect, EvidenceMode
<1> DEFINE named == {d \in IdName : raw.depends_on[d] > 0}
<1>6. named = {d \in Id : raw.depends_on[d] > 0} /\ named \in SUBSET StepId
  <2>1. IdName = {Odd, Nobody} \cup Id /\ StepId = Id
    BY StepAssumption DEF IdName
  <2>2. \A d \in {Odd, Nobody} : ~(raw.depends_on[d] > 0)
    BY <1>2
  <2> QED
    BY <2>1, <2>2
<1> DEFINE effect == Or(raw.side_effect, "PURE")
           evidence == Or(raw.evidence, "STANDARD")
           confirm == Or(raw.require_confirmation, FALSE)
           retry == RetryOf(raw)
<1>7. Loaded(raw) = [command |-> "argv", depends_on |-> named, inputs |-> {}, outputs |-> {},
                     side_effect |-> effect, retry |-> retry, evidence |-> evidence,
                     require_confirmation |-> confirm]
  BY <1>2 DEF Loaded
<1>8. "argv" \in Command /\ retry \in RetryPolicy
  BY <1>2, StepAssumption
<1> HIDE DEF named, effect, evidence, confirm, retry
<1>9. effect \in SideEffect /\ evidence \in EvidenceMode /\ confirm \in BOOLEAN
  BY <1>5 DEF effect, evidence, confirm
<1>10. Loaded(raw) \in StepDefinition /\ Loaded(raw).depends_on = named
  BY <1>6, <1>7, <1>8, <1>9 DEF StepDefinition
<1> QED
  BY <1>1, <1>6, <1>10

LEMMA LoadedRuns ==
    ASSUME file \in File, Faultless, Counted, depends_on = GraphOf, Len(order) = N
    PROVE  LoadedBook \in Runbook /\ Valid(LoadedBook)
<1> DEFINE declared == [i \in Id |-> file.steps[i].id]
           steps == [s \in Id |-> Loaded(file.steps[Index(s)])]
<1>1. {file.steps[i].id : i \in Id} = Id /\ StepId = Id
  BY SoundSteps, StepAssumption
<1>2. LoadedBook = [name |-> "name", declared |-> declared, order |-> order, steps |-> steps]
  BY <1>1 DEF LoadedBook
<1>3. /\ \A s \in Id : Index(s) \in Id /\ file.steps[Index(s)].id = s
      /\ \A i \in Id : file.steps[i].id \in Id /\ Index(file.steps[i].id) = i
  BY <1>1, IndexIs
<1>4. declared \in Seq(Id)
  BY <1>3, IdIsFinite DEF Id
<1>5. Enumerates(declared, Id)
  <2>1. \A i, j \in Id : file.steps[i].id = file.steps[j].id => i = j
    <3> SUFFICES ASSUME NEW i \in Id, NEW j \in Id, file.steps[i].id = file.steps[j].id PROVE i = j
      OBVIOUS
    <3>1. Index(file.steps[i].id) = i /\ Index(file.steps[j].id) = j
      BY <1>3
    <3> QED
      BY <3>1
  <2> QED
    BY <1>1, <2>1 DEF Enumerates
<1>6. /\ steps \in [Id -> StepDefinition]
      /\ \A s \in Id : steps[s].depends_on = {d \in Id : file.steps[Index(s)].depends_on[d] > 0}
  BY LoadedSteps
<1> HIDE DEF declared, steps
<1>7. order \in Seq(Id) /\ Once(order) /\ Range(order) = Id
  BY FullOrder DEF Counted
<1>8. Enumerates(order, Id)
  BY <1>7 DEF Enumerates, Once, Range
<1>9. \A i \in DOMAIN order : steps[order[i]].depends_on \subseteq {order[k] : k \in 1..i-1}
  <2> SUFFICES ASSUME NEW i \in DOMAIN order, NEW d \in steps[order[i]].depends_on
               PROVE  d \in {order[k] : k \in 1..i-1}
    OBVIOUS
  <2>1. PICK s \in Id : s = order[i]
    BY <1>7
  <2>2. d \in Id /\ file.steps[Index(s)].depends_on[d] > 0
    BY <1>6, <2>1
  <2>3. depends_on[s][d] > 0
    BY <2>2 DEF GraphOf
  <2>4. \E k \in 1..i-1 : order[k] = d
    BY <2>1, <2>2, <2>3 DEF Counted
  <2> QED
    BY <2>4
<1>10. LoadedBook \in Runbook
  BY <1>1, <1>2, <1>4, <1>6, <1>7, StepAssumption DEF Runbook
<1>11. Steps(LoadedBook) = Id
  <2>1. \A s \in Id : steps[s] # Null
    BY <1>6, NotAbsent
  <2> QED
    BY <1>1, <1>2, <2>1 DEF Steps
<1>12. Valid(LoadedBook)
  BY <1>2, <1>5, <1>8, <1>9, <1>11 DEF Valid
<1> QED
  BY <1>10, <1>12

-----------------------------------------------------------------------------
(* The invariant *)

(* What each phase has made sure of. *)
Loading ==
    /\ file \in File
    /\ phase \in {"parse", "validate", "plan", "done"}
    /\ phase # "done" => fault = Null
    /\ phase \in {"parse", "validate"} => verdict = "unplanned" /\ order = <<>> /\ levels = <<>>
    /\ phase \in {"validate", "plan"} => FileFault = Null
    /\ phase = "plan" => /\ BookFault = Null
                         /\ \/ verdict = "unplanned" /\ order = <<>> /\ levels = <<>>
                            \/ /\ verdict = "planning" /\ depends_on = GraphOf
                               /\ Counted /\ Leveled
    /\ phase = "done" => \/ /\ fault # Null /\ ~(FileFault = Null /\ BookFault = Null)
                            /\ verdict = "unplanned"
                         \/ /\ FileFault = Null /\ BookFault = Null
                            /\ Counted /\ Leveled /\ depends_on = GraphOf /\ current = <<>>
                            /\ fault = Null <=> Len(order) = N
                            /\ verdict = IF Len(order) # N THEN "DEPENDENCY_CYCLE" ELSE "PLANNED"

(* Only the file decides on the faults and on the graph. *)
LEMMA FileDecides ==
    ASSUME UNCHANGED file
    PROVE  FileFault' = FileFault /\ BookFault' = BookFault /\ GraphOf' = GraphOf
<1>1. FileFault' = FileFault
  BY DEF FileFault
<1>2. BookFault' = BookFault
  BY DEF BookFault, DefinitionFault, UnknownDependency
<1>3. GraphOf' = GraphOf
  BY DEF GraphOf, Index
<1> QED
  BY <1>1, <1>2, <1>3

LEMMA PlanStays ==
    ASSUME UNCHANGED <<depends_on, indegree, current, order, levels>>
    PROVE  (Counted => Counted') /\ (Leveled => Leveled')
<1>1. \A C : Loop(C)' <=> Loop(C)
  BY DEF Loop
<1>2. Counted => Counted'
  BY <1>1 DEF Counted, Once
<1>3. \A t, i : Stands(t, i)' <=> Stands(t, i)
  BY DEF Stands, Dependencies
<1>4. \A p, q : Goes(p, q)' <=> Goes(p, q)
  BY DEF Goes
<1>5. \A t : Dependencies(t)' = Dependencies(t)
  BY DEF Dependencies
<1>6. Leveled => Leveled'
  BY <1>3, <1>4, <1>5 DEF Leveled, Ascending
<1> QED
  BY <1>2, <1>6

LEMMA LoadingStarts == Init => Loading
<1> SUFFICES ASSUME Init PROVE Loading
  OBVIOUS
<1>1. file \in File
  BY FilesAssumption DEF Init
<1>2. phase = "parse" /\ fault = Null /\ verdict = "unplanned" /\ order = <<>> /\ levels = <<>>
  BY DEF Init, PlanInit
<1> QED
  BY <1>1, <1>2 DEF Loading

LEMMA LoadingGoesOn == Loading /\ [Next]_vars => Loading'
<1> SUFFICES ASSUME Loading, [Next]_vars PROVE Loading'
  OBVIOUS
<1>1. CASE Parse
  <2>1. /\ phase = "parse" /\ UNCHANGED <<file, verdict, order, levels>>
        /\ fault' = FileFault /\ phase' = IF fault' = Null THEN "validate" ELSE "done"
    BY <1>1 DEF Parse, Conclusion, planning
  <2>2. FileFault' = FileFault /\ BookFault' = BookFault
    BY <2>1, FileDecides
  <2>3. file \in File /\ verdict = "unplanned" /\ order = <<>> /\ levels = <<>>
    BY <2>1 DEF Loading
  <2> QED
    BY <2>1, <2>2, <2>3 DEF Loading
<1>2. CASE Validate
  <2>1. /\ phase = "validate" /\ UNCHANGED <<file, verdict, order, levels>>
        /\ fault' = BookFault /\ phase' = IF fault' = Null THEN "plan" ELSE "done"
    BY <1>2 DEF Validate, Conclusion, planning
  <2>2. FileFault' = FileFault /\ BookFault' = BookFault
    BY <2>1, FileDecides
  <2>3. /\ file \in File /\ verdict = "unplanned" /\ order = <<>> /\ levels = <<>>
        /\ FileFault = Null
    BY <2>1 DEF Loading
  <2> QED
    BY <2>1, <2>2, <2>3 DEF Loading
<1>3. CASE StartPlan
  <2>1. phase = "plan" /\ UNCHANGED <<file, phase, fault>> /\ Start(GraphOf)
    BY <1>3 DEF StartPlan, GraphOf
  <2>2. verdict = "unplanned" /\ verdict' = "planning" /\ depends_on' = GraphOf
    BY <2>1 DEF Start
  <2>3. /\ file \in File /\ order = <<>> /\ levels = <<>> /\ fault = Null
        /\ FileFault = Null /\ BookFault = Null
    BY <2>1, <2>2 DEF Loading
  <2>4. FileFault' = FileFault /\ BookFault' = BookFault /\ GraphOf' = GraphOf
    BY <2>1, FileDecides
  <2>5. Counted' /\ Leveled'
    <3>1. GraphOf \in Graph
      BY <2>3, FaultlessIs, GraphIs
    <3> QED
      BY <2>1, <2>3, <3>1, StartCounts, StartLevels
  <2> QED
    BY <2>1, <2>2, <2>3, <2>4, <2>5 DEF Loading
<1>4. CASE EmitLevel
  <2>1. phase = "plan" /\ Emit /\ UNCHANGED <<file, phase, fault>> /\ verdict = "planning"
    BY <1>4 DEF EmitLevel, Emit
  <2>2. /\ file \in File /\ fault = Null /\ FileFault = Null /\ BookFault = Null
        /\ Counted /\ Leveled /\ depends_on = GraphOf
    BY <2>1 DEF Loading
  <2>3. FileFault' = FileFault /\ BookFault' = BookFault /\ GraphOf' = GraphOf
    BY <2>1, FileDecides
  <2>4. Counted' /\ Leveled' /\ UNCHANGED <<depends_on, verdict>>
    BY <2>1, <2>2, EmitCounts, EmitLevels
  <2> QED
    BY <2>1, <2>2, <2>3, <2>4 DEF Loading
<1>5. CASE ConcludePlan
  <2>1. /\ phase = "plan" /\ verdict = "planning" /\ current = <<>>
        /\ phase' = "done" /\ UNCHANGED <<file, depends_on, indegree, current, order, levels>>
        /\ verdict' = IF Len(order) # N THEN "DEPENDENCY_CYCLE" ELSE "PLANNED"
        /\ fault' = IF verdict' = "PLANNED" THEN Null ELSE verdict'
    BY <1>5 DEF ConcludePlan, Conclude
  <2>2. /\ file \in File /\ FileFault = Null /\ BookFault = Null
        /\ Counted /\ Leveled /\ depends_on = GraphOf
    BY <2>1 DEF Loading
  <2>3. FileFault' = FileFault /\ BookFault' = BookFault /\ GraphOf' = GraphOf
    BY <2>1, FileDecides
  <2>4. Counted' /\ Leveled'
    BY <2>1, <2>2, PlanStays
  <2>5. fault' = Null <=> Len(order') = N
    <3>1. "DEPENDENCY_CYCLE" # Null
      BY NotAbsent DEF FaultCode
    <3> QED
      BY <2>1, <3>1
  <2> QED
    BY <2>1, <2>2, <2>3, <2>4, <2>5 DEF Loading
<1>6. CASE UNCHANGED vars
  <2>1. UNCHANGED <<file, phase, fault, depends_on, indegree, current, order, levels, verdict>>
    BY <1>6 DEF vars
  <2>2. FileFault' = FileFault /\ BookFault' = BookFault /\ GraphOf' = GraphOf
    BY <2>1, FileDecides
  <2>3. (Counted => Counted') /\ (Leveled => Leveled')
    BY <2>1, PlanStays
  <2> QED
    BY <2>1, <2>2, <2>3 DEF Loading
<1> QED
  BY <1>1, <1>2, <1>3, <1>4, <1>5, <1>6 DEF Next

LEMMA LoadingHolds == Spec => []Loading
<1> QED
  BY LoadingStarts, LoadingGoesOn, PTL DEF Spec

-----------------------------------------------------------------------------

(* Whatever load_runbook and validate_runbook accept is a run book, with   *)
(* each step typed and an order that lists every step once, after all it   *)
(* depends on: what module Domain assumes of Book (yaml_runbook.py:69-157, *)
(* validation.py:27-103).                                                  *)
THEOREM AcceptedRuns == Spec => []AcceptedIsRunnable
<1>1. Loading => AcceptedIsRunnable
  <2> SUFFICES ASSUME Loading, phase = "done", fault = Null
               PROVE  LoadedBook \in Runbook /\ Valid(LoadedBook)
    BY DEF AcceptedIsRunnable, Accepted
  <2>1. /\ file \in File /\ FileFault = Null /\ BookFault = Null
        /\ Counted /\ depends_on = GraphOf /\ Len(order) = N
    BY DEF Loading
  <2>2. Faultless
    BY <2>1, FaultlessIs
  <2> QED
    BY <2>1, <2>2, LoadedRuns
<1> QED
  BY <1>1, LoadingHolds, PTL

(* A file is accepted exactly when nothing is wrong with it and its        *)
(* dependencies have no cycle, for any number of steps: no fault hides     *)
(* behind another, and no sound file is refused (yaml_runbook.py:69-157,   *)
(* validation.py:27-103).                                                  *)
THEOREM AcceptedExactly == Spec => []AcceptedIfFaultless
<1>1. Loading => AcceptedIfFaultless
  <2> SUFFICES ASSUME Loading, phase = "done"
               PROVE  fault = Null <=> Faultless /\ ~HasCycle
    BY DEF AcceptedIfFaultless, Accepted
  <2>1. file \in File
    BY DEF Loading
  <2>2. Faultless <=> FileFault = Null /\ BookFault = Null
    BY <2>1, FaultlessIs
  <2>3. CASE FileFault = Null /\ BookFault = Null
    <3>1. /\ Counted /\ depends_on = GraphOf /\ current = <<>>
          /\ fault = Null <=> Len(order) = N
      BY <2>3 DEF Loading
    <3>2. HasCycle <=> \E C : C # {} /\ Loop(C)
      BY <3>1, CycleIsLoop
    <3>3. Len(order) = N <=> ~\E C : C # {} /\ Loop(C)
      BY <3>1, OrderOrLoop
    <3> QED
      BY <2>2, <2>3, <3>1, <3>2, <3>3
  <2>4. CASE ~(FileFault = Null /\ BookFault = Null)
    <3>1. fault # Null
      BY <2>4 DEF Loading
    <3> QED
      BY <2>2, <2>4, <3>1
  <2> QED
    BY <2>3, <2>4
<1> QED
  BY <1>1, LoadingHolds, PTL

(* execution_plan refuses a run book exactly when its dependencies have a  *)
(* cycle, and the steps it reports as unresolved are those on a cycle or   *)
(* behind one, for any graph: a step that is named twice is taken off      *)
(* twice (validation.py:81-102).                                           *)
THEOREM CyclesAreRefused == Spec => []RefusedIffCyclic
<1>1. Loading => RefusedIffCyclic
  <2> SUFFICES ASSUME Loading, verdict \in {"PLANNED", "DEPENDENCY_CYCLE"}
               PROVE  RefusedIffCyclic
    BY DEF RefusedIffCyclic
  <2>1. /\ Counted /\ current = <<>>
        /\ verdict = IF Len(order) # N THEN "DEPENDENCY_CYCLE" ELSE "PLANNED"
    BY DEF Loading
  <2> QED
    BY <2>1, VerdictOnCycles DEF RefusedIffCyclic
<1> QED
  BY <1>1, LoadingHolds, PTL

(* The order of a plan is sorted by the depth of the steps and then by     *)
(* their names, and each level holds the steps of one depth, for any       *)
(* graph: the plan does not depend on the order in which the file lists    *)
(* the steps or their dependencies (validation.py:81-94).                  *)
THEOREM PlansAreCanonical == Spec => []PlanIsCanonical
<1>1. Loading => PlanIsCanonical
  <2> SUFFICES ASSUME Loading, verdict = "PLANNED" PROVE PlanIsCanonical
    BY DEF PlanIsCanonical
  <2>1. Counted /\ Leveled /\ Len(order) = N
    BY DEF Loading
  <2>2. Range(order) = Id
    BY <2>1, FullOrder
  <2> QED
    BY <2>1, <2>2, FullOrderIsCanonical DEF PlanIsCanonical
<1> QED
  BY <1>1, LoadingHolds, PTL

=============================================================================
