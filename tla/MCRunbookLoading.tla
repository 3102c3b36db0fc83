-------------------------- MODULE MCRunbookLoading --------------------------
(***************************************************************************)
(* The files that are loaded: every dependency graph without another fault *)
(* in two orders of the steps, and chains with up to two odd fields or     *)
(* header faults.                                                          *)
(***************************************************************************)
EXTENDS RunbookLoading

NoBook == [v \in {} |-> v]

NoDependency == [d \in IdName |-> 0]

Plain(s, ds) ==
    [shape |-> "mapping", id |-> s, command |-> "argv",
     depends_on |-> [d \in IdName |-> IF d \in Id THEN ds[d] ELSE 0],
     paths |-> "inside", env |-> "distinct", timeout |-> Null, side_effect |-> Null,
     retry |-> "mapping", mode |-> Null, max_attempts |-> Null, retryable_errors |-> {},
     evidence |-> Null, require_confirmation |-> Null, unknown_keys |-> FALSE]

Orders == {[i \in Id |-> i], [i \in Id |-> N + 1 - i]}

Graphs ==
    {[header |-> {}, steps |-> [i \in Id |-> Plain(ids[i], graph[ids[i]])]] :
        ids \in Orders, graph \in [Id -> [Id -> 0..Repeats]]}

Chain ==
    [header |-> {}, steps |-> [i \in Id |-> Plain(i, [d \in Id |-> IF d = i - 1 THEN 1 ELSE 0])]]

(* A field of a step and an unusual value of it. *)
Odds ==
    {<<"shape", Bad>>, <<"retry", Bad>>}
    \cup {<<"id", v>> : v \in {1, Odd, Bad}}
    \cup {<<"command", v>> : v \in {"blank_item", Bad}}
    \cup {<<"depends_on", v>> : v \in {Bad} \cup
             {[NoDependency EXCEPT ![d] = 1] : d \in {Odd, Nobody, N}}}
    \cup {<<"paths", v>> : v \in {"outside", Bad}}
    \cup {<<"env", v>> : v \in {"repeated", Bad}}
    \cup {<<"timeout", v>> : v \in {"positive", "nonpositive", Bad}}
    \cup {<<"side_effect", v>> : v \in {"DESTRUCTIVE", Bad}}
    \cup {<<"mode", v>> : v \in {"ONCE", "BOUNDED", Bad}}
    \cup {<<"max_attempts", v>> : v \in {0, 1, 2, 10, 11, Bad}}
    \cup {<<"retryable_errors", v>> : v \in {{"TIMEOUT"}, {"TIMEOUT", "UNLISTED"}, Bad}}
    \cup {<<"evidence", v>> : v \in {"REDACTED", Bad}}
    \cup {<<"require_confirmation", v>> : v \in {TRUE, Bad}}
    \cup {<<"unknown_keys", TRUE>>}

With(f, i, odd) == [f EXCEPT !.steps[i] = [@ EXCEPT ![odd[1]] = odd[2]]]

OneOdd == {With(Chain, i, odd) : i \in Id, odd \in Odds}
TwoOdd == {With(f, i, odd) : f \in OneOdd, i \in Id, odd \in Odds}

WithHeader(f, faults) == [f EXCEPT !.header = faults]

Faulty ==
    {WithHeader(f, faults) :
        f \in {Chain} \cup OneOdd, faults \in {{h} : h \in HeaderFault}}
    \cup {WithHeader(Chain, {h, g}) : h, g \in HeaderFault}

AllFiles == {Graphs, TwoOdd, Faulty}

(* Chains with two odd fields in one step. *)
TwoOddInOne == {With(With(Chain, i, odd), i, other) : i \in Id, odd \in Odds, other \in Odds}

ChainFiles == {TwoOddInOne}

=============================================================================
