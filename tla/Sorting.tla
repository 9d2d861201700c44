------------------------------ MODULE Sorting ------------------------------
(***************************************************************************)
(* What sorted() makes of a finite set, given its order as a relation, and *)
(* the sum of a list.                                                      *)
(***************************************************************************)
EXTENDS Integers, Sequences, FiniteSets

\* How many elements of S come before x.
Preceding(x, S, before) == Cardinality({y \in S : <<y, x>> \in before})

\* The elements of S, each after those that come before it.
Sorted(S, before) ==
    LET places == {<<Preceding(x, S, before), x>> : x \in S}
    IN  [n \in 1..Cardinality(S) |-> (CHOOSE p \in places : p[1] = n - 1)[2]]

\* sorted(..., reverse=True) of entries <<score, place, item>>: the best score
\* first, equals in the order of their places.
Better(x, y) == x[1] > y[1] \/ (x[1] = y[1] /\ x[2] < y[2])

BestFirst(entries) ==
    LET order == Sorted(entries, {p \in entries \X entries : Better(p[1], p[2])})
    IN  [n \in DOMAIN order |-> order[n][3]]

\* sum().
SumOf(numbers) ==
    LET total[n \in 0..Len(numbers)] == IF n = 0 THEN 0 ELSE total[n - 1] + numbers[n]
    IN  total[Len(numbers)]
=============================================================================
