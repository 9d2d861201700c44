-------------------------- MODULE RetrievalProofs --------------------------
(***************************************************************************)
(* One query of RetrievalService.retrieve, for any documents, limits,      *)
(* weights and budget: fusion respects both searches, and the passages fit *)
(* the budget and cite no position twice.  The operators of the query are  *)
(* loops over lists, so most of this is what those loops keep: Recursion   *)
(* says that a recursive function exists, Induction what it preserves.     *)
(***************************************************************************)
EXTENDS Retrieval, FiniteSetTheorems, TLAPS

(***************************************************************************)
(* Loops                                                                   *)
(***************************************************************************)

\* Induction over the turns of a loop: T holds the numbers it is true of.
LEMMA Induction ==
    ASSUME NEW T, NEW N \in Nat, 0 \in T,
           \A i \in 0..(N - 1) : i \in T => i + 1 \in T
    PROVE  \A n \in 0..N : n \in T
<1> SUFFICES ASSUME \E n \in 0..N : n \notin T PROVE FALSE
    OBVIOUS
<1> DEFINE out == {n \in 0..N : n \notin T}
<1>1. \E n \in out : \A m \in out : ~(m < n)
    <2>1. out \subseteq Nat /\ out # {}
        OBVIOUS
    <2> HIDE DEF out
    <2>2. \E n \in out : \A m \in out : ~(<<m, n>> \in OpToRel(<, Nat))
        BY <2>1, NatLessThanWellFounded, WFMin, Zenon
    <2>3. \A m, n \in out : m < n => <<m, n>> \in OpToRel(<, Nat)
        BY <2>1, Zenon DEF OpToRel
    <2> QED BY <2>2, <2>3, Zenon
<1>2. PICK n \in out : \A m \in out : ~(m < n)
    BY <1>1
<1>3. n \in 1..N /\ n - 1 \in 0..(N - 1) /\ n - 1 \in T
    BY <1>2
<1> QED BY <1>3

\* What a loop of N turns may compute that begins with b and stays in T.
Loops(T, b, N, step) ==
    {f \in [0..N -> T] : f[0] = b /\ \A n \in 1..N : f[n] = step[<<n, f[n - 1]>>]}

\* A loop has a result: what a recursive function over 0..N is defined by
\* has a solution.
LEMMA Recursion ==
    ASSUME NEW T, NEW b \in T, NEW N \in Nat, NEW step \in [(1..N) \X T -> T]
    PROVE  Loops(T, b, N, step) # {}
<1> DEFINE Sol(m) == Loops(T, b, m, step)
           done == {m \in 0..N : Sol(m) # {}}
<1>1. 0 \in done
    <2> DEFINE g == [i \in 0..0 |-> b]
    <2>1. g \in [0..0 -> T] /\ g[0] = b /\ 1..0 = {}
        OBVIOUS
    <2>2. g \in Sol(0)
        <3> HIDE DEF g
        <3> QED BY <2>1 DEF Loops
    <2> HIDE DEF Sol
    <2> QED BY <2>2
<1>2. ASSUME NEW m \in 0..(N - 1), m \in done PROVE m + 1 \in done
    <2>1. PICK f \in Sol(m) : TRUE
        BY <1>2
    <2>2. /\ f \in [0..m -> T] /\ f[0] = b
          /\ \A n \in 1..m : f[n] = step[<<n, f[n - 1]>>]
        BY <2>1 DEF Loops
    <2> DEFINE x == step[<<m + 1, f[m]>>]
               g == [n \in 0..(m + 1) |-> IF n = m + 1 THEN x ELSE f[n]]
    <2>3. x \in T
        BY <2>2
    <2>4. g \in [0..(m + 1) -> T]
        BY <2>2, <2>3
    <2>5. g[m + 1] = x /\ \A n \in 0..m : g[n] = f[n]
        OBVIOUS
    <2> HIDE DEF g
    <2>6. ASSUME NEW n \in 1..(m + 1) PROVE g[n] = step[<<n, g[n - 1]>>]
        <3>1. CASE n = m + 1
            <4>1. n - 1 = m /\ m \in 0..m
                BY <3>1
            <4>2. g[n - 1] = f[m]
                BY <2>5, <4>1
            <4> QED BY <2>5, <3>1, <4>1, <4>2
        <3>2. CASE n \in 1..m
            BY <2>2, <2>5, <3>2
        <3> QED BY <3>1, <3>2
    <2>7. g[0] = b
        BY <2>2, <2>5
    <2>8. g \in Sol(m + 1)
        BY <2>4, <2>6, <2>7 DEF Loops
    <2> HIDE DEF Sol
    <2> QED BY <2>8
<1>3. N \in done
    <2> HIDE DEF done
    <2> QED BY <1>1, <1>2, Induction
<1> QED BY <1>3

(***************************************************************************)
(* Sorting and summing                                                     *)
(***************************************************************************)

\* before is a strict total order of S.
Orders(before, S) ==
    /\ \A x \in S : <<x, x>> \notin before
    /\ \A x, y \in S : x # y => <<x, y>> \in before \/ <<y, x>> \in before
    /\ \A x, y, z \in S : <<x, y>> \in before /\ <<y, z>> \in before => <<x, z>> \in before

\* Sorted lists each element of a finite set once, in its order.
LEMMA SortedInOrder ==
    ASSUME NEW S, IsFiniteSet(S), NEW before, Orders(before, S)
    PROVE  /\ Cardinality(S) \in Nat
           /\ Sorted(S, before) \in Seq(S)
           /\ Len(Sorted(S, before)) = Cardinality(S)
           /\ \A x \in S : \E n \in 1..Cardinality(S) : Sorted(S, before)[n] = x
           /\ \A i, j \in 1..Cardinality(S) :
                 i < j <=> <<Sorted(S, before)[i], Sorted(S, before)[j]>> \in before
           /\ \A i, j \in 1..Cardinality(S) :
                 Sorted(S, before)[i] = Sorted(S, before)[j] => i = j
<1> DEFINE N == Cardinality(S)
           Below(x) == {y \in S : <<y, x>> \in before}
           rank == [x \in S |-> Cardinality(Below(x))]
           s == Sorted(S, before)
<1>1. N \in Nat
    BY FS_CardinalityType
<1>2. \A x \in S : rank[x] \in 0..(N - 1)
    <2> SUFFICES ASSUME NEW x \in S PROVE rank[x] \in 0..(N - 1)
        OBVIOUS
    <2>1. Below(x) \in SUBSET S /\ x \notin Below(x)
        BY DEF Orders
    <2>2. IsFiniteSet(Below(x)) /\ Cardinality(Below(x)) <= N /\ Cardinality(Below(x)) # N
        BY <2>1, FS_Subset
    <2> QED BY <1>1, <2>2, FS_CardinalityType
<1>3. ASSUME NEW x \in S, NEW y \in S, <<x, y>> \in before
      PROVE  rank[x] < rank[y]
    <2>1. Below(x) \in SUBSET Below(y) /\ x \in Below(y) /\ x \notin Below(x)
        BY <1>3 DEF Orders
    <2>2. Below(y) \in SUBSET S
        OBVIOUS
    <2>3. IsFiniteSet(Below(y)) /\ IsFiniteSet(Below(x))
        BY <2>1, <2>2, FS_Subset
    <2>4. Cardinality(Below(x)) <= Cardinality(Below(y)) /\ Cardinality(Below(x)) # Cardinality(Below(y))
        BY <2>1, <2>3, FS_Subset
    <2>5. rank[x] \in Int /\ rank[y] \in Int
        BY <1>2
    <2> QED BY <2>4, <2>5
<1>4. \A x, y \in S : rank[x] = rank[y] => x = y
    <2> SUFFICES ASSUME NEW x \in S, NEW y \in S, rank[x] = rank[y], x # y PROVE FALSE
        OBVIOUS
    <2> HIDE DEF rank
    <2>1. ~(rank[x] < rank[y]) /\ ~(rank[y] < rank[x])
        BY <1>2
    <2> QED BY <1>3, <2>1 DEF Orders
<1>5. \A n \in 0..(N - 1) : \E x \in S : rank[x] = n
    <2> DEFINE T == 0..(N - 1)
    <2>1. rank \in [S -> T]
        BY <1>2
    <2>2. rank \in Injection(S, T)
        <3> HIDE DEF rank, T
        <3> QED BY <1>4, <2>1 DEF Injection, IsInjective
    <2>3. IsFiniteSet(T) /\ Cardinality(T) = N
        <3>1. 0 \in Int /\ N - 1 \in Int
            BY <1>1
        <3> QED BY <1>1, <3>1, FS_Interval
    <2>4. rank \in Surjection(S, T)
        <3> HIDE DEF rank, T
        <3> QED BY <2>2, <2>3, FS_Injection
    <2> HIDE DEF rank
    <2> QED BY <2>4 DEF Surjection
<1>6. \A n \in 1..N : s[n] \in S /\ rank[s[n]] = n - 1
    <2> SUFFICES ASSUME NEW n \in 1..N PROVE s[n] \in S /\ rank[s[n]] = n - 1
        OBVIOUS
    <2> DEFINE places == {<<Preceding(x, S, before), x>> : x \in S}
               place == CHOOSE p \in places : p[1] = n - 1
    <2>1. s[n] = place[2]
        BY DEF Sorted
    <2>2. PICK x \in S : rank[x] = n - 1
        <3>1. n - 1 \in 0..(N - 1)
            BY <1>1
        <3> QED BY <1>5, <3>1
    <2>3. <<Preceding(x, S, before), x>> \in places /\ Preceding(x, S, before) = n - 1
        BY <2>2 DEF Preceding
    <2>4. place \in places /\ place[1] = n - 1
        <3> HIDE DEF places
        <3> QED BY <2>3
    <2>5. PICK y \in S : place = <<Preceding(y, S, before), y>>
        BY <2>4
    <2>6. rank[y] = Preceding(y, S, before)
        BY DEF Preceding
    <2> HIDE DEF place, rank, s
    <2> QED BY <2>1, <2>4, <2>5, <2>6
<1>7. s \in Seq(S) /\ Len(s) = N
    <2> DEFINE places == {<<Preceding(x, S, before), x>> : x \in S}
               Elem(n) == (CHOOSE p \in places : p[1] = n - 1)[2]
    <2>1. \A n \in 1..N : Elem(n) = s[n]
        BY DEF Sorted
    <2>2. \A n \in 1..N : Elem(n) \in S
        <3> HIDE DEF Elem, s
        <3> QED BY <1>6, <2>1
    <2>3. s = [n \in 1..N |-> Elem(n)]
        BY DEF Sorted
    <2> HIDE DEF Elem, s, N
    <2>4. s \in [1..N -> S]
        BY <2>2, <2>3
    <2> QED BY <1>1, <2>4
<1> HIDE DEF rank, s
<1>8. \A x \in S : \E n \in 1..N : s[n] = x
    <2> SUFFICES ASSUME NEW x \in S PROVE \E n \in 1..N : s[n] = x
        OBVIOUS
    <2>1. rank[x] + 1 \in 1..N /\ (rank[x] + 1) - 1 = rank[x]
        BY <1>1, <1>2
    <2>2. s[rank[x] + 1] = x
        BY <1>4, <1>6, <2>1
    <2> QED BY <2>1, <2>2
<1>9. \A i, j \in 1..N : s[i] = s[j] => i = j
    BY <1>1, <1>6
<1>10. \A i, j \in 1..N : i < j <=> <<s[i], s[j]>> \in before
    <2> SUFFICES ASSUME NEW i \in 1..N, NEW j \in 1..N
                 PROVE  i < j <=> <<s[i], s[j]>> \in before
        OBVIOUS
    <2>1. /\ s[i] \in S /\ s[j] \in S /\ rank[s[i]] = i - 1 /\ rank[s[j]] = j - 1
        BY <1>6
    <2>2. <<s[i], s[j]>> \in before => i - 1 < j - 1
        BY <1>3, <2>1
    <2>3. i < j => <<s[i], s[j]>> \in before
        <3> SUFFICES ASSUME i < j, <<s[j], s[i]>> \in before PROVE FALSE
            BY <2>1 DEF Orders
        <3>1. j - 1 < i - 1
            BY <1>3, <2>1
        <3> QED BY <1>1, <3>1
    <2> QED BY <1>1, <2>2, <2>3
<1> QED BY <1>1, <1>7, <1>8, <1>9, <1>10 DEF s

\* The loop of SumOf.
LEMMA SumLoop ==
    ASSUME NEW s \in Seq(Nat)
    PROVE  \E total \in [0..Len(s) -> Nat] :
              /\ SumOf(s) = total[Len(s)]
              /\ total[0] = 0
              /\ \A n \in 1..Len(s) : total[n] = total[n - 1] + s[n]
<1> DEFINE Body(f) == [n \in 0..Len(s) |-> IF n = 0 THEN 0 ELSE f[n - 1] + s[n]]
           total == CHOOSE f : f = Body(f)
           step == [x \in (1..Len(s)) \X Nat |-> x[2] + s[x[1]]]
<1>1. SumOf(s) = total[Len(s)]
    BY DEF SumOf
<1>2. step \in [(1..Len(s)) \X Nat -> Nat]
    OBVIOUS
<1>3. \A n \in 1..Len(s), x \in Nat : step[<<n, x>>] = x + s[n]
    OBVIOUS
<1>4. PICK f \in [0..Len(s) -> Nat] : f[0] = 0 /\ \A n \in 1..Len(s) : f[n] = step[<<n, f[n - 1]>>]
   <2> DEFINE N == Len(s)
   <2>1. N \in Nat /\ 0 \in Nat
       OBVIOUS
   <2>2. step \in [(1..N) \X Nat -> Nat]
       BY <1>2
   <2> HIDE DEF step, N
   <2>3. Loops(Nat, 0, N, step) # {}
       BY <2>1, <2>2, Recursion
   <2> QED BY <2>3 DEF N, Loops
<1> HIDE DEF step
<1>5. \A n \in 1..Len(s) : f[n] = f[n - 1] + s[n]
    <2> SUFFICES ASSUME NEW n \in 1..Len(s) PROVE f[n] = f[n - 1] + s[n]
        OBVIOUS
    <2>1. n - 1 \in 0..Len(s) /\ f[n - 1] \in Nat
        <3>1. n - 1 \in 0..Len(s)
            OBVIOUS
        <3> QED BY <3>1
    <2> QED BY <1>3, <1>4, <2>1
<1>6. f = Body(f)
    BY <1>4, <1>5
<1>7. total = Body(total)
   <2> HIDE DEF Body
   <2> QED BY <1>6, Zenon
<1> HIDE DEF total
<1>8. total[0] = 0 /\ \A n \in 1..Len(s) : total[n] = total[n - 1] + s[n]
    <2>1. \A n \in 0..Len(s) : total[n] = IF n = 0 THEN 0 ELSE total[n - 1] + s[n]
        BY <1>7, Zenon
    <2> HIDE DEF Body
    <2>2. Len(s) \in Nat
        OBVIOUS
    <2> QED BY <2>1, <2>2
<1> DEFINE T == {n \in 0..Len(s) : total[n] \in Nat}
<1>9. \A n \in 0..Len(s) : n \in T
    <2>1. Len(s) \in Nat /\ 0 \in T
        BY <1>8
    <2>2. ASSUME NEW i \in 0..(Len(s) - 1), i \in T PROVE i + 1 \in T
        <3>1. i + 1 \in 1..Len(s) /\ (i + 1) - 1 = i /\ s[i + 1] \in Nat
            OBVIOUS
        <3> QED BY <1>8, <2>2, <3>1
    <2> HIDE DEF T
    <2> QED BY <2>1, <2>2, Induction
<1>10. total \in [0..Len(s) -> Nat]
   BY <1>7, <1>9
<1>11. SumOf(s) = total[Len(s)]
    BY <1>1 DEF total
<1> QED BY <1>8, <1>10, <1>11

\* A sum of natural numbers is one.
LEMMA SumType ==
    ASSUME NEW s \in Seq(Nat)
    PROVE  SumOf(s) \in Nat
<1>1. PICK total \in [0..Len(s) -> Nat] : SumOf(s) = total[Len(s)]
    BY SumLoop
<1> QED BY <1>1

\* The sum of nothing.
LEMMA SumEmpty ==
    ASSUME NEW s \in Seq(Nat), Len(s) = 0
    PROVE  SumOf(s) = 0
<1>1. PICK total \in [0..Len(s) -> Nat] : SumOf(s) = total[Len(s)] /\ total[0] = 0
    BY SumLoop
<1> QED BY <1>1

\* A sum grows by what is appended.
LEMMA SumAppend ==
    ASSUME NEW s \in Seq(Nat), NEW x \in Nat
    PROVE  SumOf(Append(s, x)) = SumOf(s) + x
<1> DEFINE t == Append(s, x)
           N == Len(s)
<1>1. t \in Seq(Nat) /\ Len(t) = N + 1 /\ t[N + 1] = x /\ N \in Nat
    OBVIOUS
<1>1a. \A i \in 1..N : t[i] = s[i]
    OBVIOUS
<1> HIDE DEF t, N
<1>2. PICK f \in [0..N -> Nat] :
        /\ SumOf(s) = f[N] /\ f[0] = 0
        /\ \A n \in 1..N : f[n] = f[n - 1] + s[n]
    BY SumLoop DEF N
<1>3. PICK g \in [0..(N + 1) -> Nat] :
        /\ SumOf(t) = g[N + 1] /\ g[0] = 0
        /\ \A n \in 1..(N + 1) : g[n] = g[n - 1] + t[n]
    <2> DEFINE M == Len(t)
    <2>1. \E g \in [0..M -> Nat] :
             /\ SumOf(t) = g[M] /\ g[0] = 0
             /\ \A n \in 1..M : g[n] = g[n - 1] + t[n]
        BY <1>1, SumLoop
    <2>2. M = N + 1
        BY <1>1
    <2> HIDE DEF M
    <2> QED BY <2>1, <2>2
<1> DEFINE T == {n \in 0..N : f[n] = g[n]}
<1>4. 0 \in T
    BY <1>1, <1>2, <1>3
<1>5. ASSUME NEW i \in 0..(N - 1), i \in T PROVE i + 1 \in T
    <2>1. i + 1 \in 1..N /\ i + 1 \in 1..(N + 1) /\ (i + 1) - 1 = i /\ i + 1 \in 0..N
        BY <1>1
    <2>2. f[i + 1] = f[i] + s[i + 1] /\ g[i + 1] = g[i] + t[i + 1]
        BY <1>2, <1>3, <2>1
    <2> QED BY <1>1a, <1>5, <2>1, <2>2
<1>6. N \in T
    <2> HIDE DEF T
    <2>1. \A n \in 0..N : n \in T
        BY <1>1, <1>4, <1>5, Induction
    <2> QED BY <1>1, <2>1
<1>7. g[N + 1] = g[N] + x
    <2>1. N + 1 \in 1..(N + 1) /\ (N + 1) - 1 = N
        BY <1>1
    <2> QED BY <1>1, <1>3, <2>1
<1>8. SumOf(t) = SumOf(s) + x
    BY <1>2, <1>3, <1>6, <1>7
<1> QED BY <1>8 DEF t

\* What a function makes of a finite set is finite.
LEMMA ImageFinite ==
    ASSUME NEW f, IsFiniteSet(DOMAIN f)
    PROVE  IsFiniteSet({f[x] : x \in DOMAIN f})
<1> DEFINE g == [x \in DOMAIN f |-> f[x]]
           T == {f[x] : x \in DOMAIN f}
<1>1. g \in Surjection(DOMAIN f, T)
    BY DEF Surjection
<1> QED BY <1>1, FS_Surjection

\* A finite set of integers has a least and a largest element.
LEMMA Extremes ==
    ASSUME NEW S \in SUBSET Int, IsFiniteSet(S), S # {}
    PROVE  /\ Max(S) \in S /\ \A x \in S : x <= Max(S)
           /\ Min(S) \in S /\ \A x \in S : Min(S) <= x
<1> DEFINE up == {p \in S \X S : p[1] < p[2]}
           s == Sorted(S, up)
           N == Cardinality(S)
<1>1. Orders(up, S)
    <2>1. \A x, y \in S : <<x, y>> \in up <=> x < y
        OBVIOUS
    <2> HIDE DEF up
    <2> QED BY <2>1 DEF Orders
<1>2. /\ N \in Nat /\ s \in Seq(S) /\ Len(s) = N
      /\ \A x \in S : \E n \in 1..N : s[n] = x
      /\ \A i, j \in 1..N : i < j <=> <<s[i], s[j]>> \in up
    <2> HIDE DEF up
    <2> QED BY <1>1, SortedInOrder
<1>2a. \A x, y \in S : <<x, y>> \in up <=> x < y
    OBVIOUS
<1> HIDE DEF s, N, up
<1>3. N \in Nat /\ N >= 1
    <2>1. PICK x \in S : TRUE
        OBVIOUS
    <2>2. PICK n \in 1..N : s[n] = x
        BY <1>2
    <2> QED BY <1>2, <2>2
<1>3a. \A i \in 1..N : s[i] \in S
    BY <1>2
<1>4. \A i, j \in 1..N : i < j => s[i] < s[j]
    BY <1>2, <1>2a, <1>3a
<1>5. \A i \in 1..N : s[1] <= s[i] /\ s[i] <= s[N]
    <2> SUFFICES ASSUME NEW i \in 1..N PROVE s[1] <= s[i] /\ s[i] <= s[N]
        OBVIOUS
    <2>1. 1 \in 1..N /\ N \in 1..N /\ (1 = i \/ 1 < i) /\ (i = N \/ i < N)
        BY <1>3
    <2>2. s[i] \in Int /\ s[1] \in Int /\ s[N] \in Int
        BY <1>3a, <2>1
    <2>3. (1 < i => s[1] < s[i]) /\ (i < N => s[i] < s[N])
        BY <1>4, <2>1
    <2> QED BY <2>1, <2>2, <2>3
<1>6. s[1] \in S /\ s[N] \in S
    BY <1>2, <1>3
<1>7. \A x \in S : s[1] <= x /\ x <= s[N]
    BY <1>2, <1>5
<1>8. \E y \in S : \A x \in S : x <= y
    BY <1>6, <1>7
<1>9. \E y \in S : \A x \in S : y <= x
    BY <1>6, <1>7
<1> QED BY <1>8, <1>9 DEF Max, Min

\* The orders of the entries that BestFirst may read its result from.
BestOrders(entries) ==
    {order \in [1..Cardinality(entries) -> entries] :
        /\ \A n \in 1..Cardinality(entries) : BestFirst(entries)[n] = order[n][3]
        /\ \A x \in entries : \E n \in 1..Cardinality(entries) : order[n] = x
        /\ \A i, j \in 1..Cardinality(entries) :
              /\ i < j <=> Better(order[i], order[j])
              /\ order[i] = order[j] => i = j}

\* BestFirst lists the items of entries that differ in their places.
LEMMA BestFirstOrders ==
    ASSUME NEW T, NEW entries \in SUBSET (Int \X Int \X T), IsFiniteSet(entries),
           \A x, y \in entries : x[2] = y[2] => x = y
    PROVE  /\ Cardinality(entries) \in Nat
           /\ BestFirst(entries) \in Seq(T)
           /\ Len(BestFirst(entries)) = Cardinality(entries)
           /\ BestOrders(entries) # {}
<1> DEFINE N == Cardinality(entries)
           before == {p \in entries \X entries : Better(p[1], p[2])}
           order == Sorted(entries, before)
           best == BestFirst(entries)
<1>1. \A x, y \in entries : <<x, y>> \in before <=> Better(x, y)
    OBVIOUS
<1>2. Orders(before, entries)
    <2> HIDE DEF before
    <2>1. \A x \in entries : x[1] \in Int /\ x[2] \in Int
        OBVIOUS
    <2>2. \A x \in entries : ~Better(x, x)
        BY <2>1 DEF Better
    <2>3. \A x, y \in entries : x # y => Better(x, y) \/ Better(y, x)
        BY <2>1 DEF Better
    <2>4. \A x, y, z \in entries : Better(x, y) /\ Better(y, z) => Better(x, z)
        BY <2>1 DEF Better
    <2> QED BY <1>1, <2>2, <2>3, <2>4 DEF Orders
<1>3. /\ N \in Nat /\ order \in Seq(entries) /\ Len(order) = N
      /\ \A x \in entries : \E n \in 1..N : order[n] = x
      /\ \A i, j \in 1..N : i < j <=> <<order[i], order[j]>> \in before
      /\ \A i, j \in 1..N : order[i] = order[j] => i = j
    <2> HIDE DEF before
    <2> QED BY <1>2, SortedInOrder
<1>4. best = [n \in DOMAIN order |-> order[n][3]]
    BY DEF BestFirst
<1> HIDE DEF N, order, best, before
<1>5. order \in [1..N -> entries]
    BY <1>3
<1>6. best \in Seq(T) /\ Len(best) = N /\ \A n \in 1..N : best[n] = order[n][3]
    <2>1. DOMAIN order = 1..N
        BY <1>3
    <2>2. best = [n \in 1..N |-> order[n][3]]
        BY <1>4, <2>1
    <2>3. \A n \in 1..N : order[n][3] \in T
        BY <1>5
    <2>4. best \in [1..N -> T]
        BY <2>2, <2>3
    <2>5. best \in Seq(T) /\ Len(best) = N
        BY <1>3, <2>4
    <2>6. \A n \in 1..N : best[n] = order[n][3]
        BY <2>2
    <2> QED BY <2>5, <2>6
<1>7. \A i, j \in 1..N : i < j <=> Better(order[i], order[j])
    BY <1>1, <1>3, <1>5
<1>8. \E o \in [1..N -> entries] :
         /\ \A n \in 1..N : best[n] = o[n][3]
         /\ \A x \in entries : \E n \in 1..N : o[n] = x
         /\ \A i, j \in 1..N :
               /\ i < j <=> Better(o[i], o[j])
               /\ o[i] = o[j] => i = j
    <2>1. /\ \A n \in 1..N : best[n] = order[n][3]
          /\ \A x \in entries : \E n \in 1..N : order[n] = x
          /\ \A i, j \in 1..N :
               /\ i < j <=> Better(order[i], order[j])
               /\ order[i] = order[j] => i = j
        BY <1>3, <1>6, <1>7
    <2> QED BY <1>5, <2>1
<1>9. N \in Nat /\ best \in Seq(T) /\ Len(best) = N
    BY <1>3, <1>6
<1> QED BY <1>8, <1>9 DEF N, best, BestOrders

(***************************************************************************)
(* Rank fusion                                                             *)
(***************************************************************************)

\* A rank is a place in the list.
LEMMA RankInType ==
    ASSUME NEW T, NEW list \in Seq(T), NEW c, Contains(list, c)
    PROVE  RankIn(c, list) \in 1..Len(list) /\ list[RankIn(c, list)] = c
<1>1. \E i \in DOMAIN list : list[i] = c
    BY DEF Contains
<1> QED BY <1>1 DEF RankIn

\* A list contains what is in its set.
LEMMA ContainsToSet ==
    ASSUME NEW T, NEW list \in Seq(T)
    PROVE  /\ \A c : Contains(list, c) <=> c \in ToSet(list)
           /\ ToSet(list) \subseteq T
           /\ \A i \in 1..Len(list) : list[i] \in ToSet(list)
BY DEF Contains, ToSet

\* A list has no more elements than places.
LEMMA ToSetFinite ==
    ASSUME NEW T, NEW list \in Seq(T)
    PROVE  IsFiniteSet(ToSet(list)) /\ Cardinality(ToSet(list)) <= Len(list)
<1>1. Len(list) \in Nat /\ DOMAIN list = 1..Len(list)
    OBVIOUS
<1>2. list \in Surjection(1..Len(list), ToSet(list))
    BY <1>1 DEF Surjection, ToSet
<1>3. IsFiniteSet(1..Len(list)) /\ Cardinality(1..Len(list)) = Len(list)
    BY <1>1, FS_Interval
<1> QED BY <1>2, <1>3, FS_Surjection

\* A lower rank has at least the same share.
LEMMA DivMonotone ==
    ASSUME NEW a \in Nat, NEW b \in Nat \ {0}, NEW c \in Nat \ {0}, b <= c
    PROVE  /\ a \div b \in Nat /\ a \div c \in Nat
           /\ a \div c <= a \div b
<1> DEFINE x == a \div b
           y == a \div c
<1>1. x \in Int /\ y \in Int
    OBVIOUS
<1>2. b * x <= a /\ a < b * (x + 1) /\ c * y <= a /\ a < c * (y + 1)
    OBVIOUS
<1> HIDE DEF x, y
<1>3. x \in Nat /\ y \in Nat
    <2>1. ASSUME x < 0 PROVE FALSE
        <3>1. b * (x + 1) <= 0
            BY <1>1, <2>1
        <3> QED BY <1>1, <1>2, <3>1
    <2>2. ASSUME y < 0 PROVE FALSE
        <3>1. c * (y + 1) <= 0
            BY <1>1, <2>2
        <3> QED BY <1>1, <1>2, <3>1
    <2> QED BY <1>1, <2>1, <2>2
<1>4. ASSUME x < y PROVE FALSE
    <2>1. b * (x + 1) <= b * y
        BY <1>3, <1>4
    <2>2. b * y <= c * y
        BY <1>3
    <2>3. b * (x + 1) \in Int /\ b * y \in Int /\ c * y \in Int
        BY <1>3
    <2> QED BY <1>2, <2>1, <2>2, <2>3
<1> QED BY <1>3, <1>4 DEF x, y

\* A share is a natural number.
LEMMA ShareType ==
    ASSUME NEW T, NEW list \in Seq(T), NEW weight \in Nat, NEW c
    PROVE  Share(c, list, weight) \in Nat
<1>1. CASE Contains(list, c)
    <2>1. RankIn(c, list) \in Nat \ {0}
        BY <1>1, RankInType
    <2>2. RrfK + RankIn(c, list) \in Nat \ {0} /\ Scale \in Nat
        BY <2>1, RankingAssumption
    <2>3. Scale \div (RrfK + RankIn(c, list)) \in Nat
        BY <2>2, DivMonotone
    <2> QED BY <1>1, <2>3 DEF Share
<1> QED BY <1>1 DEF Share

\* A chunk that a search does not rank below another has no smaller share.
LEMMA ShareMonotone ==
    ASSUME NEW T, NEW list \in Seq(T), NEW weight \in Nat, NEW c, NEW d,
           AtLeastAsGood(c, d, list)
    PROVE  Share(d, list, weight) <= Share(c, list, weight)
<1>1. CASE Contains(list, d)
    <2>1. /\ Contains(list, c)
          /\ RankIn(c, list) \in Nat \ {0} /\ RankIn(d, list) \in Nat \ {0}
          /\ RankIn(c, list) <= RankIn(d, list)
        BY <1>1, RankInType DEF AtLeastAsGood
    <2> DEFINE x == RrfK + RankIn(c, list)
               y == RrfK + RankIn(d, list)
    <2>2. x \in Nat \ {0} /\ y \in Nat \ {0} /\ x <= y /\ Scale \in Nat
        BY <2>1, RankingAssumption
    <2> HIDE DEF x, y
    <2>3. Scale \div x \in Nat /\ Scale \div y \in Nat /\ Scale \div y <= Scale \div x
        BY <2>2, DivMonotone
    <2> DEFINE m == Scale \div x
               n == Scale \div y
    <2>4. weight * n <= weight * m
        <3> HIDE DEF m, n
        <3>1. m \in Nat /\ n \in Nat /\ n <= m
            BY <2>3 DEF m, n
        <3> QED BY <3>1
    <2> QED BY <1>1, <2>1, <2>4 DEF Share, x, y
<1>2. CASE ~Contains(list, d)
    <2>1. Share(d, list, weight) = 0
        BY <1>2 DEF Share
    <2> QED BY <2>1, ShareType
<1> QED BY <1>1, <1>2

\* A fused score is a natural number.
LEMMA FusedScoreType ==
    ASSUME NEW T, NEW v \in Seq(T), NEW k \in Seq(T), NEW c
    PROVE  FusedScore(c, v, k) \in Nat
<1>1. Share(c, v, VectorWeight) \in Nat /\ Share(c, k, KeywordWeight) \in Nat
    BY RankingAssumption, ShareType
<1> QED BY <1>1 DEF FusedScore

\* The fused list holds each chunk found once, in an order that respects both.
LEMMA FusionOrders ==
    ASSUME NEW v \in Seq(Chunks), NEW k \in Seq(Chunks)
    PROVE  LET f == ReciprocalRankFusion(v, k)
           IN  /\ f \in Seq(Chunks)
               /\ \A c \in ToSet(v) \cup ToSet(k) : \E i \in 1..Len(f) : f[i] = c
               /\ \A i, j \in 1..Len(f) : f[i] = f[j] => i = j
               /\ \A i, j \in 1..Len(f) :
                     f[i] # f[j] /\ AtLeastAsGood(f[i], f[j], v) /\ AtLeastAsGood(f[i], f[j], k)
                        => i < j
<1> DEFINE found == ToSet(v) \cup ToSet(k)
           Entry(c) == <<FusedScore(c, v, k), MergedPlace(c, v, k), c>>
           entries == {Entry(c) : c \in found}
           f == ReciprocalRankFusion(v, k)
           N == Cardinality(entries)
<1>1. /\ found \subseteq Chunks
      /\ \A c : (Contains(v, c) <=> c \in ToSet(v)) /\ (Contains(k, c) <=> c \in ToSet(k))
    BY ContainsToSet
<1>2. IsFiniteSet(entries)
    <2>1. IsFiniteSet(found)
        BY ToSetFinite, FS_Union
    <2> DEFINE g == [c \in found |-> Entry(c)]
    <2>2. entries = {g[c] : c \in DOMAIN g} /\ DOMAIN g = found
        OBVIOUS
    <2> HIDE DEF g, found, entries
    <2> QED BY <2>1, <2>2, ImageFinite
<1>3. \A c \in found : FusedScore(c, v, k) \in Int
    BY FusedScoreType
<1>4. /\ Len(v) \in Nat
      /\ \A c \in ToSet(v) : RankIn(c, v) \in 1..Len(v) /\ v[RankIn(c, v)] = c
      /\ \A c \in ToSet(k) : RankIn(c, k) \in 1..Len(k) /\ k[RankIn(c, k)] = c
    BY <1>1, RankInType
<1>5. \A c \in found : MergedPlace(c, v, k) \in Int
    BY <1>1, <1>4 DEF MergedPlace
<1>6. \A c, d \in found : MergedPlace(c, v, k) = MergedPlace(d, v, k) => c = d
    <2> SUFFICES ASSUME NEW c \in found, NEW d \in found,
                        MergedPlace(c, v, k) = MergedPlace(d, v, k)
                 PROVE  c = d
        OBVIOUS
    <2>1. CASE c \in ToSet(v) /\ d \in ToSet(v)
        BY <1>1, <1>4, <2>1 DEF MergedPlace
    <2>2. CASE c \in ToSet(v) /\ d \notin ToSet(v)
        BY <1>1, <1>4, <2>2 DEF MergedPlace
    <2>3. CASE c \notin ToSet(v) /\ d \in ToSet(v)
        BY <1>1, <1>4, <2>3 DEF MergedPlace
    <2>4. CASE c \notin ToSet(v) /\ d \notin ToSet(v)
        BY <1>1, <1>4, <2>4 DEF MergedPlace
    <2> QED BY <2>1, <2>2, <2>3, <2>4
<1>7. entries \in SUBSET (Int \X Int \X Chunks)
    BY <1>1, <1>3, <1>5
<1>8. \A x, y \in entries : x[2] = y[2] => x = y
    BY <1>6
<1>9. f = BestFirst(entries)
    BY DEF ReciprocalRankFusion
<1> HIDE DEF entries, f, N
<1>10. N \in Nat /\ f \in Seq(Chunks) /\ Len(f) = N
    BY <1>2, <1>7, <1>8, <1>9, BestFirstOrders DEF N
<1>11. PICK order \in [1..N -> entries] :
         /\ \A n \in 1..N : f[n] = order[n][3]
         /\ \A x \in entries : \E n \in 1..N : order[n] = x
         /\ \A i, j \in 1..N :
               /\ i < j <=> Better(order[i], order[j])
               /\ order[i] = order[j] => i = j
    <2>1. BestOrders(entries) # {}
        BY <1>2, <1>7, <1>8, BestFirstOrders
    <2> QED BY <1>9, <2>1 DEF N, BestOrders
<1>12. \A n \in 1..N : f[n] \in found /\ order[n] = Entry(f[n])
    BY <1>11 DEF entries
<1>13. \A c \in found : \E i \in 1..N : f[i] = c
    <2> SUFFICES ASSUME NEW c \in found PROVE \E i \in 1..N : f[i] = c
        OBVIOUS
    <2>1. Entry(c) \in entries
        BY DEF entries
    <2>2. PICK n \in 1..N : order[n] = Entry(c)
        BY <1>11, <2>1
    <2> QED BY <1>11, <2>2
<1>14. \A i, j \in 1..N : f[i] = f[j] => i = j
    <2> HIDE DEF Entry
    <2> QED BY <1>11, <1>12
<1>15. ASSUME NEW i \in 1..N, NEW j \in 1..N, f[i] # f[j],
              AtLeastAsGood(f[i], f[j], v), AtLeastAsGood(f[i], f[j], k)
       PROVE  i < j
    <2> DEFINE c == f[i]
               d == f[j]
    <2>1. c \in found /\ d \in found /\ order[i] = Entry(c) /\ order[j] = Entry(d) /\ c # d
        BY <1>12, <1>15
    <2> HIDE DEF c, d
    <2>2. AtLeastAsGood(c, d, v) /\ AtLeastAsGood(c, d, k)
        BY <1>15 DEF c, d
    <2>3. FusedScore(d, v, k) <= FusedScore(c, v, k)
        <3>1. Share(d, v, VectorWeight) <= Share(c, v, VectorWeight)
            BY <2>2, RankingAssumption, ShareMonotone
        <3>2. Share(d, k, KeywordWeight) <= Share(c, k, KeywordWeight)
            BY <2>2, RankingAssumption, ShareMonotone
        <3>3. /\ Share(c, v, VectorWeight) \in Nat /\ Share(d, v, VectorWeight) \in Nat
              /\ Share(c, k, KeywordWeight) \in Nat /\ Share(d, k, KeywordWeight) \in Nat
            BY RankingAssumption, ShareType
        <3> QED BY <3>1, <3>2, <3>3 DEF FusedScore
    <2>4. MergedPlace(c, v, k) < MergedPlace(d, v, k)
        <3>1. CASE d \in ToSet(v)
            <4>1. c \in ToSet(v) /\ RankIn(c, v) <= RankIn(d, v)
                BY <1>1, <2>2, <3>1 DEF AtLeastAsGood
            <4>2. RankIn(c, v) # RankIn(d, v)
                BY <1>4, <2>1, <3>1, <4>1
            <4> QED BY <1>1, <1>4, <3>1, <4>1, <4>2 DEF MergedPlace
        <3>2. CASE d \notin ToSet(v)
            <4>1. /\ d \in ToSet(k) /\ c \in ToSet(k) /\ RankIn(c, k) <= RankIn(d, k)
                BY <1>1, <2>1, <2>2, <3>2 DEF AtLeastAsGood
            <4>2. RankIn(c, k) # RankIn(d, k)
                BY <1>4, <2>1, <4>1
            <4>3. CASE c \in ToSet(v)
                BY <1>1, <1>4, <3>2, <4>1, <4>3 DEF MergedPlace
            <4>4. CASE c \notin ToSet(v)
                BY <1>1, <1>4, <3>2, <4>1, <4>2, <4>4 DEF MergedPlace
            <4> QED BY <4>3, <4>4
        <3> QED BY <3>1, <3>2
    <2>5. Better(Entry(c), Entry(d))
        BY <1>3, <1>5, <2>1, <2>3, <2>4 DEF Better
    <2> QED BY <1>11, <2>1, <2>5, ZenonT(30)
<1>16. /\ f \in Seq(Chunks)
       /\ \A c \in found : \E i \in 1..Len(f) : f[i] = c
       /\ \A i, j \in 1..Len(f) : f[i] = f[j] => i = j
       /\ \A i, j \in 1..Len(f) :
             f[i] # f[j] /\ AtLeastAsGood(f[i], f[j], v) /\ AtLeastAsGood(f[i], f[j], k)
                => i < j
    BY <1>10, <1>13, <1>14, <1>15
<1> QED BY <1>16 DEF f

\* What a cut to the first m keeps.
LEMMA CutType ==
    ASSUME NEW T, NEW s \in Seq(T), NEW m \in 0..Len(s)
    PROVE  /\ SubSeq(s, 1, m) \in Seq(T) /\ Len(SubSeq(s, 1, m)) = m
           /\ \A i \in 1..m : SubSeq(s, 1, m)[i] = s[i]
OBVIOUS

\* The first places of an injective list.
LEMMA CutKeepsRanks ==
    ASSUME NEW T, NEW f \in Seq(T), \A i, j \in 1..Len(f) : f[i] = f[j] => i = j,
           NEW m \in 0..Len(f)
    PROVE  LET cut == SubSeq(f, 1, m)
           IN  /\ cut \in Seq(T) /\ Len(cut) = m
               /\ \A i \in 1..m : cut[i] = f[i] /\ Contains(cut, f[i]) /\ RankIn(f[i], cut) = i
<1> DEFINE cut == SubSeq(f, 1, m)
<1>1. cut \in Seq(T) /\ Len(cut) = m /\ \A i \in 1..m : cut[i] = f[i]
    BY CutType
<1> HIDE DEF cut
<1>2. ASSUME NEW i \in 1..m
      PROVE  Contains(cut, f[i]) /\ RankIn(f[i], cut) = i
    <2>1. Contains(cut, f[i])
        BY <1>1 DEF Contains
    <2>2. RankIn(f[i], cut) \in 1..m /\ cut[RankIn(f[i], cut)] = f[i]
        BY <1>1, <2>1, RankInType
    <2> QED BY <1>1, <2>1, <2>2
<1> QED BY <1>1, <1>2 DEF cut

(***************************************************************************)
(* Reranking and diversification keep to the candidates                    *)
(***************************************************************************)

\* Reranking keeps to the candidates.
LEMMA RerankType ==
    ASSUME NEW list \in Seq(Chunks), NEW score \in [ToSet(list) -> Nat], NEW kept \in SUBSET ToSet(list)
    PROVE  BestFirst({<<score[c], RankIn(c, list), c>> : c \in kept}) \in Seq(ToSet(list))
<1> DEFINE Entry(c) == <<score[c], RankIn(c, list), c>>
           entries == {Entry(c) : c \in kept}
           T == ToSet(list)
<1>1. \A c \in kept : RankIn(c, list) \in Int /\ list[RankIn(c, list)] = c
    <2> SUFFICES ASSUME NEW c \in kept PROVE RankIn(c, list) \in Int /\ list[RankIn(c, list)] = c
        OBVIOUS
    <2>1. Contains(list, c)
        BY ContainsToSet
    <2> QED BY <2>1, RankInType
<1>2. IsFiniteSet(entries)
    <2>1. IsFiniteSet(kept)
        BY ToSetFinite, FS_Subset
    <2> DEFINE g == [c \in kept |-> Entry(c)]
    <2>2. entries = {g[c] : c \in DOMAIN g} /\ DOMAIN g = kept
        OBVIOUS
    <2> HIDE DEF g, entries
    <2> QED BY <2>1, <2>2, ImageFinite
<1>3. entries \in SUBSET (Int \X Int \X T)
    BY <1>1
<1>4. \A x, y \in entries : x[2] = y[2] => x = y
    BY <1>1
<1> HIDE DEF entries, T
<1>5. BestFirst(entries) \in Seq(T)
    BY <1>2, <1>3, <1>4, BestFirstOrders
<1> QED BY <1>5 DEF entries, T

\* Of finitely many numbers one has the best score, the least if several have.
LEMMA BestExists ==
    ASSUME NEW S \in SUBSET Int, IsFiniteSet(S), S # {}, NEW score \in [S -> Int]
    PROVE  \E i \in S : \A j \in S : \/ score[i] > score[j]
                                     \/ score[i] = score[j] /\ i <= j
<1> DEFINE Comes(i, j) == score[i] > score[j] \/ (score[i] = score[j] /\ i < j)
           before == {p \in S \X S : Comes(p[1], p[2])}
           s == Sorted(S, before)
           N == Cardinality(S)
<1>1. \A i, j \in S : <<i, j>> \in before <=> Comes(i, j)
    OBVIOUS
<1>2. Orders(before, S)
    <2> HIDE DEF before
    <2>1. \A i \in S : ~Comes(i, i)
        OBVIOUS
    <2>2. \A i, j \in S : i # j => Comes(i, j) \/ Comes(j, i)
        OBVIOUS
    <2>3. \A i, j, k \in S : Comes(i, j) /\ Comes(j, k) => Comes(i, k)
        OBVIOUS
    <2> HIDE DEF Comes
    <2> QED BY <1>1, <2>1, <2>2, <2>3 DEF Orders
<1>3. /\ N \in Nat /\ s \in Seq(S) /\ Len(s) = N
      /\ \A x \in S : \E n \in 1..N : s[n] = x
      /\ \A i, j \in 1..N : i < j <=> <<s[i], s[j]>> \in before
    <2> HIDE DEF before
    <2> QED BY <1>2, SortedInOrder
<1> HIDE DEF s, N, before
<1>4. N >= 1
    <2>1. PICK x \in S : TRUE
        OBVIOUS
    <2>2. PICK n \in 1..N : s[n] = x
        BY <1>3
    <2> QED BY <1>3, <2>2
<1>5. s[1] \in S
    BY <1>3, <1>4
<1>6. ASSUME NEW j \in S
      PROVE  score[s[1]] > score[j] \/ (score[s[1]] = score[j] /\ s[1] <= j)
    <2>1. PICK n \in 1..N : s[n] = j
        BY <1>3
    <2>2. CASE n = 1
        BY <1>5, <2>1, <2>2
    <2>3. CASE 1 < n
        <3>1. <<s[1], s[n]>> \in before
            BY <1>3, <1>4, <2>3
        <3>2. Comes(s[1], s[n])
            <4> HIDE DEF Comes
            <4> QED BY <1>1, <1>5, <2>1, <3>1
        <3>3. s[1] \in Int /\ j \in Int
            BY <1>5
        <3> QED BY <2>1, <3>2, <3>3
    <2> QED BY <1>3, <2>2, <2>3
<1> QED BY <1>5, <1>6

\* A function over 1..n is a list.
LEMMA ListType ==
    ASSUME NEW T, NEW n \in Nat, NEW f \in [1..n -> T]
    PROVE  f \in Seq(T) /\ Len(f) = n
OBVIOUS

\* Diversification picks candidates only.
LEMMA MmrType ==
    ASSUME NEW candidatesOf \in Seq(Chunks), NEW relevanceOf,
           \A c \in ToSet(candidatesOf) : relevanceOf[c] \in Nat,
           NEW alike, NEW k \in Nat
    PROVE  MmrSelect(candidatesOf, relevanceOf, alike, k) \in Seq(ToSet(candidatesOf))
<1> DEFINE all == DOMAIN candidatesOf
           rel == [i \in all |-> relevanceOf[candidatesOf[i]]]
           least == Min(ToSet(rel))
           span == Max(ToSet(rel)) - least
           Similar(i, chosen) ==
               IF \E j \in chosen : {candidatesOf[i], candidatesOf[j]} \in alike THEN 1 ELSE 0
           Score(i, chosen) ==
               IF span > 0
                 THEN Lambda * (rel[i] - least) - (10 - Lambda) * span * Similar(i, chosen)
                 ELSE Lambda - (10 - Lambda) * Similar(i, chosen)
           Best(chosen) ==
               CHOOSE i \in all \ chosen :
                   \A j \in all \ chosen :
                       \/ Score(i, chosen) > Score(j, chosen)
                       \/ Score(i, chosen) = Score(j, chosen) /\ i <= j
           Body(f) == [n \in 0..k |->
                          IF n = 0 THEN <<>> ELSE Append(f[n - 1], Best(ToSet(f[n - 1])))]
           picked == CHOOSE f : f = Body(f)
           N == Len(candidatesOf)
           C == ToSet(candidatesOf)
           result == MmrSelect(candidatesOf, relevanceOf, alike, k)
<1>1. N \in Nat /\ all = 1..N /\ candidatesOf \in Seq(C)
    <2>1. \A i \in 1..N : candidatesOf[i] \in C
        BY ContainsToSet
    <2> HIDE DEF C
    <2> QED BY <2>1
<1>2. CASE N <= k \/ Lambda = 10
    <2> DEFINE m == IF N < k THEN N ELSE k
    <2>1. result = SubSeq(candidatesOf, 1, m)
        BY <1>2, Zenon DEF MmrSelect
    <2>2. m \in 0..N
        BY <1>1
    <2> HIDE DEF m, result, C, N
    <2>3. SubSeq(candidatesOf, 1, m) \in Seq(C)
        BY <1>1, <2>2, CutType DEF N
    <2> QED BY <2>1, <2>3, Zenon DEF result, C
<1>3. CASE ~(N <= k \/ Lambda = 10)
    <2>1. result = [n \in 1..k |-> candidatesOf[picked[k][n]]]
        BY <1>3, Zenon DEF MmrSelect
    <2>2. k < N
        BY <1>1, <1>3
    <2>3. \A i \in all : rel[i] \in Nat
        BY <1>1
    <2>4. least \in Int /\ span \in Int
        <3>1. ToSet(rel) = {rel[i] : i \in DOMAIN rel} /\ DOMAIN rel = all
            BY DEF ToSet
        <3>2. IsFiniteSet(all)
            BY <1>1, FS_Interval
        <3>3. IsFiniteSet(ToSet(rel)) /\ ToSet(rel) # {} /\ ToSet(rel) \in SUBSET Int
            <4> HIDE DEF rel, all
            <4>1. all # {}
                <5>1. 1 \in 1..N
                    BY <1>1, <2>2
                <5> QED BY <1>1, <5>1
            <4> QED BY <2>3, <3>1, <3>2, <4>1, ImageFinite
        <3> HIDE DEF rel
        <3> QED BY <3>3, Extremes
    <2>5. ASSUME NEW chosen, NEW i \in all PROVE Score(i, chosen) \in Int
        <3>1. Similar(i, chosen) \in Int
            OBVIOUS
        <3>2. rel[i] \in Int /\ Lambda \in Int
            BY <2>3, RankingAssumption
        <3> HIDE DEF Similar, rel, least, span, all
        <3> QED BY <2>4, <3>1, <3>2
    <2>6. ASSUME NEW chosen, all \ chosen # {} PROVE Best(chosen) \in all
        <3> DEFINE rest == all \ chosen
                   score == [i \in rest |-> Score(i, chosen)]
        <3>1. IsFiniteSet(rest) /\ rest \in SUBSET Int /\ rest # {}
            <4>1. IsFiniteSet(all)
                BY <1>1, FS_Interval
            <4>2. IsFiniteSet(rest)
                BY <4>1, FS_Difference
            <4>3. rest \in SUBSET Int
                BY <1>1
            <4> QED BY <2>6, <4>2, <4>3
        <3>2. score \in [rest -> Int] /\ \A i \in rest : score[i] = Score(i, chosen)
            <4> HIDE DEF Score
            <4> QED BY <2>5
        <3>3. \E i \in rest : \A j \in rest : \/ score[i] > score[j]
                                              \/ score[i] = score[j] /\ i <= j
            <4> HIDE DEF rest, score
            <4> QED BY <3>1, <3>2, BestExists
        <3>4. \E i \in rest : \A j \in rest : \/ Score(i, chosen) > Score(j, chosen)
                                              \/ Score(i, chosen) = Score(j, chosen) /\ i <= j
            <4> HIDE DEF rest, score, Score
            <4> QED BY <3>2, <3>3
        <3> HIDE DEF Score
        <3> QED BY <3>4
    <2> HIDE DEF Best
    <2>7. ASSUME NEW x \in Seq(all), Len(x) < N PROVE Best(ToSet(x)) \in all
        <3>1. IsFiniteSet(ToSet(x)) /\ Cardinality(ToSet(x)) < N
            <4>1. Len(x) \in Nat
                OBVIOUS
            <4>2. IsFiniteSet(ToSet(x)) /\ Cardinality(ToSet(x)) <= Len(x)
                BY ToSetFinite
            <4> QED BY <1>1, <2>7, <4>1, <4>2, FS_CardinalityType
        <3>2. IsFiniteSet(all) /\ Cardinality(all) = N
            <4>1. IsFiniteSet(1..N) /\ Cardinality(1..N) = N
                <5> HIDE DEF N
                <5> QED BY <1>1, FS_Interval
            <4> QED BY <1>1, <4>1
        <3>3. all \ ToSet(x) # {}
            <4> SUFFICES ASSUME all \subseteq ToSet(x) PROVE FALSE
                OBVIOUS
            <4>1. Cardinality(all) <= Cardinality(ToSet(x))
                <5> HIDE DEF all
                <5> QED BY <3>1, FS_Subset
            <4>2. Cardinality(ToSet(x)) \in Nat
                BY <3>1, FS_CardinalityType
            <4> QED BY <1>1, <3>1, <3>2, <4>1, <4>2
        <3> QED BY <2>6, <3>3
    <2> DEFINE step == [y \in (1..k) \X Seq(all) |->
                           IF Len(y[2]) < N THEN Append(y[2], Best(ToSet(y[2]))) ELSE y[2]]
    <2> HIDE DEF all
    <2>8. step \in [(1..k) \X Seq(all) -> Seq(all)]
        BY <2>7
    <2>9. \A n \in 1..k, x \in Seq(all) :
             step[<<n, x>>] = IF Len(x) < N THEN Append(x, Best(ToSet(x))) ELSE x
        OBVIOUS
    <2>10. PICK f \in [0..k -> Seq(all)] :
              f[0] = <<>> /\ \A n \in 1..k : f[n] = step[<<n, f[n - 1]>>]
        <3> HIDE DEF step
        <3>1. Loops(Seq(all), <<>>, k, step) # {}
            <4>1. <<>> \in Seq(all)
                OBVIOUS
            <4> QED BY <2>8, <4>1, Recursion
        <3> QED BY <3>1 DEF Loops
    <2> HIDE DEF step
    <2>11. \A n \in 0..k : Len(f[n]) = n
        <3> DEFINE T == {n \in 0..k : Len(f[n]) = n}
        <3>1. 0 \in T
            BY <2>10
        <3>2. ASSUME NEW i \in 0..(k - 1), i \in T PROVE i + 1 \in T
            <4>1. i + 1 \in 1..k /\ (i + 1) - 1 = i /\ f[i] \in Seq(all) /\ Len(f[i]) = i /\ i < N
                BY <1>1, <2>2, <3>2
            <4>2. f[i + 1] = Append(f[i], Best(ToSet(f[i])))
                BY <2>9, <2>10, <4>1, ZenonT(30)
            <4>3. Len(f[i + 1]) = i + 1
                BY <4>1, <4>2
            <4> QED BY <4>1, <4>3
        <3> HIDE DEF T
        <3>3. \A n \in 0..k : n \in T
            BY <3>1, <3>2, Induction
        <3> QED BY <3>3 DEF T
    <2>12. ASSUME NEW n \in 1..k PROVE f[n] = Append(f[n - 1], Best(ToSet(f[n - 1])))
        <3>1. n - 1 \in 0..k /\ f[n - 1] \in Seq(all) /\ Len(f[n - 1]) < N
            BY <1>1, <2>2, <2>11
        <3> QED BY <2>9, <2>10, <3>1
    <2>13. f = Body(f)
        <3>1. ASSUME NEW n \in 0..k
              PROVE  f[n] = IF n = 0 THEN <<>> ELSE Append(f[n - 1], Best(ToSet(f[n - 1])))
            <4> HIDE DEF Best
            <4>1. n = 0 \/ n \in 1..k
                BY <1>1
            <4>2. n \in 1..k => n # 0
                OBVIOUS
            <4> QED BY <2>10, <2>12, <4>1, <4>2, Zenon
        <3>2. f = [n \in 0..k |-> f[n]]
            BY <2>10
        <3> HIDE DEF Best
        <3> QED BY <3>1, <3>2, Zenon
    <2>14. picked = Body(picked)
        <3> HIDE DEF Body
        <3> QED BY <2>13, Zenon
    <2> HIDE DEF picked
    <2>15. /\ picked[0] = <<>>
           /\ \A n \in 1..k : picked[n] = Append(picked[n - 1], Best(ToSet(picked[n - 1])))
        <3>1. \A n \in 0..k : picked[n] =
                 IF n = 0 THEN <<>> ELSE Append(picked[n - 1], Best(ToSet(picked[n - 1])))
            BY <2>14, Zenon
        <3>2. 0 \in 0..k /\ \A n \in 1..k : n \in 0..k /\ n # 0
            OBVIOUS
        <3> HIDE DEF Body
        <3> QED BY <3>1, <3>2, Zenon
    <2>16. \A n \in 0..k : picked[n] \in Seq(all) /\ Len(picked[n]) = n
        <3> DEFINE T == {n \in 0..k : picked[n] \in Seq(all) /\ Len(picked[n]) = n}
        <3>1. 0 \in T
            <4>1. <<>> \in Seq(all) /\ Len(<<>>) = 0 /\ 0 \in 0..k
                OBVIOUS
            <4> QED BY <2>15, <4>1
        <3>2. ASSUME NEW i \in 0..(k - 1), i \in T PROVE i + 1 \in T
            <4>1. /\ i + 1 \in 1..k /\ (i + 1) - 1 = i /\ i < N
                  /\ picked[i] \in Seq(all) /\ Len(picked[i]) = i
                BY <1>1, <2>2, <3>2
            <4>2. picked[i + 1] = Append(picked[i], Best(ToSet(picked[i])))
                BY <2>15, <4>1
            <4>3. Best(ToSet(picked[i])) \in all
                BY <2>7, <4>1
            <4>4. Append(picked[i], Best(ToSet(picked[i]))) \in Seq(all)
                BY <4>1, <4>3
            <4>5. Len(Append(picked[i], Best(ToSet(picked[i])))) = i + 1
                BY <4>1
            <4>6. i + 1 \in 0..k
                BY <4>1
            <4>7. picked[i + 1] \in Seq(all) /\ Len(picked[i + 1]) = i + 1
                BY <4>2, <4>4, <4>5
            <4> QED BY <4>6, <4>7
        <3> HIDE DEF T
        <3>3. \A n \in 0..k : n \in T
            BY <3>1, <3>2, Induction
        <3> QED BY <3>3 DEF T
    <2>17. ASSUME NEW n \in 1..k PROVE candidatesOf[picked[k][n]] \in C
        <3>1. picked[k] \in Seq(all) /\ Len(picked[k]) = k
            BY <2>16
        <3>2. picked[k][n] \in all
            BY <3>1
        <3> QED BY <1>1, <3>2
    <2> HIDE DEF result, C
    <2>18. result \in Seq(C)
        <3> DEFINE Pick(n) == candidatesOf[picked[k][n]]
        <3>1. \A n \in 1..k : Pick(n) \in C
            BY <2>17
        <3>2. result = [n \in 1..k |-> Pick(n)]
            BY <2>1
        <3> HIDE DEF Pick
        <3>3. result \in [1..k -> C]
            BY <3>1, <3>2
        <3> QED BY <3>3, ListType
    <2> QED BY <2>18 DEF result, C
<1> HIDE DEF result, C, N
<1> QED BY <1>2, <1>3 DEF result, C

(***************************************************************************)
(* Context assembly: runs of positions                                     *)
(***************************************************************************)

\* The positions of the documents' chunks.
Positions == Docs \X (0..LastIndex)

\* A chunk is at a position.
LEMMA AtType ==
    ASSUME NEW c \in Chunks
    PROVE  At(c) \in Positions /\ c.doc \in Docs /\ c.index \in 0..LastIndex
BY DEF At, Chunks, Positions

\* There are finitely many positions.
LEMMA PositionsFinite == IsFiniteSet(Positions)
<1>1. IsFiniteSet(Docs) /\ 0 \in Int /\ LastIndex \in Int
    BY RetrievalAssumption
<1>2. IsFiniteSet(0..LastIndex)
    BY <1>1, FS_Interval
<1> QED BY <1>1, <1>2, FS_Product DEF Positions

\* by_pos holds under each position a chunk of that position.
LEMMA ByPositionKeeps ==
    ASSUME NEW sel \in Seq(Chunks), NEW near \in SUBSET Chunks
    PROVE  /\ DOMAIN ByPosition(sel, near) \subseteq Positions
           /\ \A p \in DOMAIN ByPosition(sel, near) :
                 /\ ByPosition(sel, near)[p] \in Chunks
                 /\ At(ByPosition(sel, near)[p]) = p
<1> DEFINE here == {At(c) : c \in ToSet(sel) \cup near}
           LastAt(p) == CHOOSE n \in DOMAIN sel :
                           /\ At(sel[n]) = p
                           /\ \A m \in DOMAIN sel : At(sel[m]) = p => m <= n
           Value(p) == IF \E c \in ToSet(sel) : At(c) = p
                         THEN sel[LastAt(p)]
                         ELSE CHOOSE c \in near : At(c) = p
           byPos == ByPosition(sel, near)
<1>1. byPos = [p \in here |-> Value(p)]
    BY DEF ByPosition
<1>2. here \subseteq Positions
    BY AtType, ContainsToSet
<1>3. ASSUME NEW p \in here PROVE Value(p) \in Chunks /\ At(Value(p)) = p
    <2>1. CASE \E c \in ToSet(sel) : At(c) = p
        <3> DEFINE S == {n \in DOMAIN sel : At(sel[n]) = p}
        <3>1. S # {} /\ S \in SUBSET Int
            BY <2>1 DEF ToSet
        <3>2. IsFiniteSet(S)
            <4>1. S \in SUBSET (1..Len(sel)) /\ Len(sel) \in Int /\ 1 \in Int
                OBVIOUS
            <4>2. IsFiniteSet(1..Len(sel))
                BY <4>1, FS_Interval
            <4> HIDE DEF S
            <4> QED BY <4>1, <4>2, FS_Subset
        <3>3. Max(S) \in S /\ \A m \in S : m <= Max(S)
            <4> HIDE DEF S
            <4> QED BY <3>1, <3>2, Extremes
        <3>4. \E n \in DOMAIN sel : /\ At(sel[n]) = p
                                    /\ \A m \in DOMAIN sel : At(sel[m]) = p => m <= n
            <4> DEFINE n == Max(S)
            <4> HIDE DEF n
            <4>1. n \in S /\ \A m \in S : m <= n
                BY <3>3 DEF n
            <4> QED BY <4>1
        <3>5. LastAt(p) \in DOMAIN sel /\ At(sel[LastAt(p)]) = p
            BY <3>4
        <3> HIDE DEF LastAt
        <3> QED BY <2>1, <3>5
    <2>2. CASE ~ \E c \in ToSet(sel) : At(c) = p
        <3>1. \E c \in near : At(c) = p
            BY <2>2
        <3> HIDE DEF here
        <3> QED BY <2>2, <3>1
    <2> QED BY <2>1, <2>2
<1> HIDE DEF here, Value, byPos
<1>4. DOMAIN byPos = here /\ \A p \in here : byPos[p] = Value(p)
    BY <1>1
<1> QED BY <1>2, <1>3, <1>4 DEF byPos

\* The first chunk selected of a document.
LEMMA FirstExists ==
    ASSUME NEW sel \in Seq(Chunks), NEW d, \E n \in DOMAIN sel : sel[n].doc = d
    PROVE  \E n \in DOMAIN sel : sel[n].doc = d /\ \A m \in 1..(n - 1) : sel[m].doc # d
<1> DEFINE S == {n \in DOMAIN sel : sel[n].doc = d}
<1>1. S # {} /\ S \in SUBSET Int /\ S \in SUBSET (1..Len(sel)) /\ Len(sel) \in Int /\ 1 \in Int
    OBVIOUS
<1>2. IsFiniteSet(S)
    <2>1. IsFiniteSet(1..Len(sel))
        BY <1>1, FS_Interval
    <2> HIDE DEF S
    <2> QED BY <1>1, <2>1, FS_Subset
<1> DEFINE n == Min(S)
<1>3. n \in S /\ \A m \in S : n <= m
    <2> HIDE DEF S
    <2> QED BY <1>1, <1>2, Extremes
<1> HIDE DEF n
<1>4. \A m \in 1..(n - 1) : m \in DOMAIN sel /\ ~(n <= m)
    BY <1>1, <1>3
<1> QED BY <1>3, <1>4

\* The positions of a run follow one another.
Consecutive(run) == \A i \in 1..Len(run) : run[i] = <<run[1][1], run[1][2] + i - 1>>

\* Two runs that have no position in common.
Apart(r, s) == \A i \in 1..Len(r), j \in 1..Len(s) : r[i] # s[j]

\* What Runs promises: runs are not empty, their positions are consecutive and
\* wanted, and two of them share none.
AreRuns(runs, wanted) ==
    /\ runs \in Seq(Seq(wanted))
    /\ \A n \in DOMAIN runs : Len(runs[n]) >= 1 /\ Consecutive(runs[n])
    /\ \A m, n \in DOMAIN runs : m # n => Apart(runs[m], runs[n])

\* Runs keeps what it promises.
LEMMA RunsAreDisjoint ==
    ASSUME NEW sel \in Seq(Chunks), NEW wanted \in SUBSET Positions,
           \A p \in wanted : \E n \in DOMAIN sel : sel[n].doc = p[1]
    PROVE  AreRuns(Runs(wanted, sel), wanted)
<1> DEFINE Follows(p) == <<p[1], p[2] + 1>>
           Span(p, q) == {<<p[1], i>> : i \in p[2]..q[2]}
           IsRun(p, q) == /\ p[1] = q[1] /\ p[2] <= q[2]
                          /\ Span(p, q) \subseteq wanted
                          /\ Follows(q) \notin wanted /\ <<p[1], p[2] - 1>> \notin wanted
           ends == {r \in wanted \X wanted : IsRun(r[1], r[2])}
           First(d) == CHOOSE n \in DOMAIN sel :
                           /\ sel[n].doc = d
                           /\ \A m \in 1..(n - 1) : sel[m].doc # d
           Before(r, s) == \/ First(r[1][1]) < First(s[1][1])
                           \/ r[1][1] = s[1][1] /\ r[1][2] < s[1][2]
           before == {p \in ends \X ends : Before(p[1], p[2])}
           order == Sorted(ends, before)
           Length(e) == e[2][2] - e[1][2] + 1
           Run(e) == [i \in 1..Length(e) |-> <<e[1][1], e[1][2] + i - 1>>]
           N == Cardinality(ends)
           runs == Runs(wanted, sel)
<1>1. runs = [n \in DOMAIN order |-> Run(order[n])]
    BY DEF Runs
<1>2. \A p \in wanted : p[1] \in Docs /\ p[2] \in Int /\ p = <<p[1], p[2]>>
    BY DEF Positions
<1>3. \A e \in ends : /\ e[1] \in wanted /\ e[2] \in wanted /\ e = <<e[1], e[2]>>
                      /\ e[1][1] = e[2][1] /\ e[1][2] <= e[2][2]
                      /\ e[1][2] \in Int /\ e[2][2] \in Int
                      /\ Span(e[1], e[2]) \subseteq wanted
                      /\ Follows(e[2]) \notin wanted
                      /\ <<e[1][1], e[1][2] - 1>> \notin wanted
    BY <1>2
<1>4. \A e \in ends : \A i \in e[1][2]..e[2][2] : <<e[1][1], i>> \in wanted
    <2> SUFFICES ASSUME NEW e \in ends, NEW i \in e[1][2]..e[2][2]
                 PROVE  <<e[1][1], i>> \in wanted
        OBVIOUS
    <2>1. <<e[1][1], i>> \in Span(e[1], e[2])
        OBVIOUS
    <2> HIDE DEF Span, ends
    <2> QED BY <1>3, <2>1
\* Two intervals with a common position are the same one.
<1>5. ASSUME NEW r \in ends, NEW s \in ends, r[1][1] = s[1][1],
             NEW x \in Int, r[1][2] <= x, x <= r[2][2], s[1][2] <= x, x <= s[2][2]
      PROVE  r = s
    <2> DEFINE d == r[1][1]
    <2>1. /\ \A i \in r[1][2]..r[2][2] : <<d, i>> \in wanted
          /\ \A i \in s[1][2]..s[2][2] : <<d, i>> \in wanted
        BY <1>4, <1>5
    <2>2. /\ <<d, r[1][2] - 1>> \notin wanted /\ <<d, s[1][2] - 1>> \notin wanted
          /\ <<d, r[2][2] + 1>> \notin wanted /\ <<d, s[2][2] + 1>> \notin wanted
        BY <1>3, <1>5
    <2>3. /\ r[1][2] \in Int /\ r[2][2] \in Int /\ s[1][2] \in Int /\ s[2][2] \in Int
          /\ r[1] = <<d, r[1][2]>> /\ r[2] = <<d, r[2][2]>>
          /\ s[1] = <<d, s[1][2]>> /\ s[2] = <<d, s[2][2]>>
          /\ r = <<r[1], r[2]>> /\ s = <<s[1], s[2]>>
        BY <1>2, <1>3, <1>5
    <2> HIDE DEF ends, d
    <2>4. ~(r[1][2] < s[1][2])
        <3> SUFFICES ASSUME r[1][2] < s[1][2] PROVE FALSE
            OBVIOUS
        <3>1. s[1][2] - 1 \in r[1][2]..r[2][2]
            BY <1>5, <2>3
        <3> QED BY <2>1, <2>2, <3>1
    <2>5. ~(s[1][2] < r[1][2])
        <3> SUFFICES ASSUME s[1][2] < r[1][2] PROVE FALSE
            OBVIOUS
        <3>1. r[1][2] - 1 \in s[1][2]..s[2][2]
            BY <1>5, <2>3
        <3> QED BY <2>1, <2>2, <3>1
    <2>6. ~(r[2][2] < s[2][2])
        <3> SUFFICES ASSUME r[2][2] < s[2][2] PROVE FALSE
            OBVIOUS
        <3>1. r[2][2] + 1 \in s[1][2]..s[2][2]
            BY <1>5, <2>3
        <3> QED BY <2>1, <2>2, <3>1
    <2>7. ~(s[2][2] < r[2][2])
        <3> SUFFICES ASSUME s[2][2] < r[2][2] PROVE FALSE
            OBVIOUS
        <3>1. s[2][2] + 1 \in r[1][2]..r[2][2]
            BY <1>5, <2>3
        <3> QED BY <2>1, <2>2, <3>1
    <2>8. r[1][2] = s[1][2] /\ r[2][2] = s[2][2]
        BY <2>3, <2>4, <2>5, <2>6, <2>7
    <2>9. r[1] = s[1] /\ r[2] = s[2]
        BY <2>3, <2>8
    <2> QED BY <2>3, <2>9
<1>6. ASSUME NEW e \in ends
      PROVE  First(e[1][1]) \in Int /\ sel[First(e[1][1])].doc = e[1][1]
    <2>1. \E n \in DOMAIN sel : sel[n].doc = e[1][1]
        BY <1>3
    <2>2. \E n \in DOMAIN sel : /\ sel[n].doc = e[1][1]
                                /\ \A m \in 1..(n - 1) : sel[m].doc # e[1][1]
        BY <2>1, FirstExists
    <2> HIDE DEF ends
    <2> QED BY <2>2
<1>7. Orders(before, ends)
    <2>1. \A r, s \in ends : <<r, s>> \in before <=> Before(r, s)
        <3> HIDE DEF Before, ends
        <3> QED OBVIOUS
    <2> HIDE DEF First, before
    <2>2. \A r \in ends : First(r[1][1]) \in Int /\ r[1][2] \in Int
        BY <1>3, <1>6
    <2>3. \A r, s \in ends : First(r[1][1]) = First(s[1][1]) => r[1][1] = s[1][1]
        <3> HIDE DEF ends
        <3> QED BY <1>6
    <2>4. \A r, s \in ends : r[1][1] = s[1][1] /\ r[1][2] = s[1][2] => r = s
        <3> SUFFICES ASSUME NEW r \in ends, NEW s \in ends,
                            r[1][1] = s[1][1], r[1][2] = s[1][2]
                     PROVE  r = s
            OBVIOUS
        <3> DEFINE x == r[1][2]
        <3>1. x \in Int /\ r[1][2] <= x /\ x <= r[2][2] /\ s[1][2] <= x /\ x <= s[2][2]
            BY <1>3
        <3> HIDE DEF ends, x
        <3> QED BY <1>5, <3>1
    <2> HIDE DEF ends
    <2>5. \A r \in ends : ~Before(r, r)
        BY <2>2
    <2>6. \A r, s \in ends : r # s => Before(r, s) \/ Before(s, r)
        BY <2>2, <2>3, <2>4
    <2>7. \A r, s, t \in ends : Before(r, s) /\ Before(s, t) => Before(r, t)
        BY <2>2
    <2> HIDE DEF Before
    <2> QED BY <2>1, <2>5, <2>6, <2>7 DEF Orders
<1>8. IsFiniteSet(ends)
    <2>1. IsFiniteSet(wanted \X wanted)
        BY PositionsFinite, FS_Subset, FS_Product
    <2>2. ends \in SUBSET (wanted \X wanted)
        OBVIOUS
    <2> HIDE DEF ends
    <2> QED BY <2>1, <2>2, FS_Subset
<1> HIDE DEF before, ends, First
<1>9. /\ N \in Nat /\ order \in Seq(ends) /\ Len(order) = N
      /\ \A i, j \in 1..N : order[i] = order[j] => i = j
    BY <1>7, <1>8, SortedInOrder
<1> HIDE DEF order, N, Run, runs
<1>10. ASSUME NEW e \in ends
       PROVE  /\ Length(e) \in Nat /\ Length(e) >= 1 /\ Len(Run(e)) = Length(e)
              /\ Run(e) \in Seq(wanted)
              /\ \A i \in 1..Length(e) : Run(e)[i] = <<e[1][1], e[1][2] + i - 1>>
    <2>1. /\ e[1][2] \in Int /\ e[2][2] \in Int /\ e[1][2] <= e[2][2]
          /\ \A i \in e[1][2]..e[2][2] : <<e[1][1], i>> \in wanted
        BY <1>3, <1>4
    <2>2. Length(e) \in Nat /\ Length(e) >= 1
        BY <2>1
    <2>3. \A i \in 1..Length(e) : e[1][2] + i - 1 \in e[1][2]..e[2][2]
        BY <2>1
    <2>4. \A i \in 1..Length(e) : <<e[1][1], e[1][2] + i - 1>> \in wanted
        BY <2>1, <2>3
    <2> HIDE DEF Length
    <2>5. Run(e) \in [1..Length(e) -> wanted]
        BY <2>4 DEF Run
    <2>6. Run(e) \in Seq(wanted) /\ Len(Run(e)) = Length(e)
        BY <2>2, <2>5
    <2>7. \A i \in 1..Length(e) : Run(e)[i] = <<e[1][1], e[1][2] + i - 1>>
        BY DEF Run
    <2> QED BY <2>2, <2>6, <2>7
<1>11. DOMAIN order = 1..N /\ \A n \in 1..N : order[n] \in ends
    BY <1>9
<1>12. DOMAIN runs = 1..N /\ \A n \in 1..N : runs[n] = Run(order[n])
    BY <1>1, <1>11
<1>13. runs \in Seq(Seq(wanted))
    <2>1. \A n \in 1..N : Run(order[n]) \in Seq(wanted)
        BY <1>10, <1>11
    <2>2. runs = [n \in 1..N |-> Run(order[n])]
        BY <1>1, <1>11
    <2>3. runs \in [1..N -> Seq(wanted)]
        BY <2>1, <2>2
    <2> QED BY <1>9, <2>3
<1>14. ASSUME NEW n \in 1..N
       PROVE  /\ Len(runs[n]) >= 1
              /\ \A i \in 1..Len(runs[n]) :
                    runs[n][i] = <<runs[n][1][1], runs[n][1][2] + i - 1>>
    <2> DEFINE e == order[n]
    <2>1. e \in ends /\ runs[n] = Run(e) /\ e[1][2] \in Int
        BY <1>3, <1>11, <1>12
    <2> HIDE DEF e, Length
    <2>2. /\ Length(e) \in Nat /\ Length(e) >= 1 /\ Len(runs[n]) = Length(e)
          /\ \A i \in 1..Length(e) : runs[n][i] = <<e[1][1], e[1][2] + i - 1>>
        BY <1>10, <2>1
    <2>3. runs[n][1] = <<e[1][1], e[1][2]>>
        BY <2>1, <2>2
    <2> QED BY <2>2, <2>3
<1>15. ASSUME NEW m \in 1..N, NEW n \in 1..N,
              NEW i \in 1..Len(runs[m]), NEW j \in 1..Len(runs[n]), runs[m][i] = runs[n][j]
       PROVE  m = n
    <2> DEFINE r == order[m]
               s == order[n]
    <2>1. r \in ends /\ runs[m] = Run(r) /\ s \in ends /\ runs[n] = Run(s)
        BY <1>11, <1>12
    <2>2. /\ r[1][2] \in Int /\ r[2][2] \in Int /\ s[1][2] \in Int /\ s[2][2] \in Int
        BY <1>3, <2>1
    <2> HIDE DEF r, s
    <2>3. /\ i \in 1..Length(r) /\ runs[m][i] = <<r[1][1], r[1][2] + i - 1>>
          /\ j \in 1..Length(s) /\ runs[n][j] = <<s[1][1], s[1][2] + j - 1>>
        <3> HIDE DEF Length
        <3> QED BY <1>10, <2>1
    <2> DEFINE x == r[1][2] + i - 1
               y == s[1][2] + j - 1
    <2>4. r[1][1] = s[1][1] /\ x = y
        <3>1. <<r[1][1], x>> = <<s[1][1], y>>
            BY <1>15, <2>3
        <3> HIDE DEF x, y
        <3> QED BY <3>1
    <2>5. x \in Int /\ r[1][2] <= x /\ x <= r[2][2] /\ s[1][2] <= x /\ x <= s[2][2]
        <3>1. /\ i \in Int /\ 1 <= i /\ i <= r[2][2] - r[1][2] + 1
              /\ j \in Int /\ 1 <= j /\ j <= s[2][2] - s[1][2] + 1
            BY <2>2, <2>3
        <3>a. ASSUME NEW a \in Int, NEW b \in Int, NEW n0 \in Int, 1 <= n0, n0 <= b - a + 1
              PROVE  a + n0 - 1 \in Int /\ a <= a + n0 - 1 /\ a + n0 - 1 <= b
            BY <3>a
        <3>2. x \in Int /\ r[1][2] <= x /\ x <= r[2][2]
            BY <2>2, <3>1, <3>a
        <3>3. y \in Int /\ s[1][2] <= y /\ y <= s[2][2]
            BY <2>2, <3>1, <3>a
        <3> HIDE DEF x, y
        <3> QED BY <2>4, <3>2, <3>3
    <2> HIDE DEF x
    <2>6. r = s
        BY <1>5, <2>1, <2>4, <2>5
    <2> QED BY <1>9, <2>6 DEF r, s
<1>16. AreRuns(runs, wanted)
    BY <1>12, <1>13, <1>14, <1>15 DEF AreRuns, Consecutive, Apart
<1> QED BY <1>16 DEF runs

(***************************************************************************)
(* Context assembly: scores and the token budget                           *)
(***************************************************************************)

\* The scores of a finite, non-empty set of things.
LEMMA BestScoreType ==
    ASSUME NEW f, IsFiniteSet(DOMAIN f), DOMAIN f # {}, \A x \in DOMAIN f : f[x] \in Nat
    PROVE  Max({f[x] : x \in DOMAIN f}) \in Nat
<1> DEFINE S == {f[x] : x \in DOMAIN f}
<1>1. S # {} /\ S \in SUBSET Int /\ S \in SUBSET Nat
    OBVIOUS
<1>2. IsFiniteSet(S)
    BY ImageFinite
<1>3. Max(S) \in S
    <2> HIDE DEF S
    <2> QED BY <1>1, <1>2, Extremes
<1> HIDE DEF S
<1>4. Max(S) \in Nat
    BY <1>1, <1>3
<1> QED BY <1>4 DEF S

\* A wanted position has a score.
LEMMA WantedScoreType ==
    ASSUME NEW sel \in Seq(Chunks), NEW rel, \A c \in ToSet(sel) : rel[c] \in Nat,
           NEW p, \E c \in ToSet(sel) : p \in Near(c)
    PROVE  WantedScore(p, sel, rel) \in Nat
<1> DEFINE S == {s \in ToSet(sel) : p \in Near(s)}
           f == [c \in S |-> rel[c]]
<1>1. IsFiniteSet(S) /\ S # {}
    BY ToSetFinite, FS_Subset
<1>2. DOMAIN f = S /\ \A x \in S : f[x] \in Nat /\ f[x] = rel[x]
    OBVIOUS
<1>3. WantedScore(p, sel, rel) = Max({rel[c] : c \in S})
    BY DEF WantedScore
<1>4. {rel[c] : c \in S} = {f[x] : x \in DOMAIN f}
    OBVIOUS
<1> HIDE DEF f, S
<1>5. Max({f[x] : x \in DOMAIN f}) \in Nat
    BY <1>1, <1>2, BestScoreType
<1> QED BY <1>3, <1>4, <1>5

\* The tokens of the chunk at each position.
TokenTables == [Docs \X (0..LastIndex) -> TokenCounts]

\* The cost of chunks is a natural number.
LEMMA CostType ==
    ASSUME NEW chunks \in Seq(Chunks), NEW tokens \in TokenTables
    PROVE  Cost(chunks, tokens) \in Nat
<1> DEFINE s == [n \in DOMAIN chunks |-> tokens[At(chunks[n])]]
<1>1. \A n \in DOMAIN chunks : tokens[At(chunks[n])] \in Nat
    <2> SUFFICES ASSUME NEW n \in DOMAIN chunks PROVE tokens[At(chunks[n])] \in Nat
        OBVIOUS
    <2>1. chunks[n] \in Chunks
        OBVIOUS
    <2>2. At(chunks[n]) \in Positions
        BY <2>1, AtType
    <2>3. TokenCounts \subseteq Nat
        BY RetrievalAssumption
    <2>4. tokens \in [Positions -> TokenCounts]
        BY DEF TokenTables, Positions
    <2> QED BY <2>2, <2>3, <2>4
<1>2. s \in Seq(Nat)
    BY <1>1
<1> HIDE DEF s
<1>3. SumOf(s) \in Nat
    BY <1>2, SumType
<1> QED BY <1>3 DEF s, Cost

\* The tokens used grow by those of each passage that is added.
LEMMA TokensUsedSteps ==
    ASSUME NEW ps \in Seq(Answer), NEW a \in Answer
    PROVE  /\ TokensUsed(ps) \in Nat
           /\ ps = <<>> => TokensUsed(ps) = 0
           /\ TokensUsed(Append(ps, a)) = TokensUsed(ps) + a.tokens
           /\ a.tokens \in Nat
<1> DEFINE s == [n \in DOMAIN ps |-> ps[n].tokens]
           t == [n \in DOMAIN Append(ps, a) |-> Append(ps, a)[n].tokens]
<1>1. a.tokens \in Nat
    BY DEF Answer
<1>2. s \in Seq(Nat) /\ Len(s) = Len(ps)
    <2>1. \A n \in DOMAIN ps : ps[n] \in Answer
        OBVIOUS
    <2>2. \A n \in DOMAIN ps : ps[n].tokens \in Nat
        BY <2>1 DEF Answer
    <2>3. s \in [1..Len(ps) -> Nat]
        BY <2>2
    <2> HIDE DEF s
    <2> QED BY <2>3
<1>3. t = Append(s, a.tokens)
    <2>1. DOMAIN t = 1..(Len(ps) + 1) /\ DOMAIN Append(s, a.tokens) = 1..(Len(ps) + 1)
        BY <1>1, <1>2
    <2>2. \A n \in 1..(Len(ps) + 1) : t[n] = Append(s, a.tokens)[n]
        BY <1>1, <1>2, SMTT(30)
    <2>3. t \in Seq(Nat) /\ Append(s, a.tokens) \in Seq(Nat)
        BY <1>1, <1>2, SMTT(30) DEF Answer
    <2> HIDE DEF t, s
    <2> QED BY <2>1, <2>2, <2>3, SMTT(30)
<1>4. TokensUsed(ps) = SumOf(s) /\ TokensUsed(Append(ps, a)) = SumOf(t)
    BY DEF TokensUsed
<1> HIDE DEF s, t
<1>5. SumOf(s) \in Nat /\ SumOf(t) = SumOf(s) + a.tokens
    BY <1>1, <1>2, <1>3, SumType, SumAppend
<1>6. ps = <<>> => SumOf(s) = 0
    BY <1>2, SumEmpty
<1> QED BY <1>1, <1>4, <1>5, <1>6

\* What PassagesFitBudget says of a list of passages.
Fits(ps) == TokensUsed(ps) <= MaxContextTokens \/ (Len(ps) = 1 /\ Len(ps[1].chunks) = 1)

\* What one turn of the loop may make of the passages: it leaves them or adds
\* one, of all the run's chunks or of its first.
MayFill(ps, next, chunks) ==
    /\ next \in Seq(Answer) /\ Fits(next)
    /\ \/ next = ps
       \/ \E a \in Answer :
             /\ next = Append(ps, a)
             /\ a.chunks = chunks \/ a.chunks = <<chunks[1]>>

\* A passage is added if it fits, or a single chunk to nothing.
LEMMA FillBudgetFits ==
    ASSUME NEW ps \in Seq(Answer), Fits(ps), NEW chunks \in Seq(Chunks), Len(chunks) >= 1,
           NEW score \in Nat, NEW tokens \in TokenTables
    PROVE  MayFill(ps, FillBudget(ps, chunks, score, tokens), chunks)
<1> DEFINE next == FillBudget(ps, chunks, score, tokens)
           whole == Passage(chunks, score, tokens)
           first == Passage(<<chunks[1]>>, score, tokens)
<1>1. <<chunks[1]>> \in Seq(Chunks)
    OBVIOUS
<1>2. Cost(chunks, tokens) \in Nat /\ Cost(<<chunks[1]>>, tokens) \in Nat
    BY <1>1, CostType
<1>3. whole \in Answer /\ whole.chunks = chunks /\ whole.tokens = Cost(chunks, tokens)
    BY <1>2 DEF Passage, Answer
<1>4. first \in Answer /\ first.chunks = <<chunks[1]>>
    BY <1>1, <1>2 DEF Passage, Answer
<1>5. MaxContextTokens \in Nat
    BY ContextAssumption
<1>6. CASE TokensUsed(ps) + Cost(chunks, tokens) <= MaxContextTokens
    <2>1. next = Append(ps, whole)
        BY <1>6 DEF FillBudget
    <2> HIDE DEF next, whole
    <2>2. TokensUsed(next) <= MaxContextTokens
        BY <1>3, <1>6, <2>1, TokensUsedSteps
    <2>3. next \in Seq(Answer)
        BY <1>3, <2>1
    <2>4. Fits(next)
        BY <2>2 DEF Fits
    <2> QED BY <1>3, <2>1, <2>3, <2>4 DEF next, MayFill
<1>7. CASE ~(TokensUsed(ps) + Cost(chunks, tokens) <= MaxContextTokens) /\ ps # <<>>
    <2>1. next = ps
        BY <1>7 DEF FillBudget
    <2> HIDE DEF next
    <2> QED BY <2>1 DEF next, MayFill
<1>8. CASE ~(TokensUsed(ps) + Cost(chunks, tokens) <= MaxContextTokens) /\ ps = <<>>
    <2>1. next = <<first>>
        BY <1>8 DEF FillBudget
    <2>2. next = Append(ps, first)
        BY <1>8, <2>1
    <2> HIDE DEF next, first
    <2>3. next \in Seq(Answer)
        BY <1>4, <2>1
    <2>4. Len(next) = 1 /\ next[1] = first
        BY <2>1
    <2>5. Fits(next)
        BY <1>4, <2>4 DEF Fits
    <2> QED BY <1>4, <2>2, <2>3, <2>5 DEF next, MayFill
<1> QED BY <1>6, <1>7, <1>8

\* Which run each passage was cut from, among the first n: its chunks are the
\* first chunks of that run, and no run is taken twice.
Sources(ps, blocks, n) ==
    {src \in [1..Len(ps) -> 1..n] :
        /\ \A i, j \in 1..Len(ps) : src[i] = src[j] => i = j
        /\ \A i \in 1..Len(ps) :
              /\ Len(ps[i].chunks) <= Len(blocks[src[i]])
              /\ \A x \in 1..Len(ps[i].chunks) : ps[i].chunks[x] = blocks[src[i]][x]}

\* What is taken of run n + 1 is cut from it.
LEMMA SourcesGrow ==
    ASSUME NEW N \in Nat, NEW blocks \in [1..N -> Seq(Chunks)], NEW n \in 0..(N - 1),
           NEW ps \in Seq(Answer), Sources(ps, blocks, n) # {},
           NEW next, NEW a \in Answer, Len(blocks[n + 1]) >= 1,
           \/ next = ps
           \/ /\ next = Append(ps, a)
              /\ a.chunks = blocks[n + 1] \/ a.chunks = <<blocks[n + 1][1]>>
    PROVE  Sources(next, blocks, n + 1) # {}
<1>1. PICK src \in [1..Len(ps) -> 1..n] :
         /\ \A i, j \in 1..Len(ps) : src[i] = src[j] => i = j
         /\ \A i \in 1..Len(ps) :
               /\ Len(ps[i].chunks) <= Len(blocks[src[i]])
               /\ \A x \in 1..Len(ps[i].chunks) : ps[i].chunks[x] = blocks[src[i]][x]
    BY DEF Sources
<1>2. Len(ps) \in Nat /\ 1..n \subseteq 1..(n + 1) /\ n + 1 \in 1..(n + 1) /\ n + 1 \notin 1..n
    OBVIOUS
<1>3. CASE next = ps
    <2>1. src \in [1..Len(ps) -> 1..(n + 1)]
        BY <1>1, <1>2
    <2>2. src \in Sources(ps, blocks, n + 1)
        BY <1>1, <2>1 DEF Sources
    <2> QED BY <1>3, <2>2
<1>4. CASE next = Append(ps, a) /\ (a.chunks = blocks[n + 1] \/ a.chunks = <<blocks[n + 1][1]>>)
    <2> DEFINE L == Len(ps) + 1
               new == [i \in 1..L |-> IF i = L THEN n + 1 ELSE src[i]]
    <2>1. Len(next) = L /\ next[L] = a /\ \A i \in 1..Len(ps) : next[i] = ps[i]
        BY <1>4
    <2>2. \A i \in 1..L : i = L \/ i \in 1..Len(ps)
        BY <1>2
    <2>3. L \notin 1..Len(ps) /\ L \in 1..L
        BY <1>2
    <2>4. new[L] = n + 1 /\ \A i \in 1..Len(ps) : new[i] = src[i]
        BY <2>3, <1>2
    <2>5. new \in [1..L -> 1..(n + 1)]
        BY <1>1, <1>2, <2>2
    <2> HIDE DEF L, new
    <2>6. \A i \in 1..Len(ps) : src[i] \in 1..n
        BY <1>1
    <2>7. \A i, j \in 1..L : new[i] = new[j] => i = j
        <3> SUFFICES ASSUME NEW i \in 1..L, NEW j \in 1..L, new[i] = new[j] PROVE i = j
            OBVIOUS
        <3>1. CASE i = L /\ j = L
            BY <3>1
        <3>2. CASE i = L /\ j \in 1..Len(ps)
            BY <1>2, <2>4, <2>6, <3>2
        <3>3. CASE i \in 1..Len(ps) /\ j = L
            BY <1>2, <2>4, <2>6, <3>3
        <3>4. CASE i \in 1..Len(ps) /\ j \in 1..Len(ps)
            BY <1>1, <2>4, <3>4
        <3> QED BY <2>2, <3>1, <3>2, <3>3, <3>4
    <2>8. ASSUME NEW i \in 1..L
          PROVE  /\ Len(next[i].chunks) <= Len(blocks[new[i]])
                 /\ \A x \in 1..Len(next[i].chunks) : next[i].chunks[x] = blocks[new[i]][x]
        <3>1. CASE i \in 1..Len(ps)
            <4>1. next[i] = ps[i] /\ new[i] = src[i]
                BY <2>1, <2>4, <3>1
            <4> QED BY <1>1, <3>1, <4>1
        <3>2. CASE i = L
            <4>1. next[i] = a /\ new[i] = n + 1 /\ blocks[n + 1] \in Seq(Chunks)
                BY <2>1, <2>4, <3>2
            <4>2. CASE a.chunks = blocks[n + 1]
                BY <4>1, <4>2
            <4>3. CASE a.chunks = <<blocks[n + 1][1]>>
                BY <4>1, <4>3
            <4> QED BY <1>4, <4>2, <4>3
        <3> QED BY <2>2, <3>1, <3>2
    <2>9. new \in Sources(next, blocks, n + 1)
        BY <2>1, <2>5, <2>7, <2>8 DEF Sources
    <2> QED BY <2>9
<1> QED BY <1>3, <1>4

\* One turn of the loop that fills the budget.
LEMMA FillTurn ==
    ASSUME NEW N \in Nat, NEW blocks \in [1..N -> Seq(Chunks)], NEW n \in 0..(N - 1),
           NEW ps \in Seq(Answer), Fits(ps), Sources(ps, blocks, n) # {},
           blocks[n + 1] \in Seq(Chunks), Len(blocks[n + 1]) >= 1,
           NEW score \in Nat, NEW tokens \in TokenTables,
           NEW next, next = FillBudget(ps, blocks[n + 1], score, tokens)
    PROVE  next \in Seq(Answer) /\ Fits(next) /\ Sources(next, blocks, n + 1) # {}
<1> DEFINE chunks == blocks[n + 1]
<1>1. chunks \in Seq(Chunks) /\ Len(chunks) >= 1 /\ next = FillBudget(ps, chunks, score, tokens)
    OBVIOUS
<1>2. /\ next \in Seq(Answer) /\ Fits(next)
      /\ \/ next = ps
         \/ \E a \in Answer :
               /\ next = Append(ps, a)
               /\ a.chunks = chunks \/ a.chunks = <<chunks[1]>>
    <2> HIDE DEF chunks
    <2>1. MayFill(ps, FillBudget(ps, chunks, score, tokens), chunks)
        BY <1>1, FillBudgetFits
    <2> QED BY <1>1, <2>1 DEF MayFill
<1>3. CASE next = ps
    <2>1. [chunks |-> <<>>, score |-> 0, tokens |-> 0] \in Answer
        BY DEF Answer
    <2> QED BY <1>2, <1>3, <2>1, SourcesGrow
<1>4. CASE next # ps
    <2>1. PICK a \in Answer : /\ next = Append(ps, a)
                              /\ a.chunks = chunks \/ a.chunks = <<chunks[1]>>
        BY <1>2, <1>4
    <2> QED BY <1>2, <2>1, SourcesGrow
<1> QED BY <1>3, <1>4

\* The loop that fills the budget has a result.
LEMMA FillLoops ==
    ASSUME NEW N \in Nat, NEW blocks \in [1..N -> Seq(Chunks)], NEW scores \in [1..N -> Nat],
           NEW tokens \in TokenTables, \A n \in 1..N : Len(blocks[n]) >= 1
    PROVE  \E f : f = [n \in 0..N |-> IF n = 0 THEN <<>>
                                      ELSE FillBudget(f[n - 1], blocks[n], scores[n], tokens)]
<1> DEFINE T == {ps \in Seq(Answer) : Fits(ps)}
           step == [y \in (1..N) \X T |-> FillBudget(y[2], blocks[y[1]], scores[y[1]], tokens)]
           Body(f) == [n \in 0..N |-> IF n = 0 THEN <<>>
                                      ELSE FillBudget(f[n - 1], blocks[n], scores[n], tokens)]
<1>1. ASSUME NEW n \in 1..N, NEW x \in T PROVE FillBudget(x, blocks[n], scores[n], tokens) \in T
    <2>1. /\ x \in Seq(Answer) /\ Fits(x)
          /\ blocks[n] \in Seq(Chunks) /\ Len(blocks[n]) >= 1 /\ scores[n] \in Nat
        OBVIOUS
    <2>2. MayFill(x, FillBudget(x, blocks[n], scores[n], tokens), blocks[n])
        BY <2>1, FillBudgetFits
    <2> QED BY <2>2 DEF MayFill
<1>2. <<>> \in T
    <2>1. \A i \in DOMAIN <<>> : <<>>[i] \in Answer
        OBVIOUS
    <2>2. <<>> \in Seq(Answer) /\ [chunks |-> <<>>, score |-> 0, tokens |-> 0] \in Answer
        BY DEF Answer
    <2>3. TokensUsed(<<>>) = 0
        BY <2>2, TokensUsedSteps
    <2>4. Fits(<<>>)
        BY <2>3, ContextAssumption DEF Fits
    <2> QED BY <2>2, <2>4
<1>3. step \in [(1..N) \X T -> T]
    <2> HIDE DEF T
    <2> QED BY <1>1
<1>4. \A n \in 1..N, x \in T : step[<<n, x>>] = FillBudget(x, blocks[n], scores[n], tokens)
    <2> HIDE DEF T
    <2> QED OBVIOUS
<1>5. PICK f \in [0..N -> T] : f[0] = <<>> /\ \A n \in 1..N : f[n] = step[<<n, f[n - 1]>>]
    <2> HIDE DEF step, T
    <2>1. Loops(T, <<>>, N, step) # {}
        BY <1>2, <1>3, Recursion
    <2> QED BY <2>1 DEF Loops
<1> HIDE DEF step, T
<1>6. ASSUME NEW n \in 1..N PROVE f[n] = FillBudget(f[n - 1], blocks[n], scores[n], tokens)
    <2>1. n - 1 \in 0..N
        OBVIOUS
    <2> QED BY <1>4, <1>5, <2>1
<1>7. f = Body(f)
    BY <1>5, <1>6
<1> QED BY <1>7

\* The passages after each turn of the loop.
LEMMA FillInvariant ==
    ASSUME NEW N \in Nat, NEW blocks \in [1..N -> Seq(Chunks)], NEW scores \in [1..N -> Nat],
           NEW tokens \in TokenTables, \A n \in 1..N : Len(blocks[n]) >= 1,
           NEW f, f = [n \in 0..N |-> IF n = 0 THEN <<>>
                                      ELSE FillBudget(f[n - 1], blocks[n], scores[n], tokens)]
    PROVE  f[N] \in Seq(Answer) /\ Fits(f[N]) /\ Sources(f[N], blocks, N) # {}
<1> DEFINE T == {n \in 0..N : f[n] \in Seq(Answer) /\ Fits(f[n]) /\ Sources(f[n], blocks, n) # {}}
<1>1. f[0] = <<>> /\ \A n \in 1..N : f[n] = FillBudget(f[n - 1], blocks[n], scores[n], tokens)
    OBVIOUS
<1>2. 0 \in T
    <2>1. <<>> \in Seq(Answer) /\ [chunks |-> <<>>, score |-> 0, tokens |-> 0] \in Answer
        BY DEF Answer
    <2>2. TokensUsed(<<>>) = 0
        BY <2>1, TokensUsedSteps
    <2>3. Fits(<<>>)
        BY <2>2, ContextAssumption DEF Fits
    <2>4. Sources(<<>>, blocks, 0) # {}
        <3>1. Len(<<>>) = 0 /\ 1..0 = {}
            OBVIOUS
        <3> DEFINE none == [i \in {} |-> 0]
        <3>2. none \in [1..Len(<<>>) -> 1..0]
            BY <3>1
        <3>3. none \in Sources(<<>>, blocks, 0)
            BY <3>1, <3>2 DEF Sources
        <3> QED BY <3>3
    <2> QED BY <1>1, <2>1, <2>3, <2>4
<1>3. ASSUME NEW n \in 0..(N - 1), n \in T PROVE n + 1 \in T
    <2>1. n + 1 \in 1..N /\ (n + 1) - 1 = n /\ n + 1 \in 0..N
        OBVIOUS
    <2>2. f[n] \in Seq(Answer) /\ Fits(f[n]) /\ Sources(f[n], blocks, n) # {}
        BY <1>3
    <2>3. /\ blocks[n + 1] \in Seq(Chunks) /\ Len(blocks[n + 1]) >= 1 /\ scores[n + 1] \in Nat
        BY <2>1
    <2>4. f[n + 1] = FillBudget(f[n], blocks[n + 1], scores[n + 1], tokens)
        BY <1>1, <2>1
    <2>5. f[n + 1] \in Seq(Answer) /\ Fits(f[n + 1]) /\ Sources(f[n + 1], blocks, n + 1) # {}
        <3> HIDE DEF T
        <3> QED BY <2>2, <2>3, <2>4, FillTurn
    <2> QED BY <2>1, <2>5
<1>4. \A n \in 0..N : n \in T
    <2> HIDE DEF T
    <2> QED BY <1>2, <1>3, Induction
<1> QED BY <1>4

\* No position is cited twice, and the chunks of a passage are consecutive.
CitedOnce(ps) ==
    \A i, j \in DOMAIN ps :
        \A m \in DOMAIN ps[i].chunks, n \in DOMAIN ps[j].chunks :
            LET c == ps[i].chunks[m]
                d == ps[j].chunks[n]
            IN  /\ At(c) = At(d) => i = j /\ m = n
                /\ i = j => c.doc = d.doc /\ c.index - d.index = m - n

\* The chunks of a run's positions.
Covers(chunks, run) ==
    Len(chunks) = Len(run) /\ \A i \in 1..Len(run) : At(chunks[i]) = run[i]

\* Passages cut from disjoint runs of consecutive positions.
LEMMA CutFromRuns ==
    ASSUME NEW N \in Nat, NEW ps \in Seq(Answer), NEW blocks \in [1..N -> Seq(Chunks)],
           NEW order \in [1..N -> Seq(Positions)],
           \A n \in 1..N : Covers(blocks[n], order[n]) /\ Consecutive(order[n]),
           \A m, n \in 1..N : m # n => Apart(order[m], order[n]),
           Sources(ps, blocks, N) # {}
    PROVE  CitedOnce(ps)
<1>1. PICK src \in [1..Len(ps) -> 1..N] :
         /\ \A i, j \in 1..Len(ps) : src[i] = src[j] => i = j
         /\ \A i \in 1..Len(ps) :
               /\ Len(ps[i].chunks) <= Len(blocks[src[i]])
               /\ \A x \in 1..Len(ps[i].chunks) : ps[i].chunks[x] = blocks[src[i]][x]
    BY ZenonT(30) DEF Sources
\* Where a chunk of a passage comes from.
<1>2. ASSUME NEW i \in DOMAIN ps, NEW m \in DOMAIN ps[i].chunks
      PROVE  /\ src[i] \in 1..N /\ m \in 1..Len(order[src[i]]) /\ ps[i].chunks[m] \in Chunks
             /\ At(ps[i].chunks[m]) = order[src[i]][m]
    <2>1. i \in 1..Len(ps) /\ src[i] \in 1..N
        OBVIOUS
    <2>2. ps[i].chunks \in Seq(Chunks)
        <3>1. ps[i] \in Answer
            OBVIOUS
        <3> QED BY <3>1 DEF Answer
    <2>3. Len(ps[i].chunks) <= Len(blocks[src[i]]) /\ ps[i].chunks[m] = blocks[src[i]][m]
        <3>1. m \in 1..Len(ps[i].chunks)
            BY <2>2
        <3>2. /\ Len(ps[i].chunks) <= Len(blocks[src[i]])
              /\ \A x \in 1..Len(ps[i].chunks) : ps[i].chunks[x] = blocks[src[i]][x]
            BY <1>1, <2>1
        <3> QED BY <3>1, <3>2
    <2>4. /\ blocks[src[i]] \in Seq(Chunks) /\ order[src[i]] \in Seq(Positions)
          /\ Len(blocks[src[i]]) = Len(order[src[i]])
        BY <2>1 DEF Covers
    <2>5. m \in 1..Len(order[src[i]])
        <3>1. /\ m \in 1..Len(ps[i].chunks) /\ Len(ps[i].chunks) \in Nat
              /\ Len(ps[i].chunks) <= Len(order[src[i]])
            <4>1. m \in 1..Len(ps[i].chunks) /\ Len(ps[i].chunks) \in Nat
                BY <2>2
            <4> QED BY <2>3, <2>4, <4>1, Zenon
        <3>2. Len(order[src[i]]) \in Nat
            BY <2>4
        <3> QED BY <3>1, <3>2
    <2>6. At(blocks[src[i]][m]) = order[src[i]][m]
        BY <2>1, <2>5 DEF Covers
    <2> QED BY <2>1, <2>2, <2>3, <2>5, <2>6
<1>3. ASSUME NEW n \in 1..N, NEW i \in 1..Len(order[n]), NEW j \in 1..Len(order[n])
      PROVE  order[n][i][1] = order[n][j][1] /\ order[n][i][2] - order[n][j][2] = i - j
    <2>1. order[n] \in Seq(Positions) /\ 1 \in 1..Len(order[n])
        OBVIOUS
    <2>2. order[n][1] \in Positions
        BY <2>1
    <2>3. order[n][1][2] \in Int
        BY <2>2, RetrievalAssumption, SMTT(30) DEF Positions
    <2>4. /\ order[n][i] = <<order[n][1][1], order[n][1][2] + i - 1>>
          /\ order[n][j] = <<order[n][1][1], order[n][1][2] + j - 1>>
        BY DEF Consecutive
    <2> DEFINE a == order[n][1][2]
    <2>5. a \in Int /\ i \in Int /\ j \in Int
        BY <2>3
    <2>6. /\ order[n][i][1] = order[n][1][1] /\ order[n][i][2] = a + i - 1
          /\ order[n][j][1] = order[n][1][1] /\ order[n][j][2] = a + j - 1
        BY <2>4
    <2> HIDE DEF a
    <2> QED BY <2>5, <2>6
<1>4. ASSUME NEW i \in DOMAIN ps, NEW j \in DOMAIN ps,
             NEW m \in DOMAIN ps[i].chunks, NEW n \in DOMAIN ps[j].chunks
      PROVE  /\ At(ps[i].chunks[m]) = At(ps[j].chunks[n]) => i = j /\ m = n
             /\ i = j => /\ ps[i].chunks[m].doc = ps[j].chunks[n].doc
                         /\ ps[i].chunks[m].index - ps[j].chunks[n].index = m - n
    <2> DEFINE c == ps[i].chunks[m]
               d == ps[j].chunks[n]
    <2>1. /\ src[i] \in 1..N /\ m \in 1..Len(order[src[i]]) /\ At(c) = order[src[i]][m]
          /\ src[j] \in 1..N /\ n \in 1..Len(order[src[j]]) /\ At(d) = order[src[j]][n]
        BY <1>2
    <2>2. At(c) = <<c.doc, c.index>> /\ At(d) = <<d.doc, d.index>>
        BY DEF At
    <2> HIDE DEF c, d
    <2>3. i = j => c.doc = d.doc /\ c.index - d.index = m - n
        <3> SUFFICES ASSUME i = j PROVE c.doc = d.doc /\ c.index - d.index = m - n
            OBVIOUS
        <3> DEFINE k == src[i]
        <3>1. k \in 1..N /\ m \in 1..Len(order[k]) /\ n \in 1..Len(order[k])
            BY <2>1
        <3>2. /\ order[k][m][1] = c.doc /\ order[k][m][2] = c.index
              /\ order[k][n][1] = d.doc /\ order[k][n][2] = d.index
            BY <2>1, <2>2
        <3> HIDE DEF k
        <3>3. order[k][m][1] = order[k][n][1] /\ order[k][m][2] - order[k][n][2] = m - n
            BY <1>3, <3>1, ZenonT(30)
        <3> QED BY <3>2, <3>3
    <2>4. ASSUME At(c) = At(d) PROVE i = j /\ m = n
        <3>1. order[src[i]][m] = order[src[j]][n]
            BY <2>1, <2>4
        <3>2. src[i] = src[j] /\ i = j
            <4>1. src[i] = src[j]
                BY <2>1, <3>1 DEF Apart
            <4>2. i \in 1..Len(ps) /\ j \in 1..Len(ps)
                OBVIOUS
            <4> QED BY <1>1, <4>1, <4>2, Zenon
        <3>3. c.index - d.index = m - n /\ c.index = d.index
            BY <2>2, <2>3, <2>4, <3>2
        <3>4. c.index \in Int
            <4>1. ps[i].chunks[m] \in Chunks
                BY <1>2
            <4> QED BY <4>1, RetrievalAssumption DEF c, Chunks
        <3>5. m \in Int /\ n \in Int /\ m - n = 0
            BY <2>1, <3>3, <3>4
        <3> QED BY <3>2, <3>5
    <2> QED BY <2>3, <2>4 DEF c, d
<1> QED BY <1>4 DEF CitedOnce

\* build_passages returns passages that fit the budget and cite each position
\* once, whatever was selected and whatever its neighbours are.
LEMMA BuildPassagesKeeps ==
    ASSUME NEW sel \in Seq(Chunks), NEW near \in SUBSET Chunks,
           NEW rel, \A c \in ToSet(sel) : rel[c] \in Nat, NEW tokens \in TokenTables
    PROVE  /\ BuildPassages(sel, near, rel, tokens) \in Seq(Answer)
           /\ Fits(BuildPassages(sel, near, rel, tokens))
           /\ CitedOnce(BuildPassages(sel, near, rel, tokens))
<1> DEFINE byPos == ByPosition(sel, near)
           wanted == {p \in DOMAIN byPos : \E c \in ToSet(sel) : p \in Near(c)}
           Pieces(run) == [n \in DOMAIN run |-> byPos[run[n]]]
           Score(run) == Max({WantedScore(p, sel, rel) : p \in ToSet(run)})
           runs == Runs(wanted, sel)
           Entry(n) == <<Score(runs[n]), n, runs[n]>>
           entries == {Entry(n) : n \in DOMAIN runs}
           order == BestFirst(entries)
           N == Len(order)
           Body(f) == [n \in 0..N |-> IF n = 0 THEN <<>>
                                      ELSE FillBudget(f[n - 1], Pieces(order[n]), Score(order[n]), tokens)]
           taken == CHOOSE f : f = Body(f)
           result == BuildPassages(sel, near, rel, tokens)
<1>1. result = taken[N]
    BY DEF BuildPassages
<1>2. /\ DOMAIN byPos \subseteq Positions
      /\ \A p \in DOMAIN byPos : byPos[p] \in Chunks /\ At(byPos[p]) = p
    BY ByPositionKeeps
<1>3. wanted \in SUBSET Positions /\ \A p \in wanted : \E n \in DOMAIN sel : sel[n].doc = p[1]
    <2> SUFFICES ASSUME NEW p \in wanted PROVE \E n \in DOMAIN sel : sel[n].doc = p[1]
        BY <1>2
    <2>1. PICK c \in ToSet(sel) : p \in Near(c)
        OBVIOUS
    <2>2. p[1] = c.doc
        BY <2>1 DEF Near
    <2> QED BY <2>2 DEF ToSet
<1>4. \A p \in wanted : byPos[p] \in Chunks /\ At(byPos[p]) = p /\ WantedScore(p, sel, rel) \in Nat
    <2> SUFFICES ASSUME NEW p \in wanted
                 PROVE  byPos[p] \in Chunks /\ At(byPos[p]) = p /\ WantedScore(p, sel, rel) \in Nat
        OBVIOUS
    <2>1. p \in DOMAIN byPos /\ \E c \in ToSet(sel) : p \in Near(c)
        OBVIOUS
    <2>2. WantedScore(p, sel, rel) \in Nat
        BY <2>1, WantedScoreType
    <2> QED BY <1>2, <2>1, <2>2
<1> HIDE DEF byPos, wanted
<1>5. AreRuns(runs, wanted)
    BY <1>3, RunsAreDisjoint
<1> HIDE DEF runs
<1>6. ASSUME NEW run \in Seq(wanted), Len(run) >= 1
      PROVE  /\ Score(run) \in Nat
             /\ Pieces(run) \in Seq(Chunks) /\ Covers(Pieces(run), run)
    <2>1. \A i \in 1..Len(run) : run[i] \in wanted
        OBVIOUS
    <2>2. Pieces(run) \in [1..Len(run) -> Chunks] /\ \A i \in 1..Len(run) : Pieces(run)[i] = byPos[run[i]]
        BY <1>4, <2>1
    <2>3. Pieces(run) \in Seq(Chunks) /\ Len(Pieces(run)) = Len(run)
        <3> HIDE DEF Pieces
        <3> QED BY <2>2
    <2> DEFINE f == [p \in ToSet(run) |-> WantedScore(p, sel, rel)]
    <2>4. ToSet(run) \subseteq wanted /\ ToSet(run) # {}
        BY <1>6, <2>1 DEF ToSet
    <2>5. IsFiniteSet(ToSet(run))
        BY ToSetFinite
    <2>6. DOMAIN f = ToSet(run) /\ \A p \in ToSet(run) : f[p] \in Nat
        BY <1>4, <2>4
    <2>7. {WantedScore(p, sel, rel) : p \in ToSet(run)} = {f[p] : p \in DOMAIN f}
        OBVIOUS
    <2> HIDE DEF f
    <2>8. Max({f[p] : p \in DOMAIN f}) \in Nat
        BY <2>4, <2>5, <2>6, BestScoreType
    <2>9. \A i \in 1..Len(run) : At(Pieces(run)[i]) = run[i]
        BY <1>4, <2>1, <2>2
    <2>10. Covers(Pieces(run), run)
        BY <2>3, <2>9 DEF Covers
    <2> QED BY <2>3, <2>7, <2>8, <2>10
<1> HIDE DEF Score, Pieces
<1>7. /\ runs \in Seq(Seq(wanted))
      /\ \A n \in DOMAIN runs : runs[n] \in Seq(wanted) /\ Len(runs[n]) >= 1
      /\ \A n \in DOMAIN runs : Consecutive(runs[n])
      /\ \A m, n \in DOMAIN runs : m # n => Apart(runs[m], runs[n])
    BY <1>5 DEF AreRuns
<1>8. IsFiniteSet(entries)
    <2>1. IsFiniteSet(DOMAIN runs)
        <3>1. DOMAIN runs = 1..Len(runs) /\ Len(runs) \in Int /\ 1 \in Int
            BY <1>7
        <3> QED BY <3>1, FS_Interval
    <2> DEFINE g == [n \in DOMAIN runs |-> Entry(n)]
    <2>2. entries = {g[n] : n \in DOMAIN g} /\ DOMAIN g = DOMAIN runs
        OBVIOUS
    <2> HIDE DEF g, entries
    <2> QED BY <2>1, <2>2, ImageFinite
<1>9. entries \in SUBSET (Int \X Int \X Seq(wanted)) /\ \A x, y \in entries : x[2] = y[2] => x = y
    <2>1. \A n \in DOMAIN runs : Score(runs[n]) \in Int /\ n \in Int /\ runs[n] \in Seq(wanted)
        BY <1>6, <1>7
    <2> QED BY <2>1
<1>10. /\ Cardinality(entries) \in Nat
       /\ order \in Seq(Seq(wanted)) /\ Len(order) = Cardinality(entries)
       /\ BestOrders(entries) # {}
    <2> HIDE DEF entries
    <2> QED BY <1>8, <1>9, BestFirstOrders
<1>11. PICK o \in [1..N -> entries] :
          /\ \A n \in 1..N : order[n] = o[n][3]
          /\ \A i, j \in 1..N : o[i] = o[j] => i = j
    <2> HIDE DEF entries, order
    <2> QED BY <1>10 DEF BestOrders, order
<1>12. N \in Nat /\ order \in [1..N -> Seq(wanted)]
    <2> DEFINE W == Seq(wanted)
    <2>1. order \in Seq(W)
        BY <1>10
    <2> HIDE DEF order, W
    <2>2. Len(order) \in Nat /\ order \in [1..Len(order) -> W]
        BY <2>1
    <2> QED BY <2>2 DEF W
<1>13. \A n \in 1..N : o[n][2] \in DOMAIN runs /\ order[n] = runs[o[n][2]] /\ o[n] = Entry(o[n][2])
    <2> SUFFICES ASSUME NEW n \in 1..N
                 PROVE  o[n][2] \in DOMAIN runs /\ order[n] = runs[o[n][2]] /\ o[n] = Entry(o[n][2])
        OBVIOUS
    <2>1. order[n] = o[n][3] /\ o[n] \in entries
        <3> HIDE DEF order, entries
        <3> QED BY <1>11
    <2> HIDE DEF order, N
    <2> QED BY <2>1
<1> HIDE DEF entries, order, N, Entry
<1>14. \A m, n \in 1..N : m # n => o[m][2] # o[n][2]
    BY <1>11, <1>13
<1> DEFINE blocks == [n \in 1..N |-> Pieces(order[n])]
           scores == [n \in 1..N |-> Score(order[n])]
<1>15. ASSUME NEW n \in 1..N
       PROVE  order[n] \in Seq(wanted) /\ Len(order[n]) >= 1
    BY <1>7, <1>13
<1>16. /\ blocks \in [1..N -> Seq(Chunks)] /\ scores \in [1..N -> Nat]
       /\ \A n \in 1..N : blocks[n] = Pieces(order[n]) /\ scores[n] = Score(order[n])
    BY <1>6, <1>15
<1>17. \A n \in 1..N : Covers(blocks[n], order[n]) /\ Len(blocks[n]) >= 1
    <2> SUFFICES ASSUME NEW n \in 1..N
                 PROVE  Covers(blocks[n], order[n]) /\ Len(blocks[n]) >= 1
        OBVIOUS
    <2>1. Covers(blocks[n], order[n])
        BY <1>6, <1>15
    <2> QED BY <1>15, <2>1 DEF Covers
<1>18. \A f : Body(f) = [n \in 0..N |-> IF n = 0 THEN <<>>
                                        ELSE FillBudget(f[n - 1], blocks[n], scores[n], tokens)]
    <2> SUFFICES ASSUME NEW f
                 PROVE  Body(f) = [n \in 0..N |-> IF n = 0 THEN <<>>
                                        ELSE FillBudget(f[n - 1], blocks[n], scores[n], tokens)]
        OBVIOUS
    <2>1. \A n \in 0..N : n = 0 \/ n \in 1..N
        BY <1>12
    <2> HIDE DEF blocks, scores
    <2> QED BY <1>16, <2>1
<1> HIDE DEF blocks, scores
<1>19. \E f : f = Body(f)
    <2>1. \E f : f = [n \in 0..N |-> IF n = 0 THEN <<>>
                                     ELSE FillBudget(f[n - 1], blocks[n], scores[n], tokens)]
        BY <1>12, <1>16, <1>17, FillLoops, ZenonT(30)
    <2> HIDE DEF Body
    <2> QED BY <1>18, <2>1
<1>20. taken = Body(taken)
    <2> HIDE DEF Body
    <2> QED BY <1>19
<1> HIDE DEF taken, result
<1>21. taken = [n \in 0..N |-> IF n = 0 THEN <<>>
                               ELSE FillBudget(taken[n - 1], blocks[n], scores[n], tokens)]
    <2> HIDE DEF Body
    <2> QED BY <1>18, <1>20, ZenonT(30)
<1>22. taken[N] \in Seq(Answer) /\ Fits(taken[N]) /\ Sources(taken[N], blocks, N) # {}
    BY <1>12, <1>16, <1>17, <1>21, FillInvariant
<1>23. CitedOnce(taken[N])
    <2>1. order \in [1..N -> Seq(Positions)]
        <3>1. Seq(wanted) \subseteq Seq(Positions)
            BY <1>3
        <3> QED BY <1>12, <3>1
    <2>2. \A n \in 1..N : Consecutive(order[n])
        BY <1>7, <1>13
    <2>3. \A m, n \in 1..N : m # n => Apart(order[m], order[n])
        BY <1>7, <1>13, <1>14, ZenonT(30)
    <2> QED BY <1>12, <1>16, <1>17, <1>22, <2>1, <2>2, <2>3, CutFromRuns
<1> QED BY <1>1, <1>22, <1>23 DEF result

(***************************************************************************)
(* The query keeps its lists apart                                         *)
(***************************************************************************)

\* Candidates are dropped once some are selected, and nothing is selected
\* before: relevance is the scores of the one or of the other.
ListsInTurn ==
    /\ pc \in {"start", "vector", "fuse", "rerank", "select"} => selected = <<>>
    /\ pc \in {"start", "vector", "fuse", "expand"} => candidates = <<>>

\* Chunk rows are those of a version that was indexed.
StoredWasIndexed == \A d \in Docs : stored[d] => version[d] >= 1

\* The inductive invariant.
RetrievalInv ==
    /\ TypeOK
    /\ ListsInTurn
    /\ StoredWasIndexed
    /\ FusionIsMonotone
    /\ PassagesFitBudget
    /\ PositionsCitedOnce

\* No chunks, no scores, no passages.
LEMMA Nothing ==
    /\ \A T : <<>> \in Seq(T)
    /\ ToSet(<<>>) = {}
    /\ \A T : <<>> \in [{} -> T]
    /\ PassagesFitBudget <=> Fits(passages)
    /\ PositionsCitedOnce <=> CitedOnce(passages)
    /\ Fits(<<>>) /\ CitedOnce(<<>>)
<1>1. DOMAIN <<>> = {} /\ \A T : <<>> \in Seq(T)
    OBVIOUS
<1>2. ToSet(<<>>) = {}
    BY <1>1 DEF ToSet
<1>3. \A T : <<>> \in [{} -> T]
    BY <1>1
<1>4. PassagesFitBudget <=> Fits(passages)
    BY DEF PassagesFitBudget, Fits
<1>5. PositionsCitedOnce <=> CitedOnce(passages)
    BY DEF PositionsCitedOnce, CitedOnce
<1>6. Fits(<<>>)
    <2>1. [chunks |-> <<>>, score |-> 0, tokens |-> 0] \in Answer
        BY DEF Answer
    <2>2. TokensUsed(<<>>) = 0
        BY <1>1, <2>1, TokensUsedSteps
    <2> QED BY <2>2, ContextAssumption DEF Fits
<1>7. CitedOnce(<<>>)
    BY <1>1 DEF CitedOnce
<1> QED BY <1>1, <1>2, <1>3, <1>4, <1>5, <1>6, <1>7

\* The chunk rows of a document are chunks.
LEMMA ChunksOfType ==
    ASSUME TypeOK, StoredWasIndexed, NEW d \in Docs
    PROVE  ChunksOf(d) \subseteq Chunks
<1>1. CASE stored[d]
    <2>1. version[d] \in 1..MaxVersion
        <3>1. version[d] \in 0..MaxVersion /\ version[d] >= 1
            BY <1>1 DEF TypeOK, StoredWasIndexed
        <3> QED BY <3>1
    <2>2. ChunksOf(d) = [doc : {d}, index : 0..LastIndex, version : {version[d]}]
        BY <1>1 DEF ChunksOf
    <2> QED BY <2>1, <2>2 DEF Chunks
<1>2. CASE ~stored[d]
    BY <1>2 DEF ChunksOf
<1> QED BY <1>1, <1>2

\* A search returns a list of chunks.
LEMMA RankedHitsType ==
    ASSUME TypeOK, StoredWasIndexed
    PROVE  RankedHits \subseteq Seq(Chunks)
<1> DEFINE S == UNION {ChunksOf(d) : d \in InScope}
<1>1. S \subseteq Chunks
    BY ChunksOfType DEF InScope
<1>2. SearchLimit \in Nat
    BY RetrievalAssumption
<1> HIDE DEF S
<1>3. SeqOf(S, SearchLimit) \subseteq Seq(Chunks)
    <2> SUFFICES ASSUME NEW s \in SeqOf(S, SearchLimit) PROVE s \in Seq(Chunks)
        OBVIOUS
    <2>1. PICK m \in 0..SearchLimit : s \in [1..m -> S]
        BY DEF SeqOf
    <2>2. s \in [1..m -> Chunks] /\ m \in Nat
        BY <1>1, <1>2, <2>1
    <2> QED BY <2>2
<1>4. RankedHits \subseteq SeqOf(S, SearchLimit)
    BY DEF RankedHits, S
<1> QED BY <1>3, <1>4

\* The neighbours that are fetched are chunks.
LEMMA NeighborsType ==
    ASSUME TypeOK, StoredWasIndexed
    PROVE  Neighbors \subseteq Chunks
BY ChunksOfType DEF Neighbors

\* The first query starts with empty lists.
LEMMA InitHolds == Init => RetrievalInv
<1> SUFFICES ASSUME Init PROVE RetrievalInv
    OBVIOUS
<1>1. TypeOK
    <2>1. /\ status \in [Docs -> {"PENDING", "PROCESSING", "INDEXED", "DELETED"}]
          /\ version \in [Docs -> 0..MaxVersion] /\ stored \in [Docs -> BOOLEAN]
          /\ pc = "start" /\ scope \subseteq Docs /\ unchecked \subseteq scope
        BY RetrievalAssumption DEF Init
    <2>2. /\ keyword \in Seq(Chunks) /\ vector \in Seq(Chunks) /\ candidates \in Seq(Chunks)
          /\ selected \in Seq(Chunks) /\ passages \in Seq(Answer)
        BY Nothing DEF Init
    <2>3. ToSet(candidates) \cup ToSet(selected) = {} /\ relevance \in [{} -> Nat]
        BY Nothing DEF Init
    <2> QED BY <2>1, <2>2, <2>3 DEF TypeOK
<1>2. ListsInTurn /\ FusionIsMonotone
    BY DEF Init, ListsInTurn, FusionIsMonotone
<1>3. StoredWasIndexed
    BY DEF Init, StoredWasIndexed
<1>4. PassagesFitBudget /\ PositionsCitedOnce
    BY Nothing DEF Init
<1> QED BY <1>1, <1>2, <1>3, <1>4 DEF RetrievalInv

\* Steps of the documents touch no list of the query.
LEMMA DocumentStepKeeps ==
    ASSUME RetrievalInv, DocumentStep
    PROVE  RetrievalInv'
<1>1. UNCHANGED queryVars
    BY DEF DocumentStep, Reprocess, Indexes, Completes, Delete
<1>2. /\ status' \in [Docs -> {"PENDING", "PROCESSING", "INDEXED", "DELETED"}]
      /\ version' \in [Docs -> 0..MaxVersion] /\ stored' \in [Docs -> BOOLEAN]
      /\ StoredWasIndexed'
    <2> PICK d \in Docs : Reprocess(d) \/ Indexes(d) \/ Completes(d) \/ Delete(d)
        BY DEF DocumentStep
    <2> USE DEF RetrievalInv, TypeOK, StoredWasIndexed
    <2>1. CASE Reprocess(d)
        BY <2>1 DEF Reprocess
    <2>2. CASE Indexes(d)
        <3>1. version[d] \in 0..MaxVersion /\ version[d] < MaxVersion /\ MaxVersion \in Nat
            BY <2>2, RetrievalAssumption DEF Indexes
        <3>2. version[d] + 1 \in 0..MaxVersion /\ version[d] + 1 >= 1
            BY <3>1
        <3> QED BY <2>2, <3>2 DEF Indexes
    <2>3. CASE Completes(d)
        BY <2>3 DEF Completes
    <2>4. CASE Delete(d)
        BY <2>4 DEF Delete
    <2> QED BY <2>1, <2>2, <2>3, <2>4
<1>3. TypeOK'
    BY <1>1, <1>2 DEF queryVars, RetrievalInv, TypeOK
<1>4. ListsInTurn' /\ FusionIsMonotone' /\ PassagesFitBudget' /\ PositionsCitedOnce'
    BY <1>1 DEF queryVars, RetrievalInv, ListsInTurn, FusionIsMonotone, PassagesFitBudget, PositionsCitedOnce
<1> QED BY <1>2, <1>3, <1>4 DEF RetrievalInv

\* Fusing orders and scores what was found.
LEMMA FusesKeeps ==
    ASSUME RetrievalInv, Fuses
    PROVE  RetrievalInv'
<1> DEFINE f == ReciprocalRankFusion(vector, keyword)
           m == IF Len(f) < RerankCandidates THEN Len(f) ELSE RerankCandidates
<1>1. vector \in Seq(Chunks) /\ keyword \in Seq(Chunks) /\ pc = "fuse" /\ selected = <<>>
    BY DEF RetrievalInv, TypeOK, ListsInTurn, Fuses
<1>2. /\ f \in Seq(Chunks)
      /\ \A c \in ToSet(vector) \cup ToSet(keyword) : \E i \in 1..Len(f) : f[i] = c
      /\ \A i, j \in 1..Len(f) : f[i] = f[j] => i = j
      /\ \A i, j \in 1..Len(f) :
            f[i] # f[j] /\ AtLeastAsGood(f[i], f[j], vector) /\ AtLeastAsGood(f[i], f[j], keyword)
               => i < j
    BY <1>1, FusionOrders
<1>3. candidates' = SubSeq(f, 1, m) /\ m \in 0..Len(f)
    <2>1. RerankCandidates \in Nat
        BY RetrievalAssumption
    <2>2. candidates' = SubSeq(f, 1, m)
        BY DEF Fuses
    <2> HIDE DEF f
    <2> QED BY <1>2, <2>1, <2>2
<1> HIDE DEF f, m
<1>4. /\ candidates' \in Seq(Chunks) /\ Len(candidates') = m
      /\ \A i \in 1..m : /\ candidates'[i] = f[i] /\ Contains(candidates', f[i])
                          /\ RankIn(f[i], candidates') = i
    BY <1>2, <1>3, CutKeepsRanks
<1>5. relevance' \in [ToSet(candidates') \cup ToSet(selected') -> Nat]
    <2>1. selected' = <<>> /\ relevance' = [c \in ToSet(candidates') |-> FusedScore(c, vector, keyword)]
        BY <1>1 DEF Fuses
    <2>2. \A c : FusedScore(c, vector, keyword) \in Nat
        BY <1>1, FusedScoreType
    <2> QED BY <2>1, <2>2, Nothing
<1>6. TypeOK'
    BY <1>4, <1>5 DEF RetrievalInv, TypeOK, Fuses, docVars
<1>7. ListsInTurn'
    <2>1. pc' \in {"done", "rerank"} /\ selected' = <<>>
        BY <1>1 DEF Fuses
    <2> QED BY <2>1 DEF ListsInTurn
<1>8. FusionIsMonotone'
    <2> SUFFICES ASSUME NEW c \in ToSet(vector) \cup ToSet(keyword),
                        NEW d \in ToSet(candidates') \ {c},
                        AtLeastAsGood(c, d, vector), AtLeastAsGood(c, d, keyword)
                 PROVE  Contains(candidates', c) /\ RankIn(c, candidates') < RankIn(d, candidates')
        BY DEF FusionIsMonotone, Fuses, AtLeastAsGood
    <2>1. PICK i \in 1..Len(f) : f[i] = c
        BY <1>2
    <2>2. PICK j \in 1..m : f[j] = d
        BY <1>4 DEF ToSet
    <2>3. j \in 1..Len(f) /\ i < j
        <3>1. j \in 1..Len(f)
            BY <1>2, <1>3
        <3> QED BY <1>2, <2>1, <2>2, <3>1
    <2>4. i \in 1..m
        BY <1>3, <2>3
    <2> QED BY <1>4, <2>1, <2>2, <2>3, <2>4
<1>9. UNCHANGED <<docVars, passages>>
    BY DEF Fuses
<1> QED BY <1>6, <1>7, <1>8, <1>9
        DEF RetrievalInv, StoredWasIndexed, docVars, PassagesFitBudget, PositionsCitedOnce

\* Reranking keeps to the candidates, and scores each of them.
LEMMA ReranksKeeps ==
    ASSUME RetrievalInv, Reranks
    PROVE  RetrievalInv'
<1>1. candidates \in Seq(Chunks) /\ pc = "rerank" /\ selected = <<>>
    BY DEF RetrievalInv, TypeOK, ListsInTurn, Reranks
<1>2. PICK score \in [ToSet(candidates) -> 0..2] :
         /\ candidates' = BestFirst({<<score[c], RankIn(c, candidates), c>> :
                             c \in {d \in ToSet(candidates) : score[d] >= RerankMinScore}})
         /\ relevance' = [c \in ToSet(candidates') |-> score[c]]
    BY DEF Reranks
<1>3. candidates' \in Seq(ToSet(candidates))
    <2> DEFINE kept == {d \in ToSet(candidates) : score[d] >= RerankMinScore}
    <2>1. kept \in SUBSET ToSet(candidates) /\ score \in [ToSet(candidates) -> Nat]
        OBVIOUS
    <2>2. candidates' = BestFirst({<<score[c], RankIn(c, candidates), c>> : c \in kept})
        BY <1>2
    <2> HIDE DEF kept
    <2> QED BY <1>1, <2>1, <2>2, RerankType
<1>4. ToSet(candidates') \subseteq ToSet(candidates) /\ ToSet(candidates) \subseteq Chunks
    BY <1>1, <1>3, ContainsToSet
<1>5. candidates' \in Seq(Chunks)
    BY <1>3, <1>4
<1>6. relevance' \in [ToSet(candidates') \cup ToSet(selected') -> Nat]
    <2>1. selected' = <<>>
        BY <1>1 DEF Reranks
    <2> QED BY <1>2, <1>4, <2>1, Nothing
<1>7. TypeOK'
    BY <1>5, <1>6, Nothing DEF RetrievalInv, TypeOK, Reranks, Forgets, docVars
<1>8. ListsInTurn' /\ FusionIsMonotone'
    BY <1>1 DEF Reranks, ListsInTurn, FusionIsMonotone
<1>9. UNCHANGED <<docVars, passages>>
    BY DEF Reranks
<1> QED BY <1>7, <1>8, <1>9
        DEF RetrievalInv, StoredWasIndexed, docVars, PassagesFitBudget, PositionsCitedOnce

\* Selecting takes candidates with their scores.
LEMMA SelectsKeeps ==
    ASSUME RetrievalInv, Selects
    PROVE  RetrievalInv'
<1>1. /\ candidates \in Seq(Chunks) /\ pc = "select" /\ selected = <<>>
      /\ relevance \in [ToSet(candidates) -> Nat]
    BY Nothing DEF RetrievalInv, TypeOK, ListsInTurn, Selects
<1>2. PICK alike : selected' = MmrSelect(candidates, relevance, alike, TopK)
    BY DEF Selects
<1>3. selected' \in Seq(ToSet(candidates))
    <2>1. TopK \in Nat /\ \A c \in ToSet(candidates) : relevance[c] \in Nat
        BY <1>1, RetrievalAssumption
    <2> QED BY <1>1, <1>2, <2>1, MmrType
<1>4. ToSet(selected') \subseteq ToSet(candidates) /\ ToSet(candidates) \subseteq Chunks
    BY <1>1, <1>3, ContainsToSet
<1>5. selected' \in Seq(Chunks)
    BY <1>3, <1>4
<1>6. candidates' = <<>> /\ candidates' \in Seq(Chunks)
    BY Nothing DEF Selects
<1>7. relevance' \in [ToSet(candidates') \cup ToSet(selected') -> Nat]
    <2>1. relevance' = [c \in ToSet(selected') |-> relevance[c]]
        BY DEF Selects
    <2> QED BY <1>1, <1>4, <1>6, <2>1, Nothing
<1>8. TypeOK'
    BY <1>5, <1>6, <1>7 DEF RetrievalInv, TypeOK, Selects, docVars
<1>9. ListsInTurn' /\ FusionIsMonotone'
    BY <1>6 DEF Selects, ListsInTurn, FusionIsMonotone
<1>10. UNCHANGED <<docVars, passages>>
    BY DEF Selects
<1> QED BY <1>8, <1>9, <1>10
        DEF RetrievalInv, StoredWasIndexed, docVars, PassagesFitBudget, PositionsCitedOnce

\* Expanding builds the passages.
LEMMA ExpandsKeeps ==
    ASSUME RetrievalInv, Expands
    PROVE  RetrievalInv'
<1>1. /\ pc = "expand" /\ candidates = <<>> /\ selected \in Seq(Chunks)
      /\ relevance \in [ToSet(selected) -> Nat]
    BY Nothing DEF RetrievalInv, TypeOK, ListsInTurn, Expands
<1>2. PICK tokens \in TokenTables :
         passages' = BuildPassages(selected, Neighbors, relevance, tokens)
    BY DEF Expands, TokenTables
<1>3. passages' \in Seq(Answer) /\ Fits(passages') /\ CitedOnce(passages')
    <2>1. Neighbors \in SUBSET Chunks
        BY NeighborsType DEF RetrievalInv
    <2>2. \A c \in ToSet(selected) : relevance[c] \in Nat
        BY <1>1
    <2> QED BY <1>1, <1>2, <2>1, <2>2, BuildPassagesKeeps
<1>4. PassagesFitBudget' /\ PositionsCitedOnce'
    BY <1>3 DEF PassagesFitBudget, PositionsCitedOnce, Fits, CitedOnce
<1>5. TypeOK'
    BY <1>3 DEF RetrievalInv, TypeOK, Expands, docVars
<1>6. ListsInTurn' /\ FusionIsMonotone'
    BY <1>1 DEF Expands, ListsInTurn, FusionIsMonotone
<1>7. UNCHANGED docVars
    BY DEF Expands
<1> QED BY <1>4, <1>5, <1>6, <1>7 DEF RetrievalInv, StoredWasIndexed, docVars

\* A query that fails leaves no lists.
LEMMA QueryFailsKeeps ==
    ASSUME RetrievalInv, QueryFails
    PROVE  RetrievalInv'
<1>1. candidates' = <<>> /\ selected' = <<>> /\ relevance' = <<>> /\ pc' = "failed"
    BY DEF QueryFails
<1>2. relevance' \in [ToSet(candidates') \cup ToSet(selected') -> Nat]
    BY <1>1, Nothing
<1>3. TypeOK'
    BY <1>1, <1>2, Nothing DEF RetrievalInv, TypeOK, QueryFails, Forgets, docVars
<1>4. ListsInTurn' /\ FusionIsMonotone'
    BY <1>1 DEF ListsInTurn, FusionIsMonotone
<1>5. UNCHANGED <<docVars, passages>>
    BY DEF QueryFails
<1> QED BY <1>3, <1>4, <1>5
        DEF RetrievalInv, StoredWasIndexed, docVars, PassagesFitBudget, PositionsCitedOnce

\* The steps that only pass the lists on, and the searches.
LEMMA SearchesKeep ==
    ASSUME RetrievalInv,
           \/ \E d \in Docs : Validates(d)
           \/ SearchesKeywords \/ SearchesVectors \/ SkipsRerank
    PROVE  RetrievalInv'
<1>1. RankedHits \subseteq Seq(Chunks)
    BY RankedHitsType DEF RetrievalInv
<1>2. /\ UNCHANGED <<docVars, scope, candidates, relevance, selected, passages>>
      /\ unchecked' \subseteq unchecked
    BY DEF Validates, SearchesKeywords, SearchesVectors, SkipsRerank
<1>3. keyword' \in Seq(Chunks) /\ vector' \in Seq(Chunks)
    BY <1>1, Nothing
    DEF RetrievalInv, TypeOK, Validates, SearchesKeywords, SearchesVectors, SkipsRerank, Forgets
<1>4. /\ pc \in {"start", "vector", "rerank"}
      /\ pc' \in {"start", "vector", "fuse", "failed", "select"}
      /\ pc = "rerank" => pc' = "select"
      /\ pc # "rerank" => pc' # "select"
    BY DEF Validates, SearchesKeywords, SearchesVectors, SkipsRerank
<1>5. TypeOK'
    BY <1>2, <1>3, <1>4 DEF RetrievalInv, TypeOK, docVars
<1>6. ListsInTurn' /\ FusionIsMonotone'
    BY <1>2, <1>4 DEF RetrievalInv, ListsInTurn, FusionIsMonotone
<1> QED BY <1>2, <1>5, <1>6
        DEF RetrievalInv, StoredWasIndexed, docVars, PassagesFitBudget, PositionsCitedOnce

\* The invariant holds in every reachable state.
THEOREM RetrievalInvariant == Spec => []RetrievalInv
<1>1. RetrievalInv /\ [Next]_vars => RetrievalInv'
    <2> SUFFICES ASSUME RetrievalInv, [Next]_vars PROVE RetrievalInv'
        OBVIOUS
    <2>1. CASE DocumentStep
        BY <2>1, DocumentStepKeeps
    <2>2. CASE \/ \E d \in Docs : Validates(d)
               \/ SearchesKeywords \/ SearchesVectors \/ SkipsRerank
        BY <2>2, SearchesKeep
    <2>3. CASE Fuses
        BY <2>3, FusesKeeps
    <2>4. CASE Reranks
        BY <2>4, ReranksKeeps
    <2>5. CASE Selects
        BY <2>5, SelectsKeeps
    <2>6. CASE Expands
        BY <2>6, ExpandsKeeps
    <2>7. CASE QueryFails
        BY <2>7, QueryFailsKeeps
    <2>8. CASE UNCHANGED vars
        BY <2>8 DEF vars, docVars, queryVars, RetrievalInv, TypeOK, ListsInTurn, StoredWasIndexed,
                    FusionIsMonotone, PassagesFitBudget, PositionsCitedOnce
    <2> QED BY <2>1, <2>2, <2>3, <2>4, <2>5, <2>6, <2>7, <2>8 DEF Next, QueryStep
<1> QED BY <1>1, InitHolds, PTL DEF Spec

\* Every list of the query is one of chunks, and what is scored are the
\* candidates or the selected (RetrievalService.retrieve).
THEOREM RetrievalTypeCorrect == Spec => []TypeOK
BY RetrievalInvariant, PTL DEF RetrievalInv

\* Fusion and the cut to rerank_candidates respect both searches: a chunk
\* that neither of them ranks below another stays before it, whatever the
\* weights and the constant of reciprocal_rank_fusion.
THEOREM FusionIsMonotoneCorrect == Spec => []FusionIsMonotone
BY RetrievalInvariant, PTL DEF RetrievalInv

\* The passages of build_passages stay within max_context_tokens, unless there
\* is only one and it is a single chunk.
THEOREM PassagesFitBudgetCorrect == Spec => []PassagesFitBudget
BY RetrievalInvariant, PTL DEF RetrievalInv

\* build_passages cites no position of a document twice, and its passages are
\* consecutive, even if the searches saw two versions of the document.
THEOREM PositionsCitedOnceCorrect == Spec => []PositionsCitedOnce
BY RetrievalInvariant, PTL DEF RetrievalInv
=============================================================================
