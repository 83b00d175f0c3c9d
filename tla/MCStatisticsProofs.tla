-------------------------- MODULE MCStatisticsProofs --------------------------
(***************************************************************************)
(* Proofs about the statistics of MCRecords: what every page computes from *)
(* the table of submissions agrees with what the others compute, for any   *)
(* users, problems, contests, days and limits of the pages.                *)
(***************************************************************************)
EXTENDS MCRecordsProofs, JudgePipelineProofs, SequenceTheorems

USE RecordsAssumption

-----------------------------------------------------------------------------
(* Least elements: the induction over numbers and over finite sets         *)

\* A set of natural numbers has a least one.
LEMMA LeastNumber ==
    ASSUME NEW N, N \subseteq Nat, N # {}
    PROVE  \E m \in N : \A n \in N : m <= n
<1> DEFINE Less == OpToRel(<, Nat)
<1>1. PICK m \in N : \A n \in N : <<n, m>> \notin Less
  <2>1. IsWellFoundedOn(Less, Nat)
    BY NatLessThanWellFounded
  <2> HIDE DEF Less
  <2> QED
    BY <2>1, WFMin
<1>2. \A n \in N : ~(n < m)
  BY <1>1 DEF OpToRel
<1> QED
  BY <1>2

\* Among subsets of a finite set there is one that has no other of them as a part.
LEMMA LeastSet ==
    ASSUME NEW S, IsFiniteSet(S), NEW F, F \subseteq SUBSET S, F # {}
    PROVE  \E T \in F : \A U \in F : U \subseteq T => U = T
<1>1. F \subseteq FiniteSubsetsOf(S)
  BY FS_FiniteSubsetsOfFinite
<1>2. IsWellFoundedOn(StrictSubsetOrdering(S), FiniteSubsetsOf(S))
  BY FS_StrictSubsetOrderingWellFounded
<1>3. \E T \in F : \A U \in F : ~(<<U, T>> \in StrictSubsetOrdering(S))
  BY <1>1, <1>2, WFMin
<1> QED
  BY <1>3 DEF StrictSubsetOrdering

\* Numbers below a bound have a greatest one.
LEMMA GreatestNumber ==
    ASSUME NEW N, N \subseteq Nat, N # {}, NEW b \in Nat, \A n \in N : n <= b
    PROVE  \E m \in N : \A n \in N : n <= m
<1> DEFINE D == {b - n : n \in N}
<1>1. D \subseteq Nat /\ D # {}
  <2>1. \A n \in N : b - n \in Nat
    OBVIOUS
  <2> QED
    BY <2>1
<1>2. PICK d \in D : \A e \in D : d <= e
  BY <1>1, LeastNumber
<1>3. PICK m \in N : d = b - m
  OBVIOUS
<1>4. \A n \in N : b - m <= b - n
  BY <1>2, <1>3
<1> QED
  BY <1>4

-----------------------------------------------------------------------------
(* Sums: MapThenSumSet is a function of the subsets defined by recursion   *)

Chosen(s) == CHOOSE x \in s : TRUE

\* h gives the sum of f over each subset of V.
AddsUp(h, f, V) == h = [s \in SUBSET V |-> IF s = {} THEN 0 ELSE f[Chosen(s)] + h[s \ {Chosen(s)}]]

\* There is one such function at most.
LEMMA OneSum ==
    ASSUME NEW f, NEW V, IsFiniteSet(V), NEW g, AddsUp(g, f, V), NEW h, AddsUp(h, f, V)
    PROVE  g = h
<1> DEFINE F == {s \in SUBSET V : g[s] # h[s]}
<1>1. SUFFICES ASSUME F # {}  PROVE FALSE
  BY DEF AddsUp
<1>2. PICK s \in F : \A u \in F : u \subseteq s => u = s
  <2>1. F \subseteq SUBSET V
    OBVIOUS
  <2> HIDE DEF F
  <2> QED
    BY <1>1, <2>1, LeastSet
<1>3. CASE s = {}
  BY <1>2, <1>3 DEF AddsUp
<1>4. CASE s # {}
  <2>1. Chosen(s) \in s
    BY <1>4 DEF Chosen
  <2>2. PICK u : u = s \ {Chosen(s)}
    OBVIOUS
  <2>3. u \in SUBSET V /\ u # s /\ u \subseteq s
    BY <1>2, <2>1, <2>2
  <2>4. g[u] = h[u]
    BY <1>2, <2>3
  <2>5. g[s] = f[Chosen(s)] + g[u] /\ h[s] = f[Chosen(s)] + h[u]
    BY <1>2, <1>4, <2>2 DEF AddsUp
  <2> QED
    BY <1>2, <2>4, <2>5
<1> QED
  BY <1>3, <1>4

\* On a part of V it is the sum function of the part.
LEMMA PartOfSum ==
    ASSUME NEW f, NEW V, NEW h, AddsUp(h, f, V), NEW W, W \subseteq V
    PROVE  AddsUp([s \in SUBSET W |-> h[s]], f, W)
<1> DEFINE k == [s \in SUBSET W |-> h[s]]
<1>1. ASSUME NEW s \in SUBSET W
      PROVE  k[s] = IF s = {} THEN 0 ELSE f[Chosen(s)] + k[s \ {Chosen(s)}]
  <2>1. s \in SUBSET V /\ (s \ {Chosen(s)}) \in SUBSET W
    OBVIOUS
  <2> QED
    BY <2>1 DEF AddsUp
<1>2. k = [s \in SUBSET W |-> k[s]]
  OBVIOUS
<1> HIDE DEF k
<1>3. k = [s \in SUBSET W |-> IF s = {} THEN 0 ELSE f[Chosen(s)] + k[s \ {Chosen(s)}]]
  BY <1>1, <1>2
<1> QED
  BY <1>3 DEF AddsUp, k

\* There is one.
LEMMA SomeSum ==
    ASSUME NEW f, NEW S, IsFiniteSet(S)
    PROVE  \E h : AddsUp(h, f, S)
<1> DEFINE F == {V \in SUBSET S : ~\E h : AddsUp(h, f, V)}
<1>1. SUFFICES ASSUME F # {}  PROVE FALSE
  OBVIOUS
<1>2. PICK V \in F : \A U \in F : U \subseteq V => U = V
  <2>1. F \subseteq SUBSET S
    OBVIOUS
  <2> HIDE DEF F
  <2> QED
    BY <1>1, <2>1, LeastSet
<1> DEFINE Of(W) == CHOOSE h : AddsUp(h, f, W)
<1>3. \A W \in SUBSET V : W # V => AddsUp(Of(W), f, W)
  BY <1>2
<1> HIDE DEF F, Of
<1> DEFINE h == [s \in SUBSET V |-> IF s = {} THEN 0 ELSE f[Chosen(s)] + Of(s \ {Chosen(s)})[s \ {Chosen(s)}]]
<1>4. ASSUME NEW s \in SUBSET V, s # V
      PROVE  h[s] = Of(s)[s]
  <2>1. CASE s = {}
    BY <1>3, <1>4, <2>1 DEF AddsUp
  <2>2. CASE s # {}
    <3>1. PICK x, u : x = Chosen(s) /\ u = s \ {x}
      OBVIOUS
    <3>2. x \in s /\ u \in SUBSET s /\ u # s
      BY <2>2, <3>1 DEF Chosen
    <3>3. AddsUp(Of(s), f, s) /\ AddsUp(Of(u), f, u)
      BY <1>3, <1>4, <3>2
    <3>4. IsFiniteSet(u)
      <4>1. u \in SUBSET S
        BY <1>2, <3>2 DEF F
      <4> QED
        BY <4>1, FS_Subset
    <3>5. AddsUp([t \in SUBSET u |-> Of(s)[t]], f, u)
      BY <3>2, <3>3, PartOfSum
    <3>6. Of(u) = [t \in SUBSET u |-> Of(s)[t]]
      BY <3>3, <3>4, <3>5, OneSum
    <3>7. Of(u)[u] = Of(s)[u]
      BY <3>6
    <3>8. Of(s)[s] = f[x] + Of(s)[u]
      BY <2>2, <3>1, <3>3 DEF AddsUp
    <3>9. h[s] = f[x] + Of(u)[u]
      BY <2>2, <3>1
    <3> QED
      BY <3>7, <3>8, <3>9
  <2> QED
    BY <2>1, <2>2
<1>5. ASSUME NEW s \in SUBSET V, s # {}
      PROVE  h[s] = f[Chosen(s)] + h[s \ {Chosen(s)}]
  <2>1. PICK u : u = s \ {Chosen(s)}
    OBVIOUS
  <2>2. u \in SUBSET V /\ u # V
    BY <1>5, <2>1 DEF Chosen
  <2>3. h[u] = Of(u)[u]
    BY <1>4, <2>2
  <2>4. h[s] = f[Chosen(s)] + Of(u)[u]
    BY <1>5, <2>1
  <2> QED
    BY <2>1, <2>3, <2>4
<1>6. h[{}] = 0 /\ h = [s \in SUBSET V |-> h[s]]
  OBVIOUS
<1> HIDE DEF h
<1>7. AddsUp(h, f, V)
  BY <1>5, <1>6 DEF AddsUp
<1> QED
  BY <1>2, <1>7 DEF F

\* The operators that Statistics takes from the library are the library's.
LEMMA SameCount == \A S : Statistic!Cardinality(S) = Cardinality(S) /\ (Statistic!IsFiniteSet(S) <=> IsFiniteSet(S))
BY DEF Statistic!Cardinality, Cardinality, Statistic!IsFiniteSet, IsFiniteSet

\* Total is the sum over the whole domain.
LEMMA TotalIsSum ==
    ASSUME NEW f, IsFiniteSet(DOMAIN f)
    PROVE  \E h : AddsUp(h, f, DOMAIN f) /\ Statistic!Total(f) = h[DOMAIN f]
<1> DEFINE P(h) == h = [s \in SUBSET DOMAIN f |-> IF s = {} THEN 0 ELSE LET x == CHOOSE x \in s : TRUE IN f[x] + h[s \ {x}]]
<1>1. \A h : AddsUp(h, f, DOMAIN f) <=> P(h)
  BY DEF AddsUp, Chosen
<1>2. Statistic!Total(f) = (CHOOSE h : P(h))[DOMAIN f]
  BY DEF Statistic!Total, Statistic!MapThenSumSet, Statistic!MapThenFoldSet
<1>3. \E h : AddsUp(h, f, DOMAIN f)
  BY SomeSum
<1> HIDE DEF P
<1>4. P(CHOOSE h : P(h))
  BY <1>1, <1>3
<1> QED
  BY <1>1, <1>2, <1>4

\* Figures that count the elements of R by what k says of them add up to all of R.
LEMMA TotalCounts ==
    ASSUME NEW R, IsFiniteSet(R), NEW f, IsFiniteSet(DOMAIN f), NEW k, \A x \in R : k[x] \in DOMAIN f,
           \A d \in DOMAIN f : f[d] = Cardinality({x \in R : k[x] = d})
    PROVE  Statistic!Total(f) = Cardinality(R)
<1>1. PICK h : AddsUp(h, f, DOMAIN f) /\ Statistic!Total(f) = h[DOMAIN f]
  BY TotalIsSum
<1> DEFINE Of(V) == {x \in R : k[x] \in V}
           F == {V \in SUBSET DOMAIN f : h[V] # Cardinality(Of(V))}
<1>2. ASSUME F # {}  PROVE FALSE
  <2>1. PICK V \in F : \A U \in F : U \subseteq V => U = V
    <3>1. F \subseteq SUBSET DOMAIN f
      OBVIOUS
    <3> HIDE DEF F
    <3> QED
      BY <1>2, <3>1, LeastSet
  <2>2. CASE V = {}
    <3>1. Of(V) = {} /\ h[V] = 0
      BY <1>1, <2>2 DEF AddsUp
    <3> QED
      BY <2>1, <3>1, FS_EmptySet
  <2>3. CASE V # {}
    <3>1. PICK c, U : c = Chosen(V) /\ U = V \ {c}
      OBVIOUS
    <3>2. c \in V /\ U \in SUBSET DOMAIN f /\ U \subseteq V /\ U # V
      BY <2>1, <2>3, <3>1 DEF Chosen
    <3>3. h[U] = Cardinality(Of(U))
      BY <2>1, <3>2
    <3>4. h[V] = f[c] + h[U]
      BY <1>1, <2>1, <2>3, <3>1 DEF AddsUp
    <3>5. PICK A, B : A = {x \in R : k[x] = c} /\ B = Of(U)
      OBVIOUS
    <3>6. IsFiniteSet(A) /\ IsFiniteSet(B)
      <4>1. A \in SUBSET R /\ B \in SUBSET R
        BY <3>5
      <4> QED
        BY <4>1, FS_Subset
    <3>7. A \cup B = Of(V) /\ A \cap B = {}
      BY <3>1, <3>2, <3>5
    <3>8. Cardinality(A \cup B) = Cardinality(A) + Cardinality(B)
      <4>1. Cardinality(A \cup B) = Cardinality(A) + Cardinality(B) - Cardinality(A \cap B)
        BY <3>6, FS_Union
      <4>2. Cardinality(A \cap B) = 0
        BY <3>7, FS_EmptySet
      <4>3. Cardinality(A) \in Nat /\ Cardinality(B) \in Nat
        BY <3>6, FS_CardinalityType
      <4> QED
        BY <4>1, <4>2, <4>3
    <3>9. f[c] = Cardinality(A)
      BY <2>1, <3>2, <3>5
    <3> QED
      BY <2>1, <3>3, <3>4, <3>5, <3>7, <3>8, <3>9
  <2> QED
    BY <2>2, <2>3
<1>3. h[DOMAIN f] = Cardinality(Of(DOMAIN f)) /\ Of(DOMAIN f) = R
  BY <1>2
<1> QED
  BY <1>1, <1>3

\* Figures between 0 and m add up to a number between 0 and m times their number.
LEMMA TotalBounded ==
    ASSUME NEW f, IsFiniteSet(DOMAIN f), NEW m \in Nat, \A d \in DOMAIN f : f[d] \in 0..m
    PROVE  Statistic!Total(f) \in 0..Cardinality(DOMAIN f) * m
<1>1. PICK h : AddsUp(h, f, DOMAIN f) /\ Statistic!Total(f) = h[DOMAIN f]
  BY TotalIsSum
<1> DEFINE F == {V \in SUBSET DOMAIN f : h[V] \notin 0..Cardinality(V) * m}
<1>2. ASSUME F # {}  PROVE FALSE
  <2>1. PICK V \in F : \A U \in F : U \subseteq V => U = V
    <3>1. F \subseteq SUBSET DOMAIN f
      OBVIOUS
    <3> HIDE DEF F
    <3> QED
      BY <1>2, <3>1, LeastSet
  <2>2. CASE V = {}
    <3>1. Cardinality(V) = 0 /\ h[V] = 0
      BY <1>1, <2>2, FS_EmptySet DEF AddsUp
    <3>2. 0 * m = 0
      OBVIOUS
    <3> QED
      BY <2>1, <3>1, <3>2
  <2>3. CASE V # {}
    <3>1. PICK c, U : c = Chosen(V) /\ U = V \ {c}
      OBVIOUS
    <3>2. c \in V /\ U \in SUBSET DOMAIN f /\ U \subseteq V /\ U # V
      BY <2>1, <2>3, <3>1 DEF Chosen
    <3>3. h[U] \in 0..Cardinality(U) * m
      BY <2>1, <3>2
    <3>4. h[V] = f[c] + h[U]
      BY <1>1, <2>1, <2>3, <3>1 DEF AddsUp
    <3>5. IsFiniteSet(V)
      BY FS_Subset
    <3>6. PICK n \in Nat : n = Cardinality(U) /\ Cardinality(V) = n + 1
      <4>1. IsFiniteSet(U) /\ Cardinality(U) = Cardinality(V) - 1
        BY <3>1, <3>2, <3>5, FS_RemoveElement
      <4>2. Cardinality(U) \in Nat /\ Cardinality(V) \in Nat
        BY <3>5, <4>1, FS_CardinalityType
      <4> QED
        BY <4>1, <4>2
    <3>7. (n + 1) * m = n * m + m /\ n * m \in Nat
      OBVIOUS
    <3>8. h[V] \in 0..(n + 1) * m
      BY <3>2, <3>3, <3>4, <3>6, <3>7
    <3> QED
      BY <2>1, <3>6, <3>8
  <2> QED
    BY <2>2, <2>3
<1> QED
  BY <1>1, <1>2

-----------------------------------------------------------------------------
(* Sorting: the place of an element is the number of those before it       *)

\* L orders the elements of S, one before the other.
Orders(L, S) ==
    /\ \A x \in S : <<x, x>> \notin L
    /\ \A x, y \in S : x # y => <<x, y>> \in L \/ <<y, x>> \in L
    /\ \A x, y, z \in S : <<x, y>> \in L /\ <<y, z>> \in L => <<x, z>> \in L
Before(x, L, S) == {y \in S : <<y, x>> \in L}

\* q has every element of S once, in the order L.
Lists(q, L, S) ==
    /\ q = [k \in 1..Cardinality(S) |-> q[k]]
    /\ \A k \in 1..Cardinality(S) : q[k] \in S
    /\ \A x \in S : \E k \in 1..Cardinality(S) : q[k] = x
    /\ \A j, k \in 1..Cardinality(S) : j < k => <<q[j], q[k]>> \in L

\* What is before an element is counted by a number less than that of all.
LEMMA PlaceType ==
    ASSUME NEW S, IsFiniteSet(S), NEW L, Orders(L, S), NEW x \in S
    PROVE  Cardinality(Before(x, L, S)) \in 0..(Cardinality(S) - 1)
<1>1. Before(x, L, S) \in SUBSET (S \ {x})
  BY DEF Before, Orders
<1>2. IsFiniteSet(S \ {x}) /\ Cardinality(S \ {x}) = Cardinality(S) - 1
  BY FS_RemoveElement
<1>3. IsFiniteSet(Before(x, L, S)) /\ Cardinality(Before(x, L, S)) <= Cardinality(S \ {x})
  BY <1>1, <1>2, FS_Subset
<1>4. Cardinality(Before(x, L, S)) \in Nat /\ Cardinality(S) \in Nat
  BY <1>3, FS_CardinalityType
<1> QED
  BY <1>2, <1>3, <1>4

\* It is less for what comes before.
LEMMA PlaceGrows ==
    ASSUME NEW S, IsFiniteSet(S), NEW L, Orders(L, S), NEW x \in S, NEW y \in S, <<x, y>> \in L
    PROVE  Cardinality(Before(x, L, S)) < Cardinality(Before(y, L, S))
<1> DEFINE A == Before(x, L, S)
           B == Before(y, L, S)
<1>1. A \cup {x} \in SUBSET B /\ x \notin A /\ A \in SUBSET S /\ B \in SUBSET S
  BY DEF Before, Orders
<1> HIDE DEF A, B
<1>2. IsFiniteSet(A) /\ IsFiniteSet(B)
  BY <1>1, FS_Subset
<1>3. Cardinality(A \cup {x}) = Cardinality(A) + 1
  BY <1>1, <1>2, FS_AddElement
<1>4. Cardinality(A \cup {x}) <= Cardinality(B)
  BY <1>1, <1>2, FS_Subset
<1>5. Cardinality(A) \in Nat /\ Cardinality(B) \in Nat
  BY <1>2, FS_CardinalityType
<1>6. Cardinality(A) < Cardinality(B)
  BY <1>3, <1>4, <1>5
<1> QED
  BY <1>6 DEF A, B

\* Putting every element at its place lists them.
LEMMA PlacesList ==
    ASSUME NEW S, IsFiniteSet(S), NEW L, Orders(L, S), NEW q, q = [k \in 1..Cardinality(S) |-> q[k]],
           \A k \in 1..Cardinality(S), x \in S : Cardinality(Before(x, L, S)) = k - 1 =>
              q[k] \in S /\ Cardinality(Before(q[k], L, S)) = k - 1
    PROVE  Lists(q, L, S)
<1> DEFINE n == Cardinality(S)
           place == [x \in S |-> Cardinality(Before(x, L, S)) + 1]
<1>0. n \in Nat
  BY FS_CardinalityType
<1>1. n \in Nat /\ IsFiniteSet(1..n) /\ Cardinality(1..n) = n
  <2> HIDE DEF n
  <2> QED
    BY <1>0, FS_Interval
<1>2. \A x \in S : Cardinality(Before(x, L, S)) \in 0..(n - 1)
  BY PlaceType
<1> HIDE DEF n
<1>3. place \in [S -> 1..n]
  BY <1>1, <1>2
<1>4. \A x, y \in S : place[x] = place[y] => x = y
  <2> SUFFICES ASSUME NEW x \in S, NEW y \in S, place[x] = place[y], x # y  PROVE FALSE
    OBVIOUS
  <2>1. <<x, y>> \in L \/ <<y, x>> \in L
    BY DEF Orders
  <2>2. Cardinality(Before(x, L, S)) = Cardinality(Before(y, L, S))
    BY <1>1, <1>2
  <2> QED
    BY <1>1, <1>2, <2>1, <2>2, PlaceGrows
<1>5. place \in Surjection(S, 1..n)
  <2>1. place \in Injection(S, 1..n)
    BY <1>3, <1>4 DEF Injection, IsInjective
  <2> HIDE DEF place
  <2>2. Cardinality(S) = Cardinality(1..n)
    BY <1>1 DEF n
  <2> QED
    BY <1>1, <2>1, <2>2, FS_Injection
<1>6. \A k \in 1..n : \E x \in S : place[x] = k
  BY <1>5 DEF Surjection
<1>7. \A k \in 1..n : q[k] \in S /\ Cardinality(Before(q[k], L, S)) = k - 1
  <2> TAKE k \in 1..n
  <2>1. PICK x \in S : place[x] = k
    BY <1>6
  <2>2. Cardinality(Before(x, L, S)) = k - 1
    BY <1>1, <1>2, <2>1
  <2> QED
    BY <2>2 DEF n
<1>8. \A x \in S : \E k \in 1..n : q[k] = x
  <2> TAKE x \in S
  <2>1. PICK k \in 1..n : place[x] = k
    BY <1>3
  <2>2. q[k] \in S /\ place[q[k]] = k
    <3>1. q[k] \in S /\ Cardinality(Before(q[k], L, S)) = k - 1
      BY <1>7
    <3>2. place[q[k]] = (k - 1) + 1 /\ k \in Int
      BY <1>1, <3>1
    <3> QED
      BY <3>1, <3>2
  <2> HIDE DEF place
  <2> QED
    BY <1>4, <2>1, <2>2
<1>9. \A j, k \in 1..n : j < k => <<q[j], q[k]>> \in L
  <2> SUFFICES ASSUME NEW j \in 1..n, NEW k \in 1..n, j < k  PROVE <<q[j], q[k]>> \in L
    OBVIOUS
  <2>1. PICK x, y : x = q[j] /\ y = q[k]
    OBVIOUS
  <2>2. x \in S /\ y \in S /\ Cardinality(Before(x, L, S)) = j - 1 /\ Cardinality(Before(y, L, S)) = k - 1
    BY <1>7, <2>1
  <2>3. x # y /\ ~(<<y, x>> \in L)
    BY <1>1, <2>2, PlaceGrows
  <2> QED
    BY <2>1, <2>2, <2>3 DEF Orders
<1> QED
  BY <1>7, <1>8, <1>9 DEF Lists, n

-----------------------------------------------------------------------------
(* The table of submissions                                                *)

Row == [user : Members, problem : Tasks, time : 0..LastTime, status : {"PENDING", "WA", "AC"},
        runtime : Runtimes \cup {0}, contest : Nat, seen : SUBSET Nat]

\* Contest ids that are drawn; the first of some contests, or none.
Drawn == 1..(Len(FirstContests) + changes)
FirstOf(S) == IF S = {} THEN 0 ELSE Statistic!Min(S)

\* A row of the table, made by now, for a problem that is there; an accepted one has a
\* runtime, and one is tied to the first contest that its request saw running, if that exists.
RowOK(row) ==
    /\ row \in Row
    /\ row.problem \in listedProblems /\ row.time <= now
    /\ row.status = "AC" => row.runtime # 0
    /\ row.seen \subseteq Drawn
    /\ row.contest = IF FirstOf(row.seen) \in DOMAIN listedContests THEN FirstOf(row.seen) ELSE 0

RequestOK(ask) ==
    /\ ask.problem \in Tasks /\ ask.seen \subseteq Drawn
    /\ ask.contest = FirstOf(ask.seen)

ContestOK(contest) == contest \in Statistic!Contest /\ contest.problems \subseteq listedProblems

TableInv ==
    /\ now \in 0..LastTime /\ listedProblems \subseteq Tasks /\ changes \in 0..MaxChanges
    /\ DOMAIN listedContests \subseteq Drawn /\ \A c \in DOMAIN listedContests : ContestOK(listedContests[c])
    /\ asking = [u \in Members |-> asking[u]]
    /\ \A u \in Members : asking[u] # Statistic!NoRequest => RequestOK(asking[u])
    /\ Len(subs) \in Nat /\ subs = [i \in 1..Len(subs) |-> subs[i]]
    /\ \A i \in DOMAIN subs : RowOK(subs[i])

\* The steps of PartsSpec are steps of the statistics or leave them alone.
LEMMA StatisticsRun == PartsSpec => Statistic!Init /\ [][Statistic!Next]_(Statistic!vars)
<1>1. PartsInit => Statistic!Init
  BY DEF PartsInit
<1>2. [PartsNext]_<<part, vars, statisticsVars, boardsVars, bankVars>> => [Statistic!Next]_(Statistic!vars)
  BY DEF PartsNext, statisticsVars, Statistic!vars
<1> QED
  BY <1>1, <1>2, PTL DEF PartsSpec

\* What the assumption says of the constants.
LEMMA Figures ==
    /\ IsFiniteSet(Members) /\ IsFiniteSet(Tasks)
    /\ \A u, v \in Members : NameOrder[u] \in Nat /\ (NameOrder[u] = NameOrder[v] => u = v)
    /\ MaxSubs \in Nat /\ LastTime \in Nat /\ DayLength \in Nat \ {0}
    /\ DOMAIN FirstContests = 1..Len(FirstContests) /\ Len(FirstContests) \in Nat
    /\ \A c \in DOMAIN FirstContests : FirstContests[c] \in Statistic!Contest
    /\ ContestForms \subseteq Statistic!Contest /\ MaxChanges \in Nat
    /\ Runtimes \subseteq Nat \ {0} /\ DailyTop \in Nat \ {0} /\ BoardTop \in Nat \ {0}
    /\ NoOne \notin Members
BY SameCount DEF RecordsAssumption, Statistic!StatisticsAssumption

\* The bounds are numbers.
LEMMA Bounds == LastTime \in Nat /\ MaxChanges \in Nat /\ Len(FirstContests) \in Nat
BY Figures

\* Of some numbers the first is one of them; NoContest is none.
LEMMA FirstIn ==
    ASSUME NEW S, S \subseteq Nat \ {0}
    PROVE  /\ S = {} => FirstOf(S) = 0
           /\ S # {} => FirstOf(S) \in S
           /\ FirstOf(S) \in S \cup {0} /\ FirstOf(S) \in Nat
<1>1. CASE S = {}
  BY <1>1 DEF FirstOf
<1>2. CASE S # {}
  <2>1. \E m \in S : \A n \in S : m <= n
    BY <1>2, LeastNumber
  <2>2. Statistic!Min(S) \in S
    BY <2>1 DEF Statistic!Min
  <2> QED
    BY <1>2, <2>2 DEF FirstOf
<1> QED
  BY <1>1, <1>2

\* Ids are numbered from 1.
LEMMA DrawnIds ==
    ASSUME TableInv
    PROVE  /\ Drawn \subseteq Nat \ {0} /\ changes \in Nat /\ Len(FirstContests) + changes \in Nat
           /\ \A S : S \subseteq Drawn => S \subseteq Nat \ {0}
BY Figures DEF TableInv, Drawn

\* The contests that the INSERT's SELECT finds are those that the pages show as running.
LEMMA RunningShown ==
    ASSUME TableInv, NEW p
    PROVE  Statistic!Running(p) = Statistic!Ongoing(p) /\ Statistic!Ongoing(p) \subseteq DOMAIN listedContests
<1>1. ASSUME NEW c \in DOMAIN listedContests
      PROVE  now >= listedContests[c].from /\ now <= listedContests[c].to
                <=> Statistic!ContestStatus(listedContests[c], now) = "ongoing"
  <2>1. listedContests[c].from \in Nat /\ listedContests[c].to \in Nat
    BY DEF TableInv, ContestOK, Statistic!Contest
  <2>2. now \in Nat
    BY Figures DEF TableInv
  <2> QED
    BY <2>1, <2>2 DEF Statistic!ContestStatus
<1> QED
  BY <1>1 DEF Statistic!Running, Statistic!Ongoing

\* Only the tables, the ids and the clock matter for a row, and later ids and times do no harm.
LEMMA RowLater ==
    ASSUME TableInv, NEW row, RowOK(row), listedProblems' = listedProblems, listedContests' = listedContests,
           changes' = changes, now' \in Nat, now <= now'
    PROVE  RowOK(row)'
<1>1. row.time \in Nat /\ now \in Nat /\ row.time <= now
  BY Figures DEF RowOK, Row, TableInv
<1>2. row.time <= now'
  BY <1>1
<1>3. Drawn' = Drawn
  BY DEF Drawn
<1> QED
  BY <1>2, <1>3 DEF RowOK

\* POST /submit looks for a contest.
LEMMA SelectKept ==
    ASSUME TableInv, NEW u \in Members, NEW p \in Tasks, Statistic!SubmitSelect(u, p)
    PROVE  TableInv'
<1>1. PICK ask : ask = [problem |-> p,
         contest |-> IF Statistic!Running(p) = {} THEN 0 ELSE Statistic!Min(Statistic!Running(p)), seen |-> Statistic!Ongoing(p)]
  OBVIOUS
<1>2. /\ asking' = [asking EXCEPT ![u] = ask]
      /\ UNCHANGED <<now, listedProblems, listedContests, changes, subs>>
  BY <1>1 DEF Statistic!SubmitSelect, Statistic!NoContest
<1>3. RequestOK(ask)
  <2>1. ask.problem = p /\ ask.seen = Statistic!Ongoing(p) /\ ask.contest = FirstOf(Statistic!Ongoing(p))
    BY <1>1, RunningShown DEF FirstOf
  <2>2. Statistic!Ongoing(p) \subseteq Drawn
    BY RunningShown DEF TableInv
  <2> QED
    BY <2>1, <2>2 DEF RequestOK
<1>4. Drawn' = Drawn
  BY <1>2 DEF Drawn
<1>5. /\ asking' = [v \in Members |-> asking'[v]]
      /\ \A v \in Members : asking'[v] = IF v = u THEN ask ELSE asking[v]
  <2>1. asking = [v \in Members |-> asking[v]]
    BY DEF TableInv
  <2> QED
    BY <1>2, <2>1
<1>6. \A v \in Members : asking'[v] # Statistic!NoRequest => RequestOK(asking'[v])
  BY <1>3, <1>5 DEF TableInv
<1>7. \A v \in Members : (asking[v] # Statistic!NoRequest => RequestOK(asking[v]))'
  BY <1>4, <1>6 DEF RequestOK, Statistic!NoRequest
<1>8. \A i \in DOMAIN subs : RowOK(subs[i])'
  BY <1>2, <1>4 DEF TableInv, RowOK
<1>9. \A c \in DOMAIN listedContests : ContestOK(listedContests[c])'
  BY <1>2 DEF TableInv, ContestOK, Statistic!Contest
<1> QED
  BY <1>2, <1>4, <1>5, <1>7, <1>8, <1>9 DEF TableInv

\* A row appended.
LEMMA RowAppended ==
    ASSUME Len(subs) \in Nat, subs = [i \in 1..Len(subs) |-> subs[i]], NEW row, subs' = Append(subs, row)
    PROVE  /\ Len(subs') = Len(subs) + 1 /\ subs' = [i \in 1..Len(subs') |-> subs'[i]]
           /\ \A i \in DOMAIN subs' : subs'[i] = row \/ (i \in DOMAIN subs /\ subs'[i] = subs[i])
<1> DEFINE All == {subs[i] : i \in 1..Len(subs)} \cup {row}
<1>1. subs \in Seq(All) /\ row \in All
  <2>1. \A i \in 1..Len(subs) : subs[i] \in All
    OBVIOUS
  <2> HIDE DEF All
  <2>2. subs \in [1..Len(subs) -> All]
    BY <2>1
  <2>3. subs \in Seq(All)
    BY <2>2
  <2> QED
    BY <2>3 DEF All
<1> HIDE DEF All
<1>2. PICK n \in Nat : n = Len(subs)
  OBVIOUS
<1>3. PICK new : new = Append(subs, row)
  OBVIOUS
<1>4. /\ new \in Seq(All) /\ Len(new) = n + 1
      /\ new[n + 1] = row /\ \A i \in 1..n : new[i] = subs[i]
  BY <1>1, <1>2, <1>3, AppendProperties
<1>5. new = [i \in 1..(n + 1) |-> new[i]]
  BY <1>4
<1>6. \A i \in 1..(n + 1) : new[i] = row \/ (i \in 1..n /\ new[i] = subs[i])
  BY <1>4
<1>7. DOMAIN subs = 1..n /\ DOMAIN new = 1..(n + 1)
  BY <1>2, <1>5
<1> QED
  BY <1>2, <1>3, <1>4, <1>5, <1>6, <1>7

\* POST /submit inserts the row, or fails.
LEMMA InsertKept ==
    ASSUME TableInv, NEW u \in Members, Statistic!SubmitInsert(u)
    PROVE  TableInv'
<1>1. PICK ask : ask = asking[u] /\ ask # Statistic!NoRequest /\ RequestOK(ask)
  BY DEF TableInv, Statistic!SubmitInsert
<1> DEFINE row == [user |-> u, problem |-> ask.problem, time |-> now, status |-> "PENDING", runtime |-> 0,
                   contest |-> ask.contest, seen |-> ask.seen]
<1>2. /\ asking' = [asking EXCEPT ![u] = Statistic!NoRequest]
      /\ subs' = IF ask.problem \in listedProblems /\ ask.contest \in DOMAIN listedContests \cup {0}
                 THEN Append(subs, row) ELSE subs
      /\ UNCHANGED <<now, listedProblems, listedContests, changes>>
  BY <1>1 DEF Statistic!SubmitInsert, Statistic!NoContest
<1>3. Drawn' = Drawn
  BY <1>2 DEF Drawn
<1>4. ASSUME ask.problem \in listedProblems, ask.contest \in DOMAIN listedContests \cup {0}
      PROVE  RowOK(row)
  <2>1. now \in 0..LastTime /\ now \in Nat
    BY Figures DEF TableInv
  <2>2. ask.seen \subseteq Drawn /\ ask.contest = FirstOf(ask.seen) /\ ask.problem \in Tasks
    BY <1>1 DEF RequestOK
  <2>3. ask.seen \in SUBSET Nat /\ ask.contest \in Nat
    BY <2>2, DrawnIds, FirstIn
  <2>4. row \in Row
    BY <2>1, <2>2, <2>3 DEF Row
  <2>5. row.contest = IF FirstOf(row.seen) \in DOMAIN listedContests THEN FirstOf(row.seen) ELSE 0
    BY <1>4, <2>2
  <2>6. row.problem \in listedProblems /\ row.time <= now /\ row.status # "AC" /\ row.seen \subseteq Drawn
    BY <1>4, <2>1, <2>2
  <2> QED
    BY <2>4, <2>5, <2>6 DEF RowOK
<1> HIDE DEF row
<1>5. Len(subs) \in Nat /\ subs = [i \in 1..Len(subs) |-> subs[i]] /\ \A i \in DOMAIN subs : RowOK(subs[i])
  BY DEF TableInv
<1>6. Len(subs') \in Nat /\ subs' = [i \in 1..Len(subs') |-> subs'[i]] /\ \A i \in DOMAIN subs' : RowOK(subs'[i])
  <2>1. CASE ask.problem \in listedProblems /\ ask.contest \in DOMAIN listedContests \cup {0}
    <3>1. subs' = Append(subs, row) /\ RowOK(row)
      BY <1>2, <1>4, <2>1
    <3> QED
      BY <1>5, <3>1, RowAppended
  <2>2. CASE ~(ask.problem \in listedProblems /\ ask.contest \in DOMAIN listedContests \cup {0})
    BY <1>2, <1>5, <2>2
  <2> QED
    BY <2>1, <2>2
<1>7. \A i \in DOMAIN subs' : RowOK(subs[i])'
  BY <1>2, <1>3, <1>6 DEF RowOK
<1>8. /\ asking' = [v \in Members |-> asking'[v]]
      /\ \A v \in Members : asking'[v] = IF v = u THEN Statistic!NoRequest ELSE asking[v]
  <2>1. asking = [v \in Members |-> asking[v]]
    BY DEF TableInv
  <2> QED
    BY <1>2, <2>1
<1>9. \A v \in Members : (asking[v] # Statistic!NoRequest => RequestOK(asking[v]))'
  BY <1>3, <1>8 DEF TableInv, RequestOK, Statistic!NoRequest
<1>10. \A c \in DOMAIN listedContests : ContestOK(listedContests[c])'
  BY <1>2 DEF TableInv, ContestOK, Statistic!Contest
<1> QED
  BY <1>2, <1>3, <1>6, <1>7, <1>8, <1>9, <1>10 DEF TableInv

\* A step that leaves contests and requests alone keeps what is said of them.
LEMMA OthersKept ==
    ASSUME TableInv, UNCHANGED <<listedProblems, listedContests, changes, asking>>, now' \in 0..LastTime,
           Len(subs') \in Nat, subs' = [i \in 1..Len(subs') |-> subs'[i]], \A i \in DOMAIN subs' : RowOK(subs[i])'
    PROVE  TableInv'
<1>1. Drawn' = Drawn
  BY DEF Drawn
<1>2. \A u \in Members : (asking[u] # Statistic!NoRequest => RequestOK(asking[u]))'
  BY <1>1 DEF TableInv, RequestOK, Statistic!NoRequest
<1>3. \A c \in DOMAIN listedContests : ContestOK(listedContests[c])'
  BY DEF TableInv, ContestOK, Statistic!Contest
<1> QED
  BY <1>1, <1>2, <1>3 DEF TableInv

\* A verdict and a rejudge change status and runtime of one row.
LEMMA RowChanges ==
    ASSUME TableInv, NEW i \in DOMAIN subs, Statistic!Judge(i) \/ Statistic!Rejudge(i)
    PROVE  TableInv'
<1>1. PICK s, r : /\ s \in {"PENDING", "WA", "AC"} /\ r \in Runtimes \cup {0} /\ (s = "AC" => r # 0)
                  /\ subs' = [subs EXCEPT ![i].status = s, ![i].runtime = r]
  <2>1. CASE Statistic!Judge(i)
    <3>1. PICK v \in {[s |-> "WA", r |-> 0]} \cup {[s |-> "AC", r |-> x] : x \in Runtimes} :
             subs' = [subs EXCEPT ![i].status = v.s, ![i].runtime = v.r]
      BY <2>1 DEF Statistic!Judge
    <3>2. v.s \in {"PENDING", "WA", "AC"} /\ v.r \in Runtimes \cup {0} /\ (v.s = "AC" => v.r # 0)
      BY Figures
    <3> QED
      BY <3>1, <3>2
  <2>2. CASE Statistic!Rejudge(i)
    <3>1. subs' = [subs EXCEPT ![i].status = "PENDING", ![i].runtime = 0]
      BY <2>2 DEF Statistic!Rejudge
    <3> QED
      BY <3>1
  <2> QED
    BY <2>1, <2>2
<1>2. UNCHANGED <<now, listedProblems, listedContests, changes, asking>>
  BY DEF Statistic!Judge, Statistic!Rejudge
<1>3. PICK n \in Nat : n = Len(subs) /\ subs = [j \in 1..n |-> subs[j]]
  BY DEF TableInv
<1>4. subs' = [j \in 1..n |-> subs'[j]] /\ \A j \in 1..n \ {i} : subs'[j] = subs[j]
  BY <1>1, <1>3
<1>5. Len(subs') = n
  BY <1>3, <1>4
<1>6. subs'[i] = [subs[i] EXCEPT !.status = s, !.runtime = r]
  BY <1>1, <1>3
<1>7. RowOK(subs'[i])
  <2>1. RowOK(subs[i])
    BY DEF TableInv
  <2>2. subs[i] \in Row
    BY <2>1 DEF RowOK
  <2>3. PICK row : row = subs'[i]
    OBVIOUS
  <2>4. /\ row.user = subs[i].user /\ row.problem = subs[i].problem /\ row.time = subs[i].time
        /\ row.contest = subs[i].contest /\ row.seen = subs[i].seen
        /\ row.status = s /\ row.runtime = r /\ row \in Row
    BY <1>1, <1>6, <2>2, <2>3 DEF Row
  <2> QED
    BY <1>1, <2>1, <2>3, <2>4 DEF RowOK
<1>8. \A j \in DOMAIN subs' : RowOK(subs'[j])
  BY <1>3, <1>4, <1>7 DEF TableInv
<1>9. \A j \in DOMAIN subs' : RowOK(subs[j])'
  BY <1>2, <1>8 DEF RowOK, Drawn
<1>10. /\ UNCHANGED <<listedProblems, listedContests, changes, asking>> /\ now' \in 0..LastTime
       /\ Len(subs') \in Nat /\ subs' = [j \in 1..Len(subs') |-> subs'[j]]
  BY <1>2, <1>4, <1>5 DEF TableInv
<1> QED
  BY <1>9, <1>10, OthersKept

\* The rows of a table are numbered.
LEMMA RowNumbers ==
    ASSUME TableInv
    PROVE  DOMAIN subs = 1..Len(subs) /\ Len(subs) \in Nat /\ IsFiniteSet(DOMAIN subs)
<1>1. Len(subs) \in Nat /\ subs = [i \in 1..Len(subs) |-> subs[i]]
  BY DEF TableInv
<1>2. DOMAIN subs = 1..Len(subs)
  BY <1>1
<1>3. IsFiniteSet(1..Len(subs))
  BY <1>1, FS_Interval
<1> QED
  BY <1>1, <1>2, <1>3

\* ORDER BY id.
ById == {z \in Nat \X Nat : z[1] < z[2]}
LEMMA SortedById ==
    ASSUME NEW S, S \subseteq Nat, IsFiniteSet(S)
    PROVE  Lists(Statistic!Sorted(S, Statistic!Earlier), ById, S)
<1>1. Orders(ById, S)
  BY DEF Orders, ById
<1>2. \A x \in S : {y \in S : Statistic!Earlier(y, x)} = Before(x, ById, S)
  BY DEF Statistic!Earlier, Before, ById
<1>3. \A x \in S : Statistic!Cardinality({y \in S : Statistic!Earlier(y, x)}) = Cardinality(Before(x, ById, S))
  BY <1>2, SameCount
<1>4. PICK q : q = Statistic!Sorted(S, Statistic!Earlier)
  OBVIOUS
<1>5. q = [k \in 1..Cardinality(S) |->
              CHOOSE x \in S : Statistic!Cardinality({y \in S : Statistic!Earlier(y, x)}) = k - 1]
  BY <1>4, SameCount DEF Statistic!Sorted
<1>6. ASSUME NEW k \in 1..Cardinality(S), NEW x \in S, Cardinality(Before(x, ById, S)) = k - 1
      PROVE  q[k] \in S /\ Cardinality(Before(q[k], ById, S)) = k - 1
  BY <1>3, <1>5, <1>6
<1>7. q = [k \in 1..Cardinality(S) |-> q[k]]
  <2> DEFINE At(k) == CHOOSE x \in S : Statistic!Cardinality({y \in S : Statistic!Earlier(y, x)}) = k - 1
  <2>1. q = [k \in 1..Cardinality(S) |-> At(k)]
    BY <1>5
  <2> HIDE DEF At
  <2> QED
    BY <2>1
<1> QED
  BY <1>1, <1>4, <1>6, <1>7, PlacesList

\* DELETE /problems/:id leaves the rows of the others.
LEMMA RowsDeleted ==
    ASSUME TableInv, NEW p \in Tasks, Statistic!DeleteProblem(p)
    PROVE  TableInv'
<1> DEFINE S == {i \in DOMAIN subs : subs[i].problem # p}
           left == Statistic!Sorted(S, Statistic!Earlier)
<1>1. /\ listedProblems' = listedProblems \ {p} /\ subs' = [k \in DOMAIN left |-> subs[left[k]]]
      /\ listedContests' = [c \in DOMAIN listedContests |-> [listedContests[c] EXCEPT !.problems = @ \ {p}]]
      /\ UNCHANGED <<now, changes, asking>>
  BY DEF Statistic!DeleteProblem
<1>2. S \subseteq Nat /\ IsFiniteSet(S)
  <2>1. DOMAIN subs \subseteq Nat /\ IsFiniteSet(DOMAIN subs)
    BY RowNumbers
  <2>2. S \in SUBSET DOMAIN subs
    OBVIOUS
  <2> HIDE DEF S
  <2> QED
    BY <2>1, <2>2, FS_Subset
<1>3. Lists(left, ById, S)
  BY <1>2, SortedById
<1> HIDE DEF left
<1>4. PICK n \in Nat : n = Cardinality(S)
  BY <1>2, FS_CardinalityType
<1>5. DOMAIN left = 1..n /\ \A k \in 1..n : left[k] \in S
  BY <1>3, <1>4 DEF Lists
<1>6. subs' = [k \in 1..n |-> subs[left[k]]]
  BY <1>1, <1>5
<1>7. Len(subs') = n /\ subs' = [k \in 1..n |-> subs'[k]]
  BY <1>6
<1>8. ASSUME NEW k \in 1..n
      PROVE  RowOK(subs[k])'
  <2>1. subs'[k] = subs[left[k]] /\ left[k] \in DOMAIN subs /\ subs'[k].problem # p
    BY <1>5, <1>6
  <2>2. RowOK(subs'[k])
    BY <2>1 DEF TableInv
  <2>3. Drawn' = Drawn /\ DOMAIN listedContests' = DOMAIN listedContests
    BY <1>1 DEF Drawn
  <2> QED
    BY <1>1, <2>1, <2>2, <2>3 DEF RowOK
<1>9. Drawn' = Drawn /\ DOMAIN listedContests' = DOMAIN listedContests
  BY <1>1 DEF Drawn
<1>10. \A u \in Members : (asking[u] # Statistic!NoRequest => RequestOK(asking[u]))'
  BY <1>1, <1>9 DEF TableInv, RequestOK, Statistic!NoRequest
<1>11. ASSUME NEW c \in DOMAIN listedContests
       PROVE  ContestOK(listedContests[c])'
  <2>1. PICK contest : contest = listedContests[c]
    OBVIOUS
  <2>2. contest \in Statistic!Contest /\ contest.problems \subseteq listedProblems
    BY <2>1 DEF TableInv, ContestOK
  <2>3. listedContests'[c] = [contest EXCEPT !.problems = @ \ {p}]
    BY <1>1, <2>1
  <2>4. PICK other : other = listedContests'[c]
    OBVIOUS
  <2>5. other \in Statistic!Contest /\ other.problems \subseteq listedProblems \ {p}
    BY <2>2, <2>3, <2>4 DEF Statistic!Contest
  <2> QED
    BY <1>1, <2>4, <2>5 DEF ContestOK, Statistic!Contest
<1> QED
  BY <1>1, <1>7, <1>8, <1>9, <1>10, <1>11 DEF TableInv

\* An administrator's request about contests draws an id at most.
LEMMA MoreDrawn ==
    ASSUME TableInv, changes < MaxChanges, changes' = changes + 1
    PROVE  changes' \in 0..MaxChanges /\ Drawn \subseteq Drawn'
           /\ Statistic!NextContest \in Drawn' /\ Statistic!NextContest \notin Drawn
<1>1. changes \in 0..MaxChanges /\ MaxChanges \in Nat /\ Len(FirstContests) \in Nat
  BY Figures DEF TableInv
<1>2. PICK n \in Nat : n = Len(FirstContests) + changes
  BY <1>1
<1>3. /\ Len(FirstContests) + changes' = n + 1 /\ Statistic!NextContest = n + 1
      /\ Drawn = 1..n /\ Drawn' = 1..(n + 1)
  BY <1>1, <1>2 DEF Drawn, Statistic!NextContest
<1> QED
  BY <1>1, <1>2, <1>3

\* PUT and POST /contests.
LEMMA PutKept ==
    ASSUME TableInv, NEW c \in DOMAIN listedContests \cup {Statistic!NextContest}, NEW form \in ContestForms,
           Statistic!PutContest(c, form)
    PROVE  TableInv'
<1>1. /\ changes < MaxChanges /\ changes' = changes + 1 /\ form.problems \subseteq listedProblems
      /\ listedContests' = [d \in DOMAIN listedContests \cup {c} |-> IF d = c THEN form ELSE listedContests[d]]
      /\ UNCHANGED <<now, listedProblems, asking, subs>>
  BY DEF Statistic!PutContest
<1>2. /\ changes' \in 0..MaxChanges /\ Drawn \subseteq Drawn'
      /\ Statistic!NextContest \in Drawn' /\ Statistic!NextContest \notin Drawn
  BY <1>1, MoreDrawn
<1>3. DOMAIN listedContests' \subseteq Drawn' /\ DOMAIN listedContests' \cap Drawn = DOMAIN listedContests
  <2>1. DOMAIN listedContests \subseteq Drawn /\ DOMAIN listedContests' = DOMAIN listedContests \cup {c}
    BY <1>1 DEF TableInv
  <2> QED
    BY <1>2, <2>1
<1>4. \A d \in DOMAIN listedContests' : ContestOK(listedContests'[d])
  <2>1. form \in Statistic!Contest
    BY Figures
  <2>2. ContestOK(form)
    BY <1>1, <2>1 DEF ContestOK
  <2> QED
    BY <1>1, <2>2 DEF TableInv
<1>5. \A d \in DOMAIN listedContests' : ContestOK(listedContests[d])'
  BY <1>1, <1>4 DEF ContestOK, Statistic!Contest
<1>6. \A u \in Members : (asking[u] # Statistic!NoRequest => RequestOK(asking[u]))'
  BY <1>1, <1>2 DEF TableInv, RequestOK, Statistic!NoRequest
<1>7. ASSUME NEW i \in DOMAIN subs'
      PROVE  RowOK(subs[i])'
  <2>1. RowOK(subs[i]) /\ subs'[i] = subs[i]
    BY <1>1 DEF TableInv
  <2>2. PICK row : row = subs[i]
    OBVIOUS
  <2>3. FirstOf(row.seen) \in Drawn \cup {0}
    <3>1. row.seen \subseteq Drawn
      BY <2>1, <2>2 DEF RowOK
    <3>2. FirstOf(row.seen) \in row.seen \cup {0}
      BY <3>1, DrawnIds, FirstIn
    <3> QED
      BY <3>1, <3>2
  <2>4. 0 \notin Drawn /\ 0 \notin Drawn'
    <3>1. Len(FirstContests) \in Nat /\ changes \in Nat /\ changes' \in Nat
      BY <1>1, DrawnIds, Figures
    <3> QED
      BY <3>1 DEF Drawn
  <2>5. FirstOf(row.seen) \in DOMAIN listedContests' <=> FirstOf(row.seen) \in DOMAIN listedContests
    BY <1>3, <2>3, <2>4 DEF TableInv
  <2>6. RowOK(row)
    BY <2>1, <2>2
  <2>7. row.seen \subseteq Drawn'
    BY <1>2, <2>6 DEF RowOK
  <2>8. RowOK(row)'
    BY <1>1, <2>5, <2>6, <2>7 DEF RowOK
  <2> QED
    BY <2>1, <2>2, <2>8 DEF RowOK
<1> QED
  BY <1>1, <1>2, <1>3, <1>5, <1>6, <1>7 DEF TableInv

\* DELETE /contests/:id.
LEMMA ContestDeleted ==
    ASSUME TableInv, NEW c \in DOMAIN listedContests, Statistic!DeleteContest(c)
    PROVE  TableInv'
<1>1. /\ changes < MaxChanges /\ changes' = changes + 1
      /\ listedContests' = [d \in DOMAIN listedContests \ {c} |-> listedContests[d]]
      /\ subs' = [i \in DOMAIN subs |-> [subs[i] EXCEPT !.contest = IF @ = c THEN 0 ELSE @]]
      /\ UNCHANGED <<now, listedProblems, asking>>
  BY DEF Statistic!DeleteContest, Statistic!NoContest
<1>2. changes' \in 0..MaxChanges /\ Drawn \subseteq Drawn'
  BY <1>1, MoreDrawn
<1>3. DOMAIN listedContests' = DOMAIN listedContests \ {c} /\ DOMAIN listedContests' \subseteq Drawn'
  BY <1>1, <1>2 DEF TableInv
<1>4. \A d \in DOMAIN listedContests' : ContestOK(listedContests[d])'
  BY <1>1 DEF TableInv, ContestOK, Statistic!Contest
<1>5. \A u \in Members : (asking[u] # Statistic!NoRequest => RequestOK(asking[u]))'
  BY <1>1, <1>2 DEF TableInv, RequestOK, Statistic!NoRequest
<1>6. PICK n \in Nat : n = Len(subs) /\ subs = [i \in 1..n |-> subs[i]]
  BY DEF TableInv
<1>7. Len(subs') = n /\ subs' = [i \in 1..n |-> subs'[i]]
  BY <1>1, <1>6
<1>8. ASSUME NEW i \in DOMAIN subs'
      PROVE  RowOK(subs[i])'
  <2>1. PICK row, new : row = subs[i] /\ new = subs'[i]
    OBVIOUS
  <2>2. RowOK(row) /\ new = [row EXCEPT !.contest = IF @ = c THEN 0 ELSE @]
    BY <1>1, <2>1 DEF TableInv
  <2>3. row \in Row
    BY <2>2 DEF RowOK
  <2>4. /\ new \in Row /\ new.problem = row.problem /\ new.time = row.time /\ new.status = row.status
        /\ new.runtime = row.runtime /\ new.seen = row.seen
        /\ new.contest = IF row.contest = c THEN 0 ELSE row.contest
    BY <2>2, <2>3 DEF Row
  <2>5. c # 0 /\ 0 \notin DOMAIN listedContests
    BY DrawnIds DEF TableInv
  <2>6. row.contest = IF FirstOf(row.seen) \in DOMAIN listedContests THEN FirstOf(row.seen) ELSE 0
    BY <2>2 DEF RowOK
  <2>7. new.contest = IF FirstOf(new.seen) \in DOMAIN listedContests' THEN FirstOf(new.seen) ELSE 0
    BY <1>3, <2>4, <2>5, <2>6
  <2>8. new.seen \subseteq Drawn' /\ new.problem \in listedProblems /\ new.time <= now
        /\ (new.status = "AC" => new.runtime # 0)
    BY <1>2, <2>2, <2>4 DEF RowOK
  <2> QED
    BY <1>1, <2>1, <2>4, <2>7, <2>8 DEF RowOK
<1> QED
  BY <1>1, <1>2, <1>3, <1>4, <1>5, <1>7, <1>8 DEF TableInv

\* The invariant of the table.
LEMMA TableAlways == PartsSpec => []TableInv
<1>1. Statistic!Init => TableInv
  <2> SUFFICES ASSUME Statistic!Init  PROVE TableInv
    OBVIOUS
  <2>1. /\ now = 0 /\ listedProblems = Tasks /\ subs = <<>> /\ listedContests = FirstContests /\ changes = 0
        /\ asking = [u \in Members |-> Statistic!NoRequest] /\ LastTime \in Nat /\ MaxChanges \in Nat
    BY Figures DEF Statistic!Init
  <2>2. Len(subs) = 0 /\ DOMAIN subs = {} /\ subs = [i \in 1..0 |-> subs[i]]
    BY <2>1
  <2>3. DOMAIN listedContests \subseteq Drawn
    BY <2>1, Figures DEF Drawn
  <2>4. \A c \in DOMAIN listedContests : ContestOK(listedContests[c])
    BY <2>1, Figures DEF ContestOK, Statistic!Contest
  <2>5. \A u \in Members : asking[u] = Statistic!NoRequest
    BY <2>1
  <2> QED
    BY <2>1, <2>2, <2>3, <2>4, <2>5 DEF TableInv
<1>2. TableInv /\ [Statistic!Next]_(Statistic!vars) => TableInv'
  <2> SUFFICES ASSUME TableInv, [Statistic!Next]_(Statistic!vars)  PROVE TableInv'
    OBVIOUS
  <2>0. /\ Len(subs) \in Nat /\ subs = [i \in 1..Len(subs) |-> subs[i]]
        /\ \A i \in DOMAIN subs : RowOK(subs[i])
    BY DEF TableInv
  <2>8. now \in 0..LastTime
    BY DEF TableInv
  <2>1. CASE UNCHANGED Statistic!vars
    <3>1. \A i \in DOMAIN subs' : RowOK(subs[i])'
      BY <2>0, <2>1 DEF Statistic!vars, RowOK, Drawn
    <3>2. UNCHANGED <<listedProblems, listedContests, changes, asking>> /\ now' = now /\ subs' = subs
      BY <2>1 DEF Statistic!vars
    <3>3. Len(subs') \in Nat /\ subs' = [i \in 1..Len(subs') |-> subs'[i]]
      BY <2>0, <3>2
    <3> QED
      BY <2>8, <3>1, <3>2, <3>3, OthersKept
  <2>2. CASE Statistic!Tick
    <3>1. now < LastTime /\ now' = now + 1 /\ UNCHANGED <<listedProblems, listedContests, changes, asking, subs>>
      BY <2>2 DEF Statistic!Tick
    <3>2. now \in Nat /\ now' \in Nat /\ now <= now' /\ now' \in 0..LastTime
      BY <2>8, <3>1, Bounds
    <3>3. ASSUME NEW i \in DOMAIN subs
          PROVE  RowOK(subs[i])'
      <4>1. PICK row : row = subs[i]
        OBVIOUS
      <4>2. RowOK(row)'
        BY <2>0, <3>1, <3>2, <4>1, RowLater
      <4> QED
        BY <3>1, <4>1, <4>2 DEF RowOK
    <3> QED
      BY <2>0, <3>1, <3>2, <3>3, OthersKept
  <2>3. ASSUME NEW u \in Members, Statistic!SubmitInsert(u) \/ \E p \in Tasks : Statistic!SubmitSelect(u, p)
        PROVE  TableInv'
    BY <2>3, InsertKept, SelectKept
  <2>4. ASSUME NEW i \in DOMAIN subs, Statistic!Judge(i) \/ Statistic!Rejudge(i)  PROVE TableInv'
    BY <2>4, RowChanges
  <2>5. ASSUME NEW p \in Tasks, Statistic!DeleteProblem(p)  PROVE TableInv'
    BY <2>5, RowsDeleted
  <2>6. ASSUME NEW c \in DOMAIN listedContests \cup {Statistic!NextContest}, NEW form \in ContestForms,
               Statistic!PutContest(c, form)
        PROVE  TableInv'
    BY <2>6, PutKept
  <2>7. ASSUME NEW c \in DOMAIN listedContests, Statistic!DeleteContest(c)  PROVE TableInv'
    BY <2>7, ContestDeleted
  <2> QED
    BY <2>1, <2>2, <2>3, <2>4, <2>5, <2>6, <2>7 DEF Statistic!Next
<1> QED
  BY <1>1, <1>2, StatisticsRun, PTL

-----------------------------------------------------------------------------
(* Arithmetic of the pages                                                 *)

\* A moment belongs to the day it is in, and to no other (bjDayStartUtc, bjDayEndUtc).
LEMMA DayOfTime ==
    ASSUME NEW t \in Nat, NEW d \in Nat
    PROVE  /\ t \div DayLength \in Nat
           /\ t >= d * DayLength /\ t < d * DayLength + DayLength <=> t \div DayLength = d
<1>1. PICK n \in Nat \ {0} : n = DayLength
  BY Figures
<1>2. PICK q \in Int, r \in Int : q = t \div n /\ r = t % n
  OBVIOUS
<1>3. t = n * q + r /\ 0 <= r /\ r < n
  BY <1>2
<1>4. q >= 0
  <2>1. SUFFICES ASSUME q <= -1  PROVE FALSE
    OBVIOUS
  <2>2. n * q <= n * (-1)
    BY <2>1
  <2> QED
    BY <1>3, <2>2
<1>5. ASSUME q < d  PROVE t < d * n
  <2>1. n * (q + 1) <= n * d
    BY <1>5
  <2>2. n * (q + 1) = n * q + n /\ n * d = d * n
    OBVIOUS
  <2> QED
    BY <1>3, <2>1, <2>2
<1>6. ASSUME d < q  PROVE t >= d * n + n
  <2>1. n * (d + 1) <= n * q
    BY <1>6
  <2>2. n * (d + 1) = d * n + n
    OBVIOUS
  <2> QED
    BY <1>3, <2>1, <2>2
<1>7. ASSUME q = d  PROVE t >= d * n /\ t < d * n + n
  BY <1>3, <1>7
<1> QED
  BY <1>1, <1>2, <1>4, <1>5, <1>6, <1>7

\* The less of two numbers.
LEMMA LessOfTwo ==
    ASSUME NEW a \in Nat, NEW b \in Nat
    PROVE  Statistic!Min({a, b}) = IF a <= b THEN a ELSE b
BY DEF Statistic!Min

\* A percentage lies between 0 and 100.
LEMMA PercentType ==
    ASSUME NEW a \in Nat, NEW b \in Nat, a <= b
    PROVE  Statistic!Percent(a, b) \in 0..100
<1>1. CASE b = 0
  BY <1>1 DEF Statistic!Percent
<1>2. CASE b # 0
  <2>1. PICK n \in Nat, m \in Nat \ {0} : n = 200 * a + b /\ m = 2 * b
    BY <1>2
  <2>2. PICK q \in Int, r \in Int : q = n \div m /\ r = n % m
    OBVIOUS
  <2>3. n = m * q + r /\ 0 <= r /\ r < m
    BY <2>2
  <2>4. q >= 0
    <3>1. SUFFICES ASSUME q <= -1  PROVE FALSE
      OBVIOUS
    <3>2. m * q <= m * (-1)
      BY <3>1
    <3> QED
      BY <2>3, <3>2
  <2>5. q <= 100
    <3>1. SUFFICES ASSUME q >= 101  PROVE FALSE
      OBVIOUS
    <3>2. m * q >= m * 101
      BY <3>1
    <3> QED
      BY <2>1, <2>3, <3>2
  <2> QED
    BY <1>2, <2>1, <2>2, <2>4, <2>5 DEF Statistic!Percent
<1> QED
  BY <1>1, <1>2

-----------------------------------------------------------------------------
(* What the pages select, and the orders they list it in                   *)

\* ByUser, ByProblem and AC select rows of a finite table.
LEMMA Selected ==
    ASSUME TableInv
    PROVE  /\ IsFiniteSet(Statistic!Rows) /\ Statistic!Rows = DOMAIN subs /\ Statistic!Rows \subseteq Nat
           /\ \A u : Statistic!ByUser(u) = {i \in DOMAIN subs : subs[i].user = u}
           /\ \A p : Statistic!ByProblem(p) = {i \in DOMAIN subs : subs[i].problem = p}
           /\ \A R : Statistic!AC(R) = {i \in R : subs[i].status = "AC"}
           /\ \A R : Statistic!UsersOf(R) = {subs[i].user : i \in R}
           /\ \A R : Statistic!ProblemsOf(R) = {subs[i].problem : i \in R}
<1>1. IsFiniteSet(Statistic!Rows) /\ Statistic!Rows = DOMAIN subs /\ Statistic!Rows \subseteq Nat
  BY RowNumbers DEF Statistic!Rows
<1>2. \A u : Statistic!ByUser(u) = {i \in DOMAIN subs : subs[i].user = u}
  BY DEF Statistic!ByUser, Statistic!Where, Statistic!Rows
<1>3. \A p : Statistic!ByProblem(p) = {i \in DOMAIN subs : subs[i].problem = p}
  BY DEF Statistic!ByProblem, Statistic!Where, Statistic!Rows
<1>4. /\ \A R : Statistic!AC(R) = {i \in R : subs[i].status = "AC"}
      /\ \A R : Statistic!UsersOf(R) = {subs[i].user : i \in R}
      /\ \A R : Statistic!ProblemsOf(R) = {subs[i].problem : i \in R}
  BY DEF Statistic!AC, Statistic!UsersOf, Statistic!ProblemsOf
<1> QED
  BY <1>1, <1>2, <1>3, <1>4

\* A part of a finite set is finite and has no more elements.
LEMMA PartCount ==
    ASSUME NEW S, IsFiniteSet(S), NEW T, T \subseteq S
    PROVE  /\ IsFiniteSet(T) /\ Cardinality(T) \in Nat /\ Cardinality(S) \in Nat /\ Cardinality(T) <= Cardinality(S)
           /\ (Cardinality(T) = 0 <=> T = {})
<1>1. IsFiniteSet(T) /\ Cardinality(T) <= Cardinality(S)
  BY FS_Subset
<1> QED
  BY <1>1, FS_CardinalityType, FS_EmptySet

\* ORDER BY runtime_ms, the two ways of breaking a tie.
ByRuntime ==
    {z \in Nat \X Nat : \/ subs[z[1]].runtime < subs[z[2]].runtime
                        \/ subs[z[1]].runtime = subs[z[2]].runtime /\ z[1] < z[2]}
ByRuntimeOrLater ==
    {z \in Nat \X Nat : \/ subs[z[1]].runtime < subs[z[2]].runtime
                        \/ subs[z[1]].runtime = subs[z[2]].runtime /\ z[1] > z[2]}
LEMMA SortedByRuntime ==
    ASSUME NEW S, S \subseteq Nat, IsFiniteSet(S), \A i \in S : subs[i].runtime \in Nat
    PROVE  Lists(Statistic!Sorted(S, Statistic!Faster), ByRuntime, S)
<1>1. Orders(ByRuntime, S)
  <2>1. ASSUME NEW x \in S, NEW y \in S
        PROVE  <<x, y>> \in ByRuntime <=>
                  \/ subs[x].runtime < subs[y].runtime
                  \/ subs[x].runtime = subs[y].runtime /\ x < y
    BY DEF ByRuntime
  <2>2. ASSUME NEW x \in S, NEW y \in S, NEW z \in S, <<x, y>> \in ByRuntime, <<y, z>> \in ByRuntime
        PROVE  <<x, z>> \in ByRuntime
    <3>1. PICK a \in Nat, b \in Nat, c \in Nat :
            a = subs[x].runtime /\ b = subs[y].runtime /\ c = subs[z].runtime
      OBVIOUS
    <3>2. (a < b \/ (a = b /\ x < y)) /\ (b < c \/ (b = c /\ y < z))
      BY <2>1, <2>2, <3>1
    <3>3. (a < c \/ (a = c /\ x < z)) /\ x \in Nat /\ y \in Nat /\ z \in Nat
      BY <3>2
    <3> QED
      BY <2>1, <3>1, <3>3
  <2>3. ASSUME NEW x \in S  PROVE <<x, x>> \notin ByRuntime
    <3>1. PICK a \in Nat : a = subs[x].runtime
      OBVIOUS
    <3>2. ~(a < a) /\ ~(x < x) /\ ~(x > x)
      OBVIOUS
    <3> QED
      BY <2>1, <3>1, <3>2
  <2>4. \A x, y \in S : x # y => <<x, y>> \in ByRuntime \/ <<y, x>> \in ByRuntime
    BY <2>1
  <2> QED
    BY <2>2, <2>3, <2>4 DEF Orders
<1>2. \A x \in S : {y \in S : Statistic!Faster(y, x)} = Before(x, ByRuntime, S)
  BY DEF Statistic!Faster, Before, ByRuntime
<1>3. \A x \in S : Statistic!Cardinality({y \in S : Statistic!Faster(y, x)}) = Cardinality(Before(x, ByRuntime, S))
  BY <1>2, SameCount
<1>4. PICK q : q = Statistic!Sorted(S, Statistic!Faster)
  OBVIOUS
<1> DEFINE At(k) == CHOOSE x \in S : Statistic!Cardinality({y \in S : Statistic!Faster(y, x)}) = k - 1
<1>5. q = [k \in 1..Cardinality(S) |-> At(k)]
  BY <1>4, SameCount DEF Statistic!Sorted
<1>6. ASSUME NEW k \in 1..Cardinality(S), NEW x \in S, Cardinality(Before(x, ByRuntime, S)) = k - 1
      PROVE  q[k] \in S /\ Cardinality(Before(q[k], ByRuntime, S)) = k - 1
  BY <1>3, <1>5, <1>6
<1> HIDE DEF At
<1>7. q = [k \in 1..Cardinality(S) |-> q[k]]
  BY <1>5
<1> QED
  BY <1>1, <1>4, <1>6, <1>7, PlacesList
LEMMA SortedByRuntimeOrLater ==
    ASSUME NEW S, S \subseteq Nat, IsFiniteSet(S), \A i \in S : subs[i].runtime \in Nat
    PROVE  Lists(Statistic!Sorted(S, Statistic!FasterOrLater), ByRuntimeOrLater, S)
<1>1. Orders(ByRuntimeOrLater, S)
  <2>1. ASSUME NEW x \in S, NEW y \in S
        PROVE  <<x, y>> \in ByRuntimeOrLater <=>
                  \/ subs[x].runtime < subs[y].runtime
                  \/ subs[x].runtime = subs[y].runtime /\ x > y
    BY DEF ByRuntimeOrLater
  <2>2. ASSUME NEW x \in S, NEW y \in S, NEW z \in S, <<x, y>> \in ByRuntimeOrLater, <<y, z>> \in ByRuntimeOrLater
        PROVE  <<x, z>> \in ByRuntimeOrLater
    <3>1. PICK a \in Nat, b \in Nat, c \in Nat :
            a = subs[x].runtime /\ b = subs[y].runtime /\ c = subs[z].runtime
      OBVIOUS
    <3>2. (a < b \/ (a = b /\ x > y)) /\ (b < c \/ (b = c /\ y > z))
      BY <2>1, <2>2, <3>1
    <3>3. (a < c \/ (a = c /\ x > z)) /\ x \in Nat /\ y \in Nat /\ z \in Nat
      BY <3>2
    <3> QED
      BY <2>1, <3>1, <3>3
  <2>3. ASSUME NEW x \in S  PROVE <<x, x>> \notin ByRuntimeOrLater
    <3>1. PICK a \in Nat : a = subs[x].runtime
      OBVIOUS
    <3>2. ~(a < a) /\ ~(x < x) /\ ~(x > x)
      OBVIOUS
    <3> QED
      BY <2>1, <3>1, <3>2
  <2>4. \A x, y \in S : x # y => <<x, y>> \in ByRuntimeOrLater \/ <<y, x>> \in ByRuntimeOrLater
    BY <2>1
  <2> QED
    BY <2>2, <2>3, <2>4 DEF Orders
<1>2. \A x \in S : {y \in S : Statistic!FasterOrLater(y, x)} = Before(x, ByRuntimeOrLater, S)
  BY DEF Statistic!FasterOrLater, Before, ByRuntimeOrLater
<1>3. \A x \in S : Statistic!Cardinality({y \in S : Statistic!FasterOrLater(y, x)})
                      = Cardinality(Before(x, ByRuntimeOrLater, S))
  BY <1>2, SameCount
<1>4. PICK q : q = Statistic!Sorted(S, Statistic!FasterOrLater)
  OBVIOUS
<1> DEFINE At(k) == CHOOSE x \in S : Statistic!Cardinality({y \in S : Statistic!FasterOrLater(y, x)}) = k - 1
<1>5. q = [k \in 1..Cardinality(S) |-> At(k)]
  BY <1>4, SameCount DEF Statistic!Sorted
<1>6. ASSUME NEW k \in 1..Cardinality(S), NEW x \in S, Cardinality(Before(x, ByRuntimeOrLater, S)) = k - 1
      PROVE  q[k] \in S /\ Cardinality(Before(q[k], ByRuntimeOrLater, S)) = k - 1
  BY <1>3, <1>5, <1>6
<1> HIDE DEF At
<1>7. q = [k \in 1..Cardinality(S) |-> q[k]]
  BY <1>5
<1> QED
  BY <1>1, <1>4, <1>6, <1>7, PlacesList

\* A list is a sequence; the first is before all others.
LEMMA ListIsSeq ==
    ASSUME NEW S, IsFiniteSet(S), NEW L, NEW q, Lists(q, L, S)
    PROVE  q \in Seq(S) /\ Len(q) = Cardinality(S) /\ DOMAIN q = 1..Cardinality(S)
<1>1. PICK n \in Nat : n = Cardinality(S)
  BY PartCount
<1>2. q = [k \in 1..n |-> q[k]] /\ \A k \in 1..n : q[k] \in S
  BY <1>1 DEF Lists
<1> QED
  BY <1>1, <1>2
LEMMA FirstOfList ==
    ASSUME NEW S, IsFiniteSet(S), S # {}, NEW L, NEW q, Lists(q, L, S)
    PROVE  Head(q) \in S /\ \A x \in S : x = Head(q) \/ <<Head(q), x>> \in L
<1>1. PICK n \in Nat \ {0} : n = Cardinality(S)
  BY PartCount
<1>2. /\ \A k \in 1..n : q[k] \in S
      /\ \A x \in S : \E k \in 1..n : q[k] = x
      /\ \A j, k \in 1..n : j < k => <<q[j], q[k]>> \in L
  BY <1>1 DEF Lists
<1>3. Head(q) = q[1]
  BY <1>1, ListIsSeq
<1>4. PICK x : x = q[1]
  OBVIOUS
<1>5. ASSUME NEW y \in S, y # x  PROVE <<x, y>> \in L
  <2>1. PICK k \in 1..n : q[k] = y
    BY <1>2
  <2>2. 1 < k /\ 1 \in 1..n
    BY <1>4, <1>5, <2>1
  <2> QED
    BY <1>2, <1>4, <2>1, <2>2
<1>6. x \in S
  BY <1>2, <1>4
<1> QED
  BY <1>3, <1>4, <1>5, <1>6

\* The first of either order has the least runtime.
LEMMA SameFastest ==
    ASSUME NEW S, S \subseteq Nat, IsFiniteSet(S), \A i \in S : subs[i].runtime \in Nat, S # {},
           NEW q, Lists(q, ByRuntime, S), NEW r, Lists(r, ByRuntimeOrLater, S)
    PROVE  Head(q) \in S /\ Head(r) \in S /\ subs[Head(q)].runtime = subs[Head(r)].runtime
<1>1. PICK i, j : i = Head(q) /\ j = Head(r)
  OBVIOUS
<1>2. i \in S /\ (j = i \/ <<i, j>> \in ByRuntime)
  BY <1>1, FirstOfList
<1>3. j \in S /\ (i = j \/ <<j, i>> \in ByRuntimeOrLater)
  BY <1>1, FirstOfList
<1>4. subs[i].runtime = subs[j].runtime
  BY <1>2, <1>3 DEF ByRuntime, ByRuntimeOrLater
<1> QED
  BY <1>1, <1>2, <1>3, <1>4

\* LIMIT n shows n of the elements, or all.
LEMMA LimitLength ==
    ASSUME NEW S, IsFiniteSet(S), NEW L, NEW q, Lists(q, L, S), NEW n \in Nat
    PROVE  DOMAIN Statistic!Limit(q, n) = 1..Statistic!Min({Cardinality(S), n})
<1>1. PICK m \in Nat : m = Cardinality(S)
  BY PartCount
<1>2. q = [k \in 1..m |-> q[k]] /\ \A k \in 1..m : q[k] \in S
  BY <1>1 DEF Lists
<1>3. q \in Seq(S) /\ Len(q) = m
  BY <1>2
<1>4. PICK l \in Nat : l = (IF m < n THEN m ELSE n) /\ l <= m
  OBVIOUS
<1>5. Statistic!Min({m, n}) = l
  BY <1>4, LessOfTwo
<1>6. DOMAIN SubSeq(q, 1, l) = 1..l
  BY <1>3, <1>4
<1>7. Statistic!Limit(q, n) = SubSeq(q, 1, l)
  BY <1>3, <1>4 DEF Statistic!Limit
<1> QED
  BY <1>1, <1>5, <1>6, <1>7

-----------------------------------------------------------------------------
(* The daily problem                                                       *)

\* The submissions of problem p on day d, the accepted ones of R, each user's first of R.
Window(d, p) == {i \in DOMAIN subs : subs[i].problem = p /\ Statistic!Within(subs[i], d)}
Accepted(R) == {i \in R : subs[i].status = "AC"}
Firsts(R) == {i \in R : \A j \in R : subs[j].user = subs[i].user => i <= j}

\* Every user with a submission in R has one first one.
LEMMA FirstPerUser ==
    ASSUME NEW R, R \subseteq Nat, IsFiniteSet(R)
    PROVE  /\ IsFiniteSet(Firsts(R)) /\ Firsts(R) \subseteq R
           /\ Cardinality(Firsts(R)) = Cardinality({subs[i].user : i \in R})
           /\ (Firsts(R) = {} <=> R = {})
<1> DEFINE who == [i \in Firsts(R) |-> subs[i].user]
           U == {subs[i].user : i \in R}
<1>1. Firsts(R) \subseteq R /\ IsFiniteSet(Firsts(R))
  <2>1. Firsts(R) \in SUBSET R
    BY DEF Firsts
  <2> QED
    BY <2>1, FS_Subset
<1>2. \A i \in R : \E f \in Firsts(R) : subs[f].user = subs[i].user
  <2> TAKE i \in R
  <2> DEFINE N == {j \in R : subs[j].user = subs[i].user}
  <2>1. PICK f \in N : \A j \in N : f <= j
    <3>1. N \subseteq Nat /\ i \in N
      OBVIOUS
    <3> HIDE DEF N
    <3> QED
      BY <3>1, LeastNumber
  <2> QED
    BY <2>1 DEF Firsts
<1>3. who \in [Firsts(R) -> U] /\ \A u \in U : \E f \in Firsts(R) : who[f] = u
  BY <1>1, <1>2
<1>4. \A e, f \in Firsts(R) : who[e] = who[f] => e = f
  <2> SUFFICES ASSUME NEW e \in Firsts(R), NEW f \in Firsts(R), who[e] = who[f]  PROVE e = f
    OBVIOUS
  <2>1. e \in Nat /\ f \in Nat /\ e <= f /\ f <= e
    BY DEF Firsts
  <2> QED
    BY <2>1
<1> HIDE DEF who, U
<1>5. who \in Surjection(Firsts(R), U) /\ who \in Injection(Firsts(R), U)
  BY <1>3, <1>4 DEF Surjection, Injection, IsInjective
<1>6. Cardinality(Firsts(R)) = Cardinality(U)
  <2>1. who \in Bijection(Firsts(R), U)
    BY <1>5 DEF Bijection
  <2> QED
    BY <1>1, <2>1, FS_Bijection DEF ExistsBijection
<1>7. Firsts(R) = {} <=> R = {}
  BY <1>1, <1>2
<1> QED
  BY <1>1, <1>6, <1>7 DEF U

\* A day that has begun, and a problem: page and history agree.
LEMMA DayAgrees ==
    ASSUME TableInv, NEW d, NEW p
    PROVE  LET result == Statistic!ComputeDailyResult(d, p)
               item == Statistic!HistoryItem(d, p)
           IN  /\ result.submissions = item.submissions /\ result.ac_users = item.ac_users
               /\ result.pass_rate = item.pass_rate /\ result.pass_rate \in 0..100
               /\ result.fastest.runtime = item.fastest.runtime
               /\ (result.fastest.user = NoOne) = (result.leaderboard = <<>>)
               /\ Len(result.leaderboard) = Statistic!Min({result.ac_users, DailyTop})
<1>1. PICK W, A : W = Window(d, p) /\ A = Accepted(W)
  OBVIOUS
<1>2. PICK result, item : result = Statistic!ComputeDailyResult(d, p) /\ item = Statistic!HistoryItem(d, p)
  OBVIOUS
<1>3. PICK shown : shown = Statistic!Limit(Statistic!Sorted(Firsts(A), Statistic!Earlier), DailyTop)
  OBVIOUS
<1>4. /\ result.submissions = Cardinality(W) /\ item.submissions = Cardinality(W)
      /\ result.ac_users = Cardinality({subs[i].user : i \in A})
      /\ item.ac_users = Cardinality({u \in Members : \E i \in A : subs[i].user = u})
      /\ result.pass_rate = Statistic!Percent(Cardinality(A), Cardinality(W))
      /\ item.pass_rate = result.pass_rate
      /\ result.fastest = Statistic!Fastest({i \in A : subs[i].runtime # 0}, Statistic!Faster)
      /\ item.fastest = Statistic!Fastest({i \in A : subs[i].runtime # 0}, Statistic!FasterOrLater)
      /\ result.leaderboard = [k \in DOMAIN shown |-> subs[shown[k]].user]
  <2>1. W = {i \in Statistic!ByProblem(p) : Statistic!Within(subs[i], d)}
    BY <1>1, Selected DEF Window
  <2>2. W = {i \in Statistic!Rows : subs[i].problem = p /\ Statistic!Within(subs[i], d)}
    BY <1>1, Selected DEF Window
  <2>3. A = Statistic!AC(W)
    BY <1>1, Selected DEF Accepted
  <2>4. Firsts(A) = {i \in Statistic!AC(W) : \A j \in Statistic!AC(W) : subs[j].user = subs[i].user => i <= j}
    BY <2>3 DEF Firsts
  <2>5. /\ result.submissions = Cardinality(W)
        /\ result.ac_users = Cardinality({subs[i].user : i \in A})
        /\ result.pass_rate = Statistic!Percent(Cardinality(A), Cardinality(W))
        /\ result.fastest = Statistic!Fastest({i \in A : subs[i].runtime # 0}, Statistic!Faster)
    BY <1>2, <2>1, <2>3, Selected, SameCount DEF Statistic!ComputeDailyResult
  <2>6. /\ item.submissions = Cardinality(W)
        /\ item.ac_users = Cardinality({u \in Members : \E i \in A : subs[i].user = u})
        /\ item.pass_rate = Statistic!Percent(Cardinality(A), Cardinality(W))
        /\ item.fastest = Statistic!Fastest({i \in A : subs[i].runtime # 0}, Statistic!FasterOrLater)
    BY <1>2, <2>2, <2>3, SameCount DEF Statistic!HistoryItem, Statistic!ComputeHistorySummary
  <2>7. result.leaderboard = [k \in DOMAIN shown |-> subs[shown[k]].user]
    BY <1>2, <1>3, <2>1, <2>4 DEF Statistic!ComputeDailyResult
  <2> QED
    BY <2>5, <2>6, <2>7
<1>5. W \subseteq DOMAIN subs /\ A \subseteq W
  BY <1>1 DEF Window, Accepted
<1>6. /\ IsFiniteSet(A) /\ Cardinality(A) \in Nat /\ Cardinality(W) \in Nat /\ Cardinality(A) <= Cardinality(W)
  <2>1. IsFiniteSet(W)
    BY <1>5, RowNumbers, PartCount
  <2> QED
    BY <1>5, <2>1, PartCount
<1>7. A \subseteq Nat
  BY <1>5, RowNumbers
<1>8. \A i \in A : subs[i].user \in Members /\ subs[i].runtime \in Nat \ {0}
  <2> TAKE i \in A
  <2>1. RowOK(subs[i]) /\ subs[i].status = "AC"
    BY <1>1, <1>5 DEF TableInv, Accepted
  <2>2. subs[i].user \in Members /\ subs[i].runtime \in Runtimes
    BY <2>1 DEF RowOK, Row
  <2> QED
    BY <2>2, Figures
<1>9. result.ac_users = item.ac_users
  <2>1. {subs[i].user : i \in A} = {u \in Members : \E i \in A : subs[i].user = u}
    BY <1>8
  <2> QED
    BY <1>4, <2>1
<1>10. result.pass_rate \in 0..100
  BY <1>4, <1>6, PercentType
<1>11. {i \in A : subs[i].runtime # 0} = A
  BY <1>8
<1>12. PICK q, r : q = Statistic!Sorted(A, Statistic!Faster) /\ r = Statistic!Sorted(A, Statistic!FasterOrLater)
  OBVIOUS
<1>13. /\ result.fastest = IF A = {} THEN [user |-> NoOne, runtime |-> 0]
                           ELSE [user |-> subs[Head(q)].user, runtime |-> subs[Head(q)].runtime]
       /\ item.fastest = IF A = {} THEN [user |-> NoOne, runtime |-> 0]
                         ELSE [user |-> subs[Head(r)].user, runtime |-> subs[Head(r)].runtime]
  BY <1>4, <1>11, <1>12 DEF Statistic!Fastest
<1>14. A # {} => Head(q) \in A /\ subs[Head(q)].runtime = subs[Head(r)].runtime
  BY <1>6, <1>7, <1>8, <1>12, SortedByRuntime, SortedByRuntimeOrLater, SameFastest
<1>15. result.fastest.runtime = item.fastest.runtime /\ (result.fastest.user = NoOne <=> A = {})
  BY <1>8, <1>13, <1>14, Figures
<1>16. PICK F : F = Firsts(A)
  OBVIOUS
<1>17. IsFiniteSet(F) /\ F \subseteq A /\ Cardinality(F) = result.ac_users /\ (F = {} <=> A = {})
  BY <1>4, <1>6, <1>7, <1>16, FirstPerUser
<1>18. DOMAIN shown = 1..Statistic!Min({Cardinality(F), DailyTop})
  <2>1. Lists(Statistic!Sorted(F, Statistic!Earlier), ById, F)
    BY <1>7, <1>17, SortedById
  <2>2. DailyTop \in Nat
    BY Figures
  <2> QED
    BY <1>3, <1>16, <1>17, <2>1, <2>2, LimitLength
<1>19. PICK m \in Nat : m = Statistic!Min({result.ac_users, DailyTop}) /\ (m = 0 <=> F = {})
  <2>1. Cardinality(F) \in Nat /\ DailyTop \in Nat \ {0} /\ (Cardinality(F) = 0 <=> F = {})
    BY <1>17, PartCount, Figures
  <2>2. Statistic!Min({Cardinality(F), DailyTop}) = IF Cardinality(F) <= DailyTop THEN Cardinality(F) ELSE DailyTop
    BY <2>1, LessOfTwo
  <2> QED
    BY <1>17, <2>1, <2>2
<1>20. DOMAIN result.leaderboard = 1..m /\ result.leaderboard = [k \in 1..m |-> subs[shown[k]].user]
  BY <1>4, <1>17, <1>18, <1>19
<1>21. Len(result.leaderboard) = m
  BY <1>20
<1>22. result.leaderboard = <<>> <=> m = 0
  BY <1>20, <1>21
<1> QED
  BY <1>2, <1>4, <1>9, <1>10, <1>15, <1>17, <1>19, <1>21, <1>22

\* DailyAgrees, its second part: the days together have every submission of the problem.
LEMMA DaysTogether ==
    ASSUME TableInv, NEW p
    PROVE  Statistic!Total([d \in Statistic!Days |-> Statistic!ComputeDailyResult(d, p).submissions])
              = Statistic!ProblemDetail(p).submission_count
<1>1. PICK f : f = [d \in Statistic!Days |-> Statistic!ComputeDailyResult(d, p).submissions]
  OBVIOUS
<1>2. PICK R : R = {i \in DOMAIN subs : subs[i].problem = p}
  OBVIOUS
<1>3. PICK k : k = [i \in R |-> subs[i].time \div DayLength]
  OBVIOUS
<1>4. IsFiniteSet(R)
  <2>1. R \subseteq DOMAIN subs
    BY <1>2
  <2> QED
    BY <2>1, RowNumbers, PartCount
<1>5. now \in Nat /\ DayLength \in Nat \ {0} /\ now \div DayLength \in Nat
  <2>1. now \in Nat
    BY Figures DEF TableInv
  <2> QED
    BY <2>1, Figures, DayOfTime
<1>6. DOMAIN f = 0..(now \div DayLength) /\ IsFiniteSet(DOMAIN f)
  <2>1. DOMAIN f = 0..(now \div DayLength)
    BY <1>1 DEF Statistic!Days, Statistic!Today
  <2> QED
    BY <1>5, <2>1, FS_Interval
<1>7. \A i \in R : subs[i].time \in Nat /\ subs[i].time <= now
  <2> TAKE i \in R
  <2>1. RowOK(subs[i])
    BY <1>2 DEF TableInv
  <2> QED
    BY <2>1, Figures DEF RowOK, Row
<1>8. \A i \in R : k[i] \in DOMAIN f
  <2> TAKE i \in R
  <2>1. PICK t \in Nat : t = subs[i].time /\ t <= now
    BY <1>7
  <2>2. PICK a \in Nat, b \in Nat : a = t \div DayLength /\ b = now \div DayLength
    BY <1>5, DayOfTime
  <2>3. t >= a * DayLength /\ now < b * DayLength + DayLength
    BY <1>5, <2>2, DayOfTime
  <2>4. ASSUME a > b  PROVE FALSE
    <3>1. PICK n \in Nat : n = DayLength
      BY <1>5
    <3>2. (b + 1) * n <= a * n /\ (b + 1) * n = b * n + n
      BY <2>4
    <3>3. a * n \in Nat /\ b * n \in Nat
      OBVIOUS
    <3> QED
      BY <1>5, <2>1, <2>3, <3>1, <3>2, <3>3
  <2> QED
    BY <1>3, <1>6, <2>1, <2>2, <2>4
<1>9. ASSUME NEW d \in DOMAIN f
      PROVE  f[d] = Cardinality({i \in R : k[i] = d})
  <2>1. PICK W : W = {i \in Statistic!ByProblem(p) : Statistic!Within(subs[i], d)}
    OBVIOUS
  <2>2. f[d] = Cardinality(W)
    BY <1>1, <1>9, <2>1, SameCount DEF Statistic!ComputeDailyResult
  <2>3. d \in Nat
    BY <1>5, <1>6
  <2>4. \A i \in R : Statistic!Within(subs[i], d) <=> k[i] = d
    BY <1>3, <1>7, <2>3, DayOfTime DEF Statistic!Within, Statistic!DayStart
  <2>5. W = {i \in R : k[i] = d}
    BY <1>2, <2>1, <2>4, Selected
  <2> QED
    BY <2>2, <2>5
<1>10. Statistic!Total(f) = Cardinality(R)
  BY <1>4, <1>6, <1>8, <1>9, TotalCounts
<1>11. Statistic!ProblemDetail(p).submission_count = Cardinality(R)
  BY <1>2, Selected, SameCount DEF Statistic!ProblemDetail
<1> QED
  BY <1>1, <1>10, <1>11

\* DailyAgrees.
LEMMA DailyFigures == TableInv => Statistic!DailyAgrees
BY DayAgrees, DaysTogether DEF Statistic!DailyAgrees

-----------------------------------------------------------------------------
(* A user's figures                                                        *)

\* Grouping finitely many rows gives finitely many groups, which add up.
LEMMA GroupsAddUp ==
    ASSUME NEW R, IsFiniteSet(R), NEW k, NEW f, DOMAIN f = {k[i] : i \in R},
           \A d \in DOMAIN f : f[d] = Cardinality({i \in R : k[i] = d})
    PROVE  IsFiniteSet(DOMAIN f) /\ Statistic!Total(f) = Cardinality(R)
<1>1. IsFiniteSet(DOMAIN f)
  <2> DEFINE g == [i \in R |-> k[i]]
  <2>1. g \in Surjection(R, DOMAIN f)
    BY DEF Surjection
  <2> HIDE DEF g
  <2> QED
    BY <2>1, FS_Surjection
<1>2. \A i \in R : k[i] \in DOMAIN f
  OBVIOUS
<1> QED
  BY <1>1, <1>2, TotalCounts

\* The pages of one user.
LEMMA OneAgrees ==
    ASSUME TableInv, NEW u \in Members
    PROVE  LET mine == Statistic!MyStats(u)
               badges == Statistic!MyBadges(u)
               shown == Statistic!BadgesOf(u)
               public == Statistic!ProfileStats(u)
           IN  /\ mine.solved = Statistic!Cardinality(Statistic!MySolved(u)) /\ public.solved = Statistic!MySolved(u)
               /\ badges.solved = mine.solved /\ public.solved_count = mine.solved
               /\ badges.submissions = mine.total /\ public.submissions = mine.total
               /\ Statistic!Total(public.activity) = mine.accepted
               /\ badges.first_blood = (mine.solved > 0)
               /\ shown.first_blood = (public.ac_count > 0) /\ shown.solved_at = badges.solved_at
               /\ shown.sub_at = badges.sub_at /\ shown.all_rounder = badges.all_rounder
               /\ shown.solved = public.solved_count /\ shown.submissions = public.submissions
               /\ Statistic!AdminUser(u).ac_count = mine.accepted /\ public.ac_count = mine.accepted
               /\ Statistic!DecorateItem(u, Members).submission_count = Statistic!AdminUser(u).submission_count
               /\ Statistic!DecorateItem(u, Members).pass_rate = Statistic!Percent(mine.accepted, mine.total)
<1>1. PICK S, A, P : S = Statistic!ByUser(u) /\ A = Statistic!AC(S) /\ P = Statistic!ProblemsOf(A)
  OBVIOUS
<1>2. /\ S = {i \in DOMAIN subs : subs[i].user = u} /\ A = {i \in S : subs[i].status = "AC"}
      /\ P = {subs[i].problem : i \in A}
  BY <1>1, Selected
<1>3. /\ IsFiniteSet(S) /\ IsFiniteSet(A) /\ Cardinality(S) \in Nat /\ Cardinality(A) \in Nat
      /\ (Cardinality(S) = 0 <=> S = {}) /\ (Cardinality(A) = 0 <=> A = {})
  <2>1. S \subseteq DOMAIN subs /\ A \subseteq DOMAIN subs
    BY <1>2
  <2> QED
    BY <2>1, RowNumbers, PartCount
<1>4. IsFiniteSet(P) /\ Cardinality(P) \in Nat /\ (Cardinality(P) = 0 <=> A = {})
  <2>1. \A i \in A : RowOK(subs[i])
    BY <1>2 DEF TableInv
  <2>2. P \subseteq Tasks
    BY <1>2, <2>1 DEF RowOK, Row
  <2>3. P = {} <=> A = {}
    BY <1>2
  <2> QED
    BY <2>2, <2>3, Figures, PartCount
<1>5. PICK mine, badges, public :
         mine = Statistic!MyStats(u) /\ badges = Statistic!MyBadges(u) /\ public = Statistic!ProfileStats(u)
  OBVIOUS
<1>6. /\ mine.total = Cardinality(S) /\ mine.accepted = Cardinality(A) /\ mine.solved = Cardinality(P)
  BY <1>1, <1>5, SameCount DEF Statistic!MyStats
<1>7. /\ public.submissions = Cardinality(S) /\ public.ac_count = Cardinality(A)
      /\ public.solved_count = Cardinality(P) /\ public.solved = P
  BY <1>1, <1>2, <1>5, SameCount DEF Statistic!ProfileStats
<1>8. Statistic!MySolved(u) = P
  <2>1. \A i \in A : subs[i].problem \in listedProblems
    BY <1>2 DEF TableInv, RowOK
  <2> QED
    BY <1>2, <2>1, Selected DEF Statistic!MySolved
<1>9. PICK G : G = {subs[i].status : i \in S}
  OBVIOUS
<1>10. "AC" \in G <=> A # {}
  BY <1>2, <1>9
<1>11. {i \in S : subs[i].status = "AC"} = A
  BY <1>2
<1>12. badges.solved = Cardinality(P)
  <2>1. badges.solved = IF "AC" \in G THEN Cardinality(P) ELSE 0
    BY <1>1, <1>5, <1>9, SameCount DEF Statistic!MyBadges
  <2> QED
    BY <1>4, <1>10, <2>1
<1>13. badges.first_blood = (Cardinality(P) > 0)
  <2>1. badges.first_blood = ((IF "AC" \in G THEN Cardinality(A) ELSE 0) >= 1)
    BY <1>1, <1>5, <1>9, <1>11, SameCount DEF Statistic!MyBadges
  <2> QED
    BY <1>3, <1>4, <1>10, <2>1
<1>14. badges.submissions = Cardinality(S)
  <2>1. PICK f : f = [x \in G |-> Cardinality({i \in S : subs[i].status = x})]
    OBVIOUS
  <2>2. f = [x \in G |-> Statistic!Cardinality({i \in S : subs[i].status = x})]
    BY <2>1, SameCount
  <2>3. badges.submissions = Statistic!Total(f)
    BY <1>1, <1>5, <1>9, <2>2 DEF Statistic!MyBadges
  <2>4. PICK k : k = [i \in S |-> subs[i].status]
    OBVIOUS
  <2>5. DOMAIN f = {k[i] : i \in S} /\ \A d \in DOMAIN f : f[d] = Cardinality({i \in S : k[i] = d})
    BY <1>9, <2>1, <2>4
  <2> QED
    BY <1>3, <2>3, <2>5, GroupsAddUp
<1>15. Statistic!Total(public.activity) = Cardinality(A)
  <2>1. PICK k : k = [i \in A |-> subs[i].time \div DayLength]
    OBVIOUS
  <2>2. PICK f : f = public.activity
    OBVIOUS
  <2>3. f = [d \in {subs[i].time \div DayLength : i \in A} |->
               Statistic!Cardinality({i \in A : subs[i].time \div DayLength = d})]
    BY <1>1, <1>5, <2>2 DEF Statistic!ProfileStats
  <2>4. DOMAIN f = {k[i] : i \in A} /\ \A d \in DOMAIN f : f[d] = Cardinality({i \in A : k[i] = d})
    BY <2>1, <2>3, SameCount
  <2>5. IsFiniteSet(A)
    BY <1>3
  <2>6. Statistic!Total(f) = Cardinality(A)
    BY <2>4, <2>5, GroupsAddUp
  <2> QED
    BY <2>2, <2>6
<1>16. PICK shown : shown = Statistic!BadgesOf(u)
  OBVIOUS
<1>20. PICK R, r : R = Statistic!BadgeRows(u) /\ r = {row \in R : row.status = "AC"}
  OBVIOUS
<1>21. R = {[status |-> s, cnt |-> Cardinality({j \in S : subs[j].status = s}),
             solved |-> Cardinality({subs[j].problem : j \in {k \in A : subs[k].status = s}})] : s \in G}
  BY <1>1, <1>9, <1>20, SameCount DEF Statistic!BadgeRows
<1>22. /\ A = {} => r = {}
       /\ A # {} => r = {[status |-> "AC", cnt |-> Cardinality(A), solved |-> Cardinality(P)]}
  <2>1. {k \in A : subs[k].status = "AC"} = A
    BY <1>2
  <2>2. r = {row \in {[status |-> s, cnt |-> Cardinality({j \in S : subs[j].status = s}),
                       solved |-> Cardinality({subs[j].problem : j \in {k \in A : subs[k].status = s}})] : s \in G} :
                  row.status = "AC"}
    BY <1>20, <1>21
  <2>3. ASSUME NEW row \in r
        PROVE  "AC" \in G /\ row = [status |-> "AC", cnt |-> Cardinality(A), solved |-> Cardinality(P)]
    <3>1. PICK s \in G : row = [status |-> s, cnt |-> Cardinality({j \in S : subs[j].status = s}),
                       solved |-> Cardinality({subs[j].problem : j \in {k \in A : subs[k].status = s}})]
      BY <2>2
    <3>2. s = "AC"
      BY <2>2, <3>1
    <3> QED
      BY <1>2, <1>11, <2>1, <3>1, <3>2
  <2>4. ASSUME "AC" \in G
        PROVE  [status |-> "AC", cnt |-> Cardinality(A), solved |-> Cardinality(P)] \in r
    BY <1>2, <1>11, <2>1, <2>2, <2>4
  <2> QED
    BY <1>10, <2>3, <2>4
<1>23. PICK acRow : acRow = IF r = {} THEN [cnt |-> 0, solved |-> 0] ELSE CHOOSE row \in r : TRUE
  OBVIOUS
<1>24. acRow.cnt = Cardinality(A) /\ acRow.solved = Cardinality(P)
  <2>1. CASE A = {}
    BY <1>3, <1>4, <1>22, <1>23, <2>1
  <2>2. CASE A # {}
    <3>1. PICK x : x = [status |-> "AC", cnt |-> Cardinality(A), solved |-> Cardinality(P)]
      OBVIOUS
    <3>2. r = {x}
      BY <1>22, <2>2, <3>1
    <3>3. acRow = x
      BY <1>23, <3>2
    <3> QED
      BY <3>1, <3>3
  <2> QED
    BY <2>1, <2>2
<1>25. shown.solved = acRow.solved /\ shown.first_blood = (acRow.cnt >= 1)
  BY <1>16, <1>20, <1>23 DEF Statistic!BadgesOf
<1>26. shown.submissions = Cardinality(S)
  <2>1. PICK f : f = [row \in R |-> row.cnt]
    OBVIOUS
  <2>2. shown.submissions = Statistic!Total(f)
    BY <1>16, <1>20, <2>1 DEF Statistic!BadgesOf
  <2>3. PICK k : k = [i \in S |-> [status |-> subs[i].status, cnt |-> Cardinality({j \in S : subs[j].status = subs[i].status}),
                       solved |-> Cardinality({subs[j].problem : j \in {m \in A : subs[m].status = subs[i].status}})]]
    OBVIOUS
  <2>4. DOMAIN f = {k[i] : i \in S}
    <3>1. DOMAIN f = {[status |-> s, cnt |-> Cardinality({j \in S : subs[j].status = s}),
                       solved |-> Cardinality({subs[j].problem : j \in {m \in A : subs[m].status = s}})] : s \in G}
      BY <1>21, <2>1
    <3>2. {k[i] : i \in S} = {[status |-> subs[i].status, cnt |-> Cardinality({j \in S : subs[j].status = subs[i].status}),
                       solved |-> Cardinality({subs[j].problem : j \in {m \in A : subs[m].status = subs[i].status}})] : i \in S}
      BY <2>3
    <3> DEFINE Line(s) == [status |-> s, cnt |-> Cardinality({j \in S : subs[j].status = s}),
                           solved |-> Cardinality({subs[j].problem : j \in {m \in A : subs[m].status = s}})]
    <3>3. DOMAIN f = {Line(s) : s \in G} /\ {k[i] : i \in S} = {Line(subs[i].status) : i \in S}
      BY <3>1, <3>2
    <3> HIDE DEF Line
    <3> QED
      BY <1>9, <3>3
  <2>5. ASSUME NEW d \in DOMAIN f
        PROVE  f[d] = Cardinality({i \in S : k[i] = d})
    <3>1. PICK s \in G : d = [status |-> s, cnt |-> Cardinality({j \in S : subs[j].status = s}),
                       solved |-> Cardinality({subs[j].problem : j \in {m \in A : subs[m].status = s}})]
      BY <1>21, <2>1
    <3>2. f[d] = Cardinality({j \in S : subs[j].status = s})
      BY <2>1, <3>1
    <3>3. \A i \in S : k[i].status = subs[i].status
      BY <2>3
    <3>4. \A i \in S : subs[i].status = s => k[i] = d
      BY <2>3, <3>1
    <3>5. d.status = s
      BY <3>1
    <3>6. {i \in S : k[i] = d} = {j \in S : subs[j].status = s}
      BY <3>3, <3>4, <3>5
    <3> QED
      BY <3>2, <3>6
  <2> QED
    BY <1>3, <2>2, <2>4, <2>5, GroupsAddUp
<1>27. shown.first_blood = (public.ac_count > 0) /\ shown.solved = public.solved_count
  BY <1>3, <1>7, <1>24, <1>25
<1>28. shown.solved_at = badges.solved_at
  <2>1. shown.solved_at = {n \in SolvedSteps : acRow.solved >= n}
    BY <1>16, <1>20, <1>23 DEF Statistic!BadgesOf
  <2>2. badges.solved_at = {n \in SolvedSteps : badges.solved >= n}
    BY <1>5 DEF Statistic!MyBadges
  <2> QED
    BY <1>12, <1>24, <2>1, <2>2
<1>29. shown.sub_at = badges.sub_at
  <2>1. shown.sub_at = {n \in SubmissionSteps : shown.submissions >= n}
    BY <1>16 DEF Statistic!BadgesOf
  <2>2. badges.sub_at = {n \in SubmissionSteps : badges.submissions >= n}
    BY <1>5 DEF Statistic!MyBadges
  <2> QED
    BY <1>14, <1>26, <2>1, <2>2
<1>30. shown.all_rounder = badges.all_rounder
  <2>1. {Difficulty[subs[i].problem] : i \in A} = {Difficulty[p] : p \in P}
    BY <1>2
  <2>2. shown.all_rounder = (Statistic!Cardinality({Difficulty[subs[i].problem] : i \in A})
                                >= Statistic!Cardinality({Difficulty[p] : p \in Tasks}))
    BY <1>1, <1>16 DEF Statistic!BadgesOf
  <2>3. badges.all_rounder = (Statistic!Cardinality({Difficulty[p] : p \in Statistic!MySolved(u)})
                                >= Statistic!Cardinality({Difficulty[p] : p \in Tasks}))
    BY <1>5 DEF Statistic!MyBadges
  <2> QED
    BY <1>8, <2>1, <2>2, <2>3
<1>17. Statistic!AdminUser(u).ac_count = Cardinality(A) /\ Statistic!AdminUser(u).submission_count = Cardinality(S)
  BY <1>1, SameCount DEF Statistic!AdminUser
<1>18. /\ Statistic!DecorateItem(u, Members).submission_count = Cardinality(S)
       /\ Statistic!DecorateItem(u, Members).pass_rate = Statistic!Percent(Cardinality(A), Cardinality(S))
  <2>1. CASE S = {}
    <3>1. Statistic!DecorateItem(u, Members) = [submission_count |-> 0, pass_rate |-> 0]
      BY <1>1, <2>1 DEF Statistic!DecorateItem, Statistic!FillStats
    <3>2. Statistic!Percent(Cardinality(A), Cardinality(S)) = 0
      BY <1>3, <2>1 DEF Statistic!Percent
    <3> QED
      BY <1>3, <2>1, <3>1, <3>2
  <2>2. CASE S # {}
    <3>1. Statistic!DecorateItem(u, Members)
             = [submission_count |-> Cardinality(S), pass_rate |-> Statistic!Percent(Cardinality(A), Cardinality(S))]
      BY <1>1, <2>2, SameCount DEF Statistic!DecorateItem, Statistic!FillStats
    <3> QED
      BY <3>1
  <2> QED
    BY <2>1, <2>2
<1>19. mine.solved = Statistic!Cardinality(Statistic!MySolved(u))
  BY <1>6, <1>8, SameCount
<1>31. shown.submissions = public.submissions
  BY <1>7, <1>26
<1> QED
  BY <1>5, <1>6, <1>7, <1>8, <1>12, <1>13, <1>14, <1>15, <1>16, <1>17, <1>18, <1>19, <1>27, <1>28, <1>29, <1>30, <1>31

\* PersonAgrees.
LEMMA PersonFigures == TableInv => Statistic!PersonAgrees
BY OneAgrees DEF Statistic!PersonAgrees

-----------------------------------------------------------------------------
(* The platform's totals                                                   *)

\* ORDER BY ac_count DESC.
ByScore ==
    {z \in Members \X Members :
        LET a == Cardinality(Statistic!AC(Statistic!ByUser(z[1])))
            b == Cardinality(Statistic!AC(Statistic!ByUser(z[2])))
        IN  a > b \/ (a = b /\ NameOrder[z[1]] < NameOrder[z[2]])}
LEMMA SortedByScore ==
    ASSUME TableInv, NEW S, S \subseteq Members
    PROVE  Lists(Statistic!Sorted(S, Statistic!More), ByScore, S)
<1>0. IsFiniteSet(S)
  BY Figures, PartCount
<1>1. \A u \in S : Cardinality(Statistic!AC(Statistic!ByUser(u))) \in Nat
  <2> TAKE u \in S
  <2>1. Statistic!AC(Statistic!ByUser(u)) \subseteq DOMAIN subs
    BY Selected
  <2> QED
    BY <2>1, RowNumbers, PartCount
<1>2. \A x \in S : NameOrder[x] \in Nat
  BY Figures
<1>3. \A x, y \in S : <<x, y>> \in ByScore <=>
          LET a == Cardinality(Statistic!AC(Statistic!ByUser(x)))
              b == Cardinality(Statistic!AC(Statistic!ByUser(y)))
          IN  a > b \/ (a = b /\ NameOrder[x] < NameOrder[y])
  BY DEF ByScore
<1>4. Orders(ByScore, S)
  <2>1. \A x \in S : <<x, x>> \notin ByScore
    BY <1>1, <1>2, <1>3
  <2>2. \A x, y \in S : x # y => <<x, y>> \in ByScore \/ <<y, x>> \in ByScore
    <3>1. \A x, y \in S : NameOrder[x] = NameOrder[y] => x = y
      BY Figures
    <3> QED
      BY <1>1, <1>2, <1>3, <3>1
  <2>3. \A x, y, z \in S : <<x, y>> \in ByScore /\ <<y, z>> \in ByScore => <<x, z>> \in ByScore
    BY <1>1, <1>2, <1>3
  <2> QED
    BY <2>1, <2>2, <2>3 DEF Orders
<1>5. \A x, y \in S : Statistic!More(y, x) <=> <<y, x>> \in ByScore
  BY <1>3, SameCount DEF Statistic!More
<1>6. \A x \in S : {y \in S : Statistic!More(y, x)} = Before(x, ByScore, S)
  BY <1>5 DEF Before
<1>7. \A x \in S : Statistic!Cardinality({y \in S : Statistic!More(y, x)}) = Cardinality(Before(x, ByScore, S))
  BY <1>6, SameCount
<1>8. PICK q : q = Statistic!Sorted(S, Statistic!More)
  OBVIOUS
<1> DEFINE At(k) == CHOOSE x \in S : Statistic!Cardinality({y \in S : Statistic!More(y, x)}) = k - 1
<1>9. q = [k \in 1..Cardinality(S) |-> At(k)]
  BY <1>8, SameCount DEF Statistic!Sorted
<1>10. ASSUME NEW k \in 1..Cardinality(S), NEW x \in S, Cardinality(Before(x, ByScore, S)) = k - 1
      PROVE  q[k] \in S /\ Cardinality(Before(q[k], ByScore, S)) = k - 1
  BY <1>7, <1>9, <1>10
<1> HIDE DEF At
<1>11. q = [k \in 1..Cardinality(S) |-> q[k]]
  BY <1>9
<1> QED
  BY <1>0, <1>4, <1>8, <1>10, <1>11, PlacesList

\* TotalsAgree.
LEMMA TotalFigures == TableInv => Statistic!TotalsAgree
<1> SUFFICES ASSUME TableInv  PROVE Statistic!TotalsAgree
  OBVIOUS
<1>1. PICK A : A = Accepted(DOMAIN subs)
  OBVIOUS
<1>2. A = {i \in DOMAIN subs : subs[i].status = "AC"} /\ IsFiniteSet(A)
  <2>1. A \subseteq DOMAIN subs
    BY <1>1 DEF Accepted
  <2> QED
    BY <1>1, <2>1, RowNumbers, PartCount DEF Accepted
<1>3. \A i \in DOMAIN subs : /\ subs[i].user \in Members /\ subs[i].problem \in listedProblems /\ subs[i].problem \in Tasks
                              /\ subs[i].status \in {"PENDING", "WA", "AC"}
  BY DEF TableInv, RowOK, Row
<1>4. PICK accepted : accepted = IF "AC" \in DOMAIN Statistic!AdminStats.distribution
                                 THEN Statistic!AdminStats.distribution["AC"] ELSE 0
  OBVIOUS
<1>5. accepted = Cardinality(A)
  <2>1. PICK G : G = {subs[i].status : i \in DOMAIN subs}
    OBVIOUS
  <2>2. Statistic!AdminStats.distribution = [s \in G |-> Cardinality({i \in DOMAIN subs : subs[i].status = s})]
    BY <2>1, Selected, SameCount DEF Statistic!AdminStats
  <2>3. "AC" \in G <=> A # {}
    BY <1>2, <2>1
  <2>4. Cardinality({}) = 0
    BY FS_EmptySet
  <2> QED
    BY <1>2, <1>4, <2>2, <2>3, <2>4
<1>6. Statistic!Total([p \in listedProblems |-> Statistic!ProblemList[p].ac_count]) = accepted
  <2>1. PICK f, k : f = [p \in listedProblems |-> Statistic!ProblemList[p].ac_count] /\ k = [i \in A |-> subs[i].problem]
    OBVIOUS
  <2>2. DOMAIN f = listedProblems /\ IsFiniteSet(DOMAIN f)
    <3>1. listedProblems \subseteq Tasks
      BY DEF TableInv
    <3> QED
      BY <2>1, <3>1, Figures, PartCount
  <2>3. \A i \in A : k[i] \in DOMAIN f
    BY <1>2, <1>3, <2>1, <2>2
  <2>4. ASSUME NEW p \in DOMAIN f  PROVE f[p] = Cardinality({i \in A : k[i] = p})
    <3>1. f[p] = Cardinality(Statistic!AC(Statistic!ByProblem(p)))
      BY <2>1, <2>2, SameCount DEF Statistic!ProblemList
    <3>2. Statistic!AC(Statistic!ByProblem(p)) = {i \in A : k[i] = p}
      BY <1>2, <2>1, Selected
    <3> QED
      BY <3>1, <3>2
  <2>5. IsFiniteSet(A)
    BY <1>2
  <2>6. Statistic!Total(f) = Cardinality(A)
    BY <2>2, <2>3, <2>4, <2>5, TotalCounts
  <2> QED
    BY <1>5, <2>1, <2>6
<1>7. \A u : Statistic!AdminUser(u).ac_count = Cardinality(Statistic!AC(Statistic!ByUser(u)))
  BY SameCount DEF Statistic!AdminUser
<1>8. Statistic!Total([u \in Members |-> Statistic!AdminUser(u).ac_count]) = accepted
  <2>1. PICK f, k : f = [u \in Members |-> Statistic!AdminUser(u).ac_count] /\ k = [i \in A |-> subs[i].user]
    OBVIOUS
  <2>2. DOMAIN f = Members /\ IsFiniteSet(DOMAIN f) /\ \A i \in A : k[i] \in DOMAIN f
    BY <1>2, <1>3, <2>1, Figures
  <2>3. ASSUME NEW u \in DOMAIN f  PROVE f[u] = Cardinality({i \in A : k[i] = u})
    <3>1. f[u] = Cardinality(Statistic!AC(Statistic!ByUser(u)))
      BY <1>7, <2>1, <2>2
    <3>2. Statistic!AC(Statistic!ByUser(u)) = {i \in A : k[i] = u}
      BY <1>2, <2>1, Selected
    <3> QED
      BY <3>1, <3>2
  <2>4. IsFiniteSet(A)
    BY <1>2
  <2>5. Statistic!Total(f) = Cardinality(A)
    BY <2>2, <2>3, <2>4, TotalCounts
  <2> QED
    BY <1>5, <2>1, <2>5
<1>9. ASSUME NEW p \in listedProblems  PROVE Statistic!ProblemList[p] = Statistic!ProblemDetail(p)
  <2>1. PICK B, C : B = {i \in Statistic!Rows : subs[i].problem = p} /\ C = {i \in B : subs[i].status = "AC"}
    OBVIOUS
  <2>2. B = Statistic!ByProblem(p) /\ C = Statistic!AC(B)
    BY <2>1, Selected
  <2>3. Statistic!ProblemList[p]
          = [ac_count |-> Cardinality(C), submission_count |-> Cardinality(B),
             ac_rate |-> Statistic!Percent(Cardinality(C), Cardinality(B))]
    BY <2>2, SameCount DEF Statistic!ProblemList
  <2>4. Statistic!ProblemDetail(p)
          = [ac_count |-> Cardinality(C), submission_count |-> Cardinality(B),
             ac_rate |-> Statistic!Percent(Cardinality(C), Cardinality(B))]
    BY <2>1, SameCount DEF Statistic!ProblemDetail
  <2> QED
    BY <2>3, <2>4
<1>10. Len(Statistic!FallbackBoard) = Statistic!Min({BoardTop, Statistic!Cardinality({u \in Members : Statistic!AdminUser(u).ac_count > 0})})
  <2>1. PICK S : S = {u \in Members : Statistic!AC(Statistic!ByUser(u)) # {}}
    OBVIOUS
  <2>2. S \subseteq Members /\ IsFiniteSet(S) /\ Cardinality(S) \in Nat /\ BoardTop \in Nat
    <3>1. S \subseteq Members
      BY <2>1
    <3> QED
      BY <3>1, Figures, PartCount
  <2>3. S = {u \in Members : Statistic!AdminUser(u).ac_count > 0}
    <3>1. \A u \in Members : Statistic!AC(Statistic!ByUser(u)) # {} <=> Cardinality(Statistic!AC(Statistic!ByUser(u))) > 0
      <4> TAKE u \in Members
      <4>1. Statistic!AC(Statistic!ByUser(u)) \subseteq DOMAIN subs
        BY Selected
      <4> QED
        BY <4>1, RowNumbers, PartCount
    <3> QED
      BY <1>7, <2>1, <3>1
  <2>4. PICK q, top : q = Statistic!Sorted(S, Statistic!More) /\ top = Statistic!Limit(q, BoardTop)
    OBVIOUS
  <2>5. DOMAIN top = 1..Statistic!Min({Cardinality(S), BoardTop})
    BY <2>2, <2>4, SortedByScore, LimitLength
  <2>6. PICK m \in Nat : m = Statistic!Min({Cardinality(S), BoardTop}) /\ m = Statistic!Min({BoardTop, Cardinality(S)})
    BY <2>2, LessOfTwo
  <2>7. Statistic!FallbackBoard
          = [k \in DOMAIN top |-> [user |-> top[k],
                                   ac_count |-> Statistic!Cardinality(Statistic!AC(Statistic!ByUser(top[k])))]]
    BY <2>1, <2>4 DEF Statistic!FallbackBoard
  <2>8. Len(Statistic!FallbackBoard) = m
    BY <2>5, <2>6, <2>7
  <2> QED
    BY <2>3, <2>6, <2>8, SameCount
<1>11. Statistic!AdminSubmissions({"PENDING", "WA", "AC"}, Members, Tasks, 1, 1).total = Statistic!AdminStats.submissions
  <2>1. PICK B : B = {i \in Statistic!Rows : /\ subs[i].status \in {"PENDING", "WA", "AC"}
                                             /\ subs[i].user \in Members /\ subs[i].problem \in Tasks}
    OBVIOUS
  <2>2. B = 1..Len(subs) /\ Len(subs) \in Nat
    BY <1>3, <2>1, Selected, RowNumbers
  <2>3. Statistic!AdminSubmissions({"PENDING", "WA", "AC"}, Members, Tasks, 1, 1).total = Cardinality(B)
    BY <2>1, SameCount DEF Statistic!AdminSubmissions, Statistic!Listing
  <2>4. Cardinality(B) = Len(subs)
    BY <2>2, FS_Interval
  <2> QED
    BY <2>3, <2>4 DEF Statistic!AdminStats
<1>12. ASSUME NEW u \in Members
       PROVE  Statistic!SubmissionList(u, {"AC"}, Tasks, 1, 1).total = Statistic!AdminUser(u).ac_count
  <2>1. PICK B : B = Statistic!AC(Statistic!ByUser(u))
    OBVIOUS
  <2>2. B = {i \in Statistic!Rows : subs[i].user = u /\ subs[i].status \in {"AC"} /\ subs[i].problem \in Tasks}
    BY <1>3, <2>1, Selected
  <2>3. Statistic!SubmissionList(u, {"AC"}, Tasks, 1, 1).total = Cardinality(B)
    BY <2>2, SameCount DEF Statistic!SubmissionList, Statistic!Listing, Statistic!Where
  <2> QED
    BY <1>7, <2>1, <2>3
<1> QED
  BY <1>4, <1>6, <1>8, <1>9, <1>10, <1>11, <1>12 DEF Statistic!TotalsAgree

-----------------------------------------------------------------------------
(* The rankings of the contests                                            *)

\* What is left of a time that may be negative.
LEMMA AtLeastZero ==
    ASSUME NEW a \in Int
    PROVE  Statistic!Max({a, 0}) = IF a >= 0 THEN a ELSE 0
BY DEF Statistic!Max

\* What a ranking counts of a user: rows of the table; the last of their times.
LEMMA TiedRows ==
    ASSUME TableInv, NEW c, NEW u
    PROVE  /\ Statistic!Tied(c, u) = {i \in Statistic!AC(Statistic!ByUser(u)) : subs[i].contest = c}
           /\ Statistic!Tied(c, u) \subseteq DOMAIN subs
           /\ \A i \in Statistic!Tied(c, u) : subs[i].time \in 0..LastTime /\ subs[i].problem \in Tasks
<1>1. Statistic!Tied(c, u) = {i \in Statistic!AC(Statistic!ByUser(u)) : subs[i].contest = c}
  BY DEF Statistic!Tied
<1>2. Statistic!Tied(c, u) \subseteq DOMAIN subs
  BY <1>1, Selected
<1> QED
  BY <1>1, <1>2 DEF TableInv, RowOK, Row

\* The greatest of some times.
LEMMA LastOf ==
    ASSUME NEW N, N \subseteq 0..LastTime, N # {}
    PROVE  Statistic!Max(N) \in N /\ \A n \in N : n <= Statistic!Max(N)
<1>1. LastTime \in Nat /\ N \subseteq Nat /\ \A n \in N : n <= LastTime
  BY Bounds
<1>2. \E m \in N : \A n \in N : n <= m
  BY <1>1, GreatestNumber
<1> QED
  BY <1>2 DEF Statistic!Max

\* The penalty of a problem is not more than the time to the last of them all.
LEMMA PenaltyType ==
    ASSUME TableInv, NEW c \in DOMAIN listedContests, NEW u, NEW S, S = Statistic!Tied(c, u),
           NEW p \in {subs[i].problem : i \in S},
           NEW t, t = Statistic!Min({subs[i].time : i \in {j \in S : subs[j].problem = p}}),
           NEW last, last = Statistic!Max({subs[i].time : i \in S})
    PROVE  /\ Statistic!Max({last - listedContests[c].from, 0}) \in Nat
           /\ Statistic!Max({t - listedContests[c].from, 0})
                 \in 0..Statistic!Max({last - listedContests[c].from, 0})
<1>1. PICK N, M : N = {subs[i].time : i \in {j \in S : subs[j].problem = p}} /\ M = {subs[i].time : i \in S}
  OBVIOUS
<1>2. N # {} /\ N \subseteq M /\ M \subseteq 0..LastTime /\ M # {}
  BY <1>1, TiedRows
<1>3. t \in N
  <2>1. N \subseteq Nat
    BY <1>2, Figures
  <2>2. \E m \in N : \A n \in N : m <= n
    BY <1>2, <2>1, LeastNumber
  <2>3. t = Statistic!Min(N)
    BY <1>1
  <2> QED
    BY <2>2, <2>3 DEF Statistic!Min
<1>4. last \in M /\ t <= last
  <2>1. last = Statistic!Max(M)
    BY <1>1
  <2>2. Statistic!Max(M) \in M /\ \A n \in M : n <= Statistic!Max(M)
    BY <1>2, LastOf
  <2> QED
    BY <1>2, <1>3, <2>1, <2>2
<1>5. PICK from \in Nat : from = listedContests[c].from
  BY DEF TableInv, ContestOK, Statistic!Contest
<1>6. t \in Nat /\ last \in Nat
  BY <1>2, <1>3, <1>4, Figures
<1>7. t - from \in Int /\ last - from \in Int /\ t - from <= last - from
  BY <1>4, <1>6
<1>8. PICK a \in Int, b \in Int : a = t - from /\ b = last - from
  BY <1>7
<1>9. Statistic!Max({a, 0}) = (IF a >= 0 THEN a ELSE 0) /\ Statistic!Max({b, 0}) = (IF b >= 0 THEN b ELSE 0)
  BY AtLeastZero
<1>10. Statistic!Max({b, 0}) \in Nat /\ Statistic!Max({a, 0}) \in 0..Statistic!Max({b, 0})
  BY <1>7, <1>8, <1>9
<1> QED
  BY <1>5, <1>8, <1>10

\* A user's score: as many problems as were solved in the contest, and a penalty for each.
LEMMA ScoreType ==
    ASSUME TableInv, NEW c \in DOMAIN listedContests, NEW u \in Members
    PROVE  LET result == Statistic!ContestScore(c, u)
               T == Statistic!Tied(c, u)
           IN  /\ result.ac_count \in Nat /\ Statistic!MyStats(u).solved \in Nat
               /\ result.ac_count <= Statistic!MyStats(u).solved /\ (result.ac_count = 0 <=> T = {})
               /\ result.penalty \in Nat
               /\ T # {} => /\ Statistic!Max({Statistic!Max({subs[i].time : i \in T}) - listedContests[c].from, 0}) \in Nat
                            /\ result.penalty <= result.ac_count
                                  * Statistic!Max({Statistic!Max({subs[i].time : i \in T}) - listedContests[c].from, 0})
<1>1. PICK T, A, P, Q : /\ T = Statistic!Tied(c, u) /\ A = Statistic!AC(Statistic!ByUser(u))
                        /\ P = {subs[i].problem : i \in T} /\ Q = {subs[i].problem : i \in A}
  OBVIOUS
<1>2. T = {i \in A : subs[i].contest = c} /\ A \subseteq DOMAIN subs
  BY <1>1, Selected, TiedRows
<1>3. P \subseteq Q /\ Q \subseteq Tasks /\ (P = {} <=> T = {})
  <2>1. \A i \in A : subs[i].problem \in Tasks
    BY <1>2 DEF TableInv, RowOK, Row
  <2> QED
    BY <1>1, <1>2, <2>1
<1>4. /\ IsFiniteSet(P) /\ Cardinality(P) \in Nat /\ Cardinality(Q) \in Nat /\ Cardinality(P) <= Cardinality(Q)
      /\ (Cardinality(P) = 0 <=> P = {})
  <2>1. IsFiniteSet(Q)
    BY <1>3, Figures, PartCount
  <2> QED
    BY <1>3, <2>1, PartCount
<1>5. Statistic!MyStats(u).solved = Cardinality(Q)
  BY <1>1, Selected, SameCount DEF Statistic!MyStats
<1>6. PICK result : result = Statistic!ContestScore(c, u)
  OBVIOUS
<1>7. P = Statistic!ProblemsOf(T)
  BY <1>1, Selected
<1>8. result.ac_count = Cardinality(P)
  BY <1>1, <1>6, <1>7, SameCount DEF Statistic!ContestScore
<1>9. PICK f : f = [p \in P |-> Statistic!Max({Statistic!Min({subs[i].time : i \in {j \in T : subs[j].problem = p}})
                                             - listedContests[c].from, 0})]
  OBVIOUS
<1>10. result.penalty = Statistic!Total(f)
  BY <1>1, <1>6, <1>7, <1>9 DEF Statistic!ContestScore
<1>11. PICK m : m = Statistic!Max({Statistic!Max({subs[i].time : i \in T}) - listedContests[c].from, 0})
  OBVIOUS
<1>12. ASSUME NEW p \in P  PROVE m \in Nat /\ f[p] \in 0..m
  <2>1. PICK t, last : /\ t = Statistic!Min({subs[i].time : i \in {j \in T : subs[j].problem = p}})
                       /\ last = Statistic!Max({subs[i].time : i \in T})
    OBVIOUS
  <2>2. f[p] = Statistic!Max({t - listedContests[c].from, 0}) /\ m = Statistic!Max({last - listedContests[c].from, 0})
    BY <1>9, <1>11, <2>1
  <2>3. T = Statistic!Tied(c, u) /\ p \in {subs[i].problem : i \in T}
    BY <1>1
  <2>4. /\ Statistic!Max({last - listedContests[c].from, 0}) \in Nat
        /\ Statistic!Max({t - listedContests[c].from, 0}) \in 0..Statistic!Max({last - listedContests[c].from, 0})
    BY <2>1, <2>3, PenaltyType
  <2> QED
    BY <2>2, <2>4
<1>13. DOMAIN f = P /\ IsFiniteSet(P)
  BY <1>4, <1>9
<1>14. CASE T = {}
  <2>1. P = {}
    BY <1>3, <1>14
  <2>2. \A d \in DOMAIN f : f[d] \in 0..0
    BY <1>13, <2>1
  <2>3. result.penalty \in 0..Cardinality(P) * 0
    BY <1>10, <1>13, <2>2, TotalBounded
  <2>4. result.penalty \in Nat
    BY <1>4, <2>3
  <2> QED
    BY <1>1, <1>3, <1>4, <1>5, <1>6, <1>8, <1>14, <2>4
<1>15. CASE T # {}
  <2>1. m \in Nat /\ \A d \in DOMAIN f : f[d] \in 0..m
    BY <1>3, <1>12, <1>13, <1>15
  <2>2. result.penalty \in 0..Cardinality(P) * m
    BY <1>10, <1>13, <2>1, TotalBounded
  <2>3. PICK n \in Nat : n = Cardinality(P)
    BY <1>4
  <2>4. n * m \in Nat /\ result.penalty \in 0..n * m
    BY <2>1, <2>2, <2>3
  <2>5. result.penalty \in Nat /\ result.penalty <= n * m
    BY <2>4
  <2>6. result.penalty <= result.ac_count * m
    BY <1>8, <2>3, <2>5
  <2> QED
    BY <1>1, <1>3, <1>4, <1>5, <1>6, <1>8, <1>11, <2>1, <2>5, <2>6
<1> QED
  BY <1>14, <1>15

\* ORDER BY ac_count DESC, penalty_sec ASC, username ASC.
ByContest(c) == {z \in Members \X Members : Statistic!Ahead(c, z[1], z[2])}
LEMMA ContestOrder ==
    ASSUME TableInv, NEW c \in DOMAIN listedContests, NEW S, S \subseteq Members
    PROVE  Orders(ByContest(c), S)
<1>1. \A u \in S : Statistic!ContestScore(c, u).ac_count \in Nat /\ Statistic!ContestScore(c, u).penalty \in Nat
  BY ScoreType
<1>2. \A x \in S : NameOrder[x] \in Nat
  BY Figures
<1>3. \A x, y \in S : <<x, y>> \in ByContest(c) <=>
        LET a == Statistic!ContestScore(c, x)
            b == Statistic!ContestScore(c, y)
        IN  \/ a.ac_count > b.ac_count
            \/ /\ a.ac_count = b.ac_count
               /\ a.penalty < b.penalty \/ (a.penalty = b.penalty /\ NameOrder[x] < NameOrder[y])
  BY DEF ByContest, Statistic!Ahead
<1> DEFINE count == [x \in S |-> Statistic!ContestScore(c, x).ac_count]
           late == [x \in S |-> Statistic!ContestScore(c, x).penalty]
<1>8. /\ \A x \in S : count[x] \in Nat /\ late[x] \in Nat
      /\ \A x, y \in S : <<x, y>> \in ByContest(c) <=>
           \/ count[x] > count[y]
           \/ /\ count[x] = count[y]
              /\ late[x] < late[y] \/ (late[x] = late[y] /\ NameOrder[x] < NameOrder[y])
  BY <1>1, <1>3
<1> HIDE DEF count, late
<1>4. QED
  <2>1. \A x \in S : <<x, x>> \notin ByContest(c)
    BY <1>2, <1>8
  <2>2. \A x, y \in S : x # y => <<x, y>> \in ByContest(c) \/ <<y, x>> \in ByContest(c)
    <3>1. \A x, y \in S : NameOrder[x] = NameOrder[y] => x = y
      BY Figures
    <3> QED
      BY <1>2, <1>8, <3>1
  <2>3. \A x, y, z \in S : <<x, y>> \in ByContest(c) /\ <<y, z>> \in ByContest(c) => <<x, z>> \in ByContest(c)
    BY <1>2, <1>8
  <2> QED
    BY <2>1, <2>2, <2>3 DEF Orders
LEMMA SortedByContest ==
    ASSUME TableInv, NEW c \in DOMAIN listedContests, NEW S, S \subseteq Members,
           NEW q, q = Statistic!Sorted(S, LAMBDA u, v : Statistic!Ahead(c, u, v))
    PROVE  Lists(q, ByContest(c), S)
<1>0. IsFiniteSet(S)
  BY Figures, PartCount
<1>4. Orders(ByContest(c), S)
  BY ContestOrder
<1>5. \A x, y \in S : Statistic!Ahead(c, y, x) <=> <<y, x>> \in ByContest(c)
  BY DEF ByContest
<1>6. \A x \in S : {y \in S : Statistic!Ahead(c, y, x)} = Before(x, ByContest(c), S)
  BY <1>5 DEF Before
<1>7. \A x \in S : Statistic!Cardinality({y \in S : Statistic!Ahead(c, y, x)}) = Cardinality(Before(x, ByContest(c), S))
  BY <1>6, SameCount
<1> DEFINE At(k) == CHOOSE x \in S : Statistic!Cardinality({y \in S : Statistic!Ahead(c, y, x)}) = k - 1
<1>9. q = [k \in 1..Cardinality(S) |-> At(k)]
  BY SameCount DEF Statistic!Sorted
<1>10. ASSUME NEW k \in 1..Cardinality(S), NEW x \in S, Cardinality(Before(x, ByContest(c), S)) = k - 1
      PROVE  q[k] \in S /\ Cardinality(Before(q[k], ByContest(c), S)) = k - 1
  BY <1>7, <1>9, <1>10
<1> HIDE DEF At
<1>11. q = [k \in 1..Cardinality(S) |-> q[k]]
  BY <1>9
<1> QED
  BY <1>0, <1>4, <1>10, <1>11, PlacesList

\* ContestAgrees.
LEMMA ContestFigures == TableInv => Statistic!ContestAgrees
<1> SUFFICES ASSUME TableInv  PROVE Statistic!ContestAgrees
  OBVIOUS
<1>1. ASSUME NEW i \in Statistic!Rows
      PROVE  LET first == IF subs[i].seen = {} THEN Statistic!NoContest ELSE Statistic!Min(subs[i].seen)
             IN  subs[i].contest = IF first \in DOMAIN listedContests THEN first ELSE Statistic!NoContest
  <2>1. RowOK(subs[i])
    BY Selected DEF TableInv
  <2> QED
    BY <2>1 DEF RowOK, FirstOf, Statistic!NoContest
<1>2. ASSUME NEW c \in DOMAIN listedContests
      PROVE  LET board == Statistic!ContestBoard(c) IN
             /\ Len(board) = Cardinality({u \in Members : Statistic!Tied(c, u) # {}})
             /\ \A k \in DOMAIN board :
                   LET u == board[k]
                       result == Statistic!ContestScore(c, u)
                       last == Statistic!Max({subs[i].time : i \in Statistic!Tied(c, u)})
                   IN  /\ result.ac_count \in 1..Statistic!MyStats(u).solved
                       /\ result.penalty <= result.ac_count * Statistic!Max({last - listedContests[c].from, 0})
                       /\ k > 1 => Statistic!ContestScore(c, board[k - 1]).ac_count >= result.ac_count
  <2>1. PICK board, S : board = Statistic!ContestBoard(c) /\ S = {u \in Members : Statistic!Tied(c, u) # {}}
    OBVIOUS
  <2>2. S \subseteq Members /\ IsFiniteSet(S) /\ Cardinality(S) \in Nat
    <3>1. S \subseteq Members
      BY <2>1
    <3> QED
      BY <3>1, Figures, PartCount
  <2>3. board = Statistic!Sorted(S, LAMBDA u, v : Statistic!Ahead(c, u, v))
    BY <2>1 DEF Statistic!ContestBoard
  <2>4. Lists(board, ByContest(c), S)
    BY <2>2, <2>3, SortedByContest
  <2>5. DOMAIN board = 1..Cardinality(S) /\ Len(board) = Cardinality(S)
    BY <2>2, <2>4, ListIsSeq
  <2>6. /\ \A k \in 1..Cardinality(S) : board[k] \in S
        /\ \A j, k \in 1..Cardinality(S) : j < k => <<board[j], board[k]>> \in ByContest(c)
    BY <2>4 DEF Lists
  <2>7. ASSUME NEW k \in DOMAIN board
        PROVE  LET u == board[k]
                   result == Statistic!ContestScore(c, u)
                   last == Statistic!Max({subs[i].time : i \in Statistic!Tied(c, u)})
               IN  /\ result.ac_count \in 1..Statistic!MyStats(u).solved
                   /\ result.penalty <= result.ac_count * Statistic!Max({last - listedContests[c].from, 0})
                   /\ k > 1 => Statistic!ContestScore(c, board[k - 1]).ac_count >= result.ac_count
    <3>1. PICK u : u = board[k]
      OBVIOUS
    <3>2. u \in Members /\ Statistic!Tied(c, u) # {} /\ k \in 1..Cardinality(S)
      BY <2>1, <2>5, <2>6, <2>7, <3>1
    <3>3. PICK n \in Nat : n = Statistic!ContestScore(c, u).ac_count
      BY <3>2, ScoreType
    <3>4. n \in 1..Statistic!MyStats(u).solved
      <4>1. PICK m \in Nat : m = Statistic!MyStats(u).solved
        BY <3>2, ScoreType
      <4>2. n <= m /\ n # 0
        BY <3>2, <3>3, <4>1, ScoreType
      <4> QED
        BY <4>1, <4>2
    <3>5. Statistic!ContestScore(c, u).penalty <= Statistic!ContestScore(c, u).ac_count
             * Statistic!Max({Statistic!Max({subs[i].time : i \in Statistic!Tied(c, u)}) - listedContests[c].from, 0})
      BY <3>2, ScoreType
    <3>6. ASSUME k > 1  PROVE Statistic!ContestScore(c, board[k - 1]).ac_count >= n
      <4>1. PICK j, v : j = k - 1 /\ v = board[j]
        OBVIOUS
      <4>2. j \in 1..Cardinality(S) /\ j < k
        BY <2>2, <3>2, <3>6, <4>1
      <4>3. v \in Members /\ Statistic!Ahead(c, v, u)
        <5>1. <<v, u>> \in ByContest(c)
          BY <2>2, <2>6, <3>1, <3>2, <4>1, <4>2
        <5> QED
          BY <5>1 DEF ByContest
      <4>4. Statistic!ContestScore(c, v).ac_count \in Nat
        BY <4>3, ScoreType
      <4> QED
        BY <3>3, <4>1, <4>3, <4>4 DEF Statistic!Ahead
    <3> QED
      BY <3>1, <3>3, <3>4, <3>5, <3>6
  <2> QED
    BY <2>1, <2>5, <2>7
<1> QED
  BY <1>1, <1>2, SameCount DEF Statistic!ContestAgrees

\* Two pages that show one figure show one value, whatever was submitted, judged, rejudged
\* or deleted, at the boundaries of days and of contests too.
THEOREM FiguresAgree == PartsSpec => []AnswersAgree
<1>1. TableInv => AnswersAgree
  BY DailyFigures, PersonFigures, TotalFigures, ContestFigures DEF AnswersAgree, Statistic!AnswersAgree
<1> QED
  BY <1>1, TableAlways, PTL

-----------------------------------------------------------------------------
(* The types of all the parts                                              *)

\* The part that runs is one of the four.
LEMMA OnePart == PartsSpec => [](part \in {"judging", "statistics", "boards", "bank"})
<1> DEFINE I == part \in {"judging", "statistics", "boards", "bank"}
<1>1. PartsInit => I
  BY DEF PartsInit
<1>2. I /\ [PartsNext]_<<part, vars, statisticsVars, boardsVars, bankVars>> => I'
  BY DEF PartsNext
<1> QED
  BY <1>1, <1>2, PTL DEF PartsSpec

\* Judging keeps its types, and the other parts leave it alone.
LEMMA JudgingTypeOK == PartsSpec => []TypeOK
<1>1. PartsInit => TypeOK
  BY InitType DEF PartsInit
<1>2. TypeOK /\ [PartsNext]_<<part, vars, statisticsVars, boardsVars, bankVars>> => TypeOK'
  <2>1. [PartsNext]_<<part, vars, statisticsVars, boardsVars, bankVars>> => [Next]_vars
    BY DEF PartsNext
  <2> QED
    BY <2>1, TypeStep
<1> QED
  BY <1>1, <1>2, PTL DEF PartsSpec

\* Whichever part runs, its tables, counters and requests keep their types: rows of
\* submissions, days, queues of increments and the bounds of the counters, owners and inputs
\* of problems, lists of contests without deleted problems, stages of requests; messages,
\* handlers and workers of the judging pipeline.
THEOREM RecordsTypes == PartsSpec => []PartsTypeOK
<1>1. TableInv => Statistic!TypeOK
  <2> SUFFICES ASSUME TableInv  PROVE Statistic!TypeOK
    OBVIOUS
  <2>1. PICK n \in Nat : n = Len(FirstContests) + changes /\ Statistic!NextContest = n + 1 /\ Drawn = 1..n
    BY DrawnIds DEF Drawn, Statistic!NextContest
  <2>2. Statistic!NextContest - 1 = n
    BY <2>1
  <2>3. ASSUME NEW c \in DOMAIN listedContests
        PROVE  c \in 1..n /\ listedContests[c] \in Statistic!Contest /\ listedContests[c].problems \subseteq listedProblems
    BY <2>1 DEF TableInv, ContestOK
  <2>4. ASSUME NEW u \in Members, asking[u] # Statistic!NoRequest
        PROVE  asking[u].problem \in Tasks /\ asking[u].contest \in 0..n
    <3>1. RequestOK(asking[u])
      BY <2>4 DEF TableInv
    <3>2. FirstOf(asking[u].seen) \in asking[u].seen \cup {0} /\ asking[u].seen \subseteq Drawn
      BY <3>1, DrawnIds, FirstIn DEF RequestOK
    <3> QED
      BY <2>1, <3>1, <3>2 DEF RequestOK
  <2>5. ASSUME NEW i \in DOMAIN subs
        PROVE  subs[i] \in [user : Members, problem : Tasks, time : 0..LastTime,
                            status : {"PENDING", "WA", "AC"}, runtime : Runtimes \cup {0},
                            contest : DOMAIN listedContests \cup {0}, seen : SUBSET (1..n)]
    <3>1. PICK row : row = subs[i]
      OBVIOUS
    <3>2. RowOK(row)
      BY <3>1 DEF TableInv
    <3>3. row \in Row /\ row.seen \in SUBSET (1..n) /\ row.contest \in DOMAIN listedContests \cup {0}
      BY <2>1, <3>2 DEF RowOK
    <3> QED
      BY <3>1, <3>3 DEF Row
  <2>6. now \in 0..LastTime /\ listedProblems \subseteq Tasks /\ changes \in 0..MaxChanges
    BY DEF TableInv
  <2> QED
    BY <2>2, <2>3, <2>4, <2>5, <2>6, Selected DEF Statistic!TypeOK, Statistic!NoContest
<1>2. /\ part \in {"judging", "statistics", "boards", "bank"}
      /\ TypeOK /\ TableInv /\ Boards!TypeOK /\ Bank!TypeOK
      => PartsTypeOK
  BY <1>1 DEF PartsTypeOK
<1> QED
  BY <1>2, OnePart, JudgingTypeOK, TableAlways, BoardsTypeOK, BankTypeOK, PTL
=============================================================================
