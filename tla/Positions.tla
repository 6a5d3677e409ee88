----------------------------- MODULE Positions ------------------------------
(***************************************************************************)
(* A dictionary that is filled in a loop keeps, for each key, the last     *)
(* element with that key: records_by_hash (registry.py) and the entries of *)
(* a batch response (api.py).  The models choose that element among its    *)
(* positions; here is why there is one.  A list that is sorted (export.py) *)
(* has each element at the place that as many others as there are smaller  *)
(* ones leave to it; here is why that is a permutation.  And a list that   *)
(* is filtered (path.py) has at its k-th place the element at the k-th     *)
(* position kept; here is why there is one.                                *)
(***************************************************************************)
EXTENDS Naturals, Sequences, FiniteSetTheorems, SequenceTheorems, WellFoundedInduction, TLAPS

\* A nonempty set of positions has a last one: of the sets of positions after
\* one of its members, a smallest is empty.
LEMMA LastPosition ==
  ASSUME NEW n \in Nat, NEW S, S \subseteq 1 .. n, S # {}
  PROVE  \E i \in S : \A j \in S : j <= i
<1> DEFINE After(i) == {j \in S : j > i}
           Tails == {After(i) : i \in S}
<1>1. IsFiniteSet(S)
  <2>1. IsFiniteSet(1 .. n)
    BY FS_Interval
  <2> QED BY <2>1, FS_Subset
<1>2. IsWellFoundedOn(StrictSubsetOrdering(S), SUBSET S)
  BY <1>1, FS_StrictSubsetOrderingWellFounded, FS_FiniteSubsetsOfFinite
<1>3. Tails \subseteq SUBSET S /\ Tails # {}
  OBVIOUS
<1>4. PICK T \in Tails : \A U \in Tails : <<U, T>> \notin StrictSubsetOrdering(S)
  <2> HIDE DEF Tails
  <2> QED BY <1>2, <1>3, WFMin
<1>5. PICK i \in S : T = After(i)
  OBVIOUS
<1>6. ASSUME NEW j \in S, j > i PROVE FALSE
  <2>1. i \in Int /\ j \in Int /\ \A k \in S : k \in Int
    OBVIOUS
  <2>2. After(j) \subseteq After(i) /\ j \in After(i) /\ j \notin After(j)
    <3>1. \A k \in S : k > j => k > i
      BY <1>6, <2>1
    <3>2. ~ (j > j)
      BY <2>1
    <3> QED BY <1>6, <3>1, <3>2
  <2>3. <<After(j), After(i)>> \in StrictSubsetOrdering(S)
    <3> DEFINE pair == <<After(j), After(i)>>
    <3>1. pair \in (SUBSET S) \X (SUBSET S)
      OBVIOUS
    <3>2. pair[1] \subseteq pair[2] /\ pair[1] # pair[2]
      BY <2>2
    <3> QED BY <3>1, <3>2 DEF StrictSubsetOrdering
  <2> QED BY <1>4, <1>5, <2>3
<1> QED BY <1>6

-----------------------------------------------------------------------------
(***************************************************************************)
(* The places of an order.  A relation on 1..n is a set of pairs.          *)
(***************************************************************************)

IsStrictOrder(R, n) ==
  /\ \A i \in 1 .. n : <<i, i>> \notin R
  /\ \A i, j \in 1 .. n : i # j => <<i, j>> \in R \/ <<j, i>> \in R
  /\ \A i, j, k \in 1 .. n : <<i, j>> \in R /\ <<j, k>> \in R => <<i, k>> \in R

\* The positions before position i.
Before(R, n, i) == {j \in 1 .. n : <<j, i>> \in R}

\* There are fewer elements before one than there are elements.
LEMMA PlaceInRange ==
  ASSUME NEW n \in Nat, NEW R, IsStrictOrder(R, n), NEW i \in 1 .. n
  PROVE  /\ IsFiniteSet(Before(R, n, i))
         /\ Cardinality(Before(R, n, i)) \in 0 .. n - 1
<1>1. IsFiniteSet(1 .. n) /\ Cardinality(1 .. n) = n
  BY FS_Interval
<1>2. IsFiniteSet((1 .. n) \ {i}) /\ Cardinality((1 .. n) \ {i}) = n - 1
  BY <1>1, FS_RemoveElement
<1>3. Before(R, n, i) \subseteq (1 .. n) \ {i}
  BY DEF Before, IsStrictOrder
<1>4. /\ IsFiniteSet(Before(R, n, i))
      /\ Cardinality(Before(R, n, i)) \in Nat
      /\ Cardinality(Before(R, n, i)) <= n - 1
  BY <1>2, <1>3, FS_Subset, FS_CardinalityType
<1> QED BY <1>4

\* A position before another one has fewer positions before it.
LEMMA PlacesGrow ==
  ASSUME NEW n \in Nat, NEW R, IsStrictOrder(R, n), NEW i \in 1 .. n, NEW j \in 1 .. n,
         <<i, j>> \in R
  PROVE  Cardinality(Before(R, n, i)) < Cardinality(Before(R, n, j))
<1>1. /\ Before(R, n, i) \subseteq Before(R, n, j)
      /\ i \in Before(R, n, j) /\ i \notin Before(R, n, i)
  BY DEF Before, IsStrictOrder
<1>2. IsFiniteSet(Before(R, n, j))
  BY PlaceInRange
<1>3. /\ Cardinality(Before(R, n, i)) <= Cardinality(Before(R, n, j))
      /\ Cardinality(Before(R, n, i)) # Cardinality(Before(R, n, j))
  BY <1>1, <1>2, FS_Subset
<1>4. Cardinality(Before(R, n, i)) \in Int /\ Cardinality(Before(R, n, j)) \in Int
  BY PlaceInRange
<1> QED BY <1>3, <1>4

\* No two positions have one place, and each place is taken.
LEMMA Ranking ==
  ASSUME NEW n \in Nat, NEW R, IsStrictOrder(R, n)
  PROVE  /\ \A i, j \in 1 .. n :
              Cardinality(Before(R, n, i)) + 1 = Cardinality(Before(R, n, j)) + 1 => i = j
         /\ \A k \in 1 .. n : \E i \in 1 .. n : Cardinality(Before(R, n, i)) + 1 = k
<1> DEFINE f == [i \in 1 .. n |-> Cardinality(Before(R, n, i)) + 1]
<1>1. f \in [1 .. n -> 1 .. n]
  <2>1. \A i \in 1 .. n : Cardinality(Before(R, n, i)) \in 0 .. n - 1
    BY PlaceInRange
  <2>2. \A c \in 0 .. n - 1 : c + 1 \in 1 .. n
    OBVIOUS
  <2> QED BY <2>1, <2>2
<1>2. \A i, j \in 1 .. n : i # j => f[i] # f[j]
  <2> SUFFICES ASSUME NEW i \in 1 .. n, NEW j \in 1 .. n, i # j
               PROVE  f[i] # f[j]
    OBVIOUS
  <2>1. Cardinality(Before(R, n, i)) \in Int /\ Cardinality(Before(R, n, j)) \in Int
    BY PlaceInRange
  <2>2. \/ Cardinality(Before(R, n, i)) < Cardinality(Before(R, n, j))
        \/ Cardinality(Before(R, n, j)) < Cardinality(Before(R, n, i))
    BY PlacesGrow DEF IsStrictOrder
  <2> QED BY <2>1, <2>2
<1>3. f \in Injection(1 .. n, 1 .. n)
  BY <1>1, <1>2 DEF Injection, IsInjective
<1>4. IsFiniteSet(1 .. n)
  BY FS_Interval
<1>5. f \in Surjection(1 .. n, 1 .. n)
  BY <1>3, <1>4, FS_Injection
<1>6. \A k \in 1 .. n : \E i \in 1 .. n : f[i] = k
  BY <1>5 DEF Surjection
<1> QED BY <1>2, <1>6

-----------------------------------------------------------------------------
(***************************************************************************)
(* Lists without duplicates.                                               *)
(***************************************************************************)

Values(f, n) == {f[i] : i \in 1 .. n}

Distinct(f, n) == \A i, j \in 1 .. n : f[i] = f[j] => i = j

\* The elements of a kind are as many as their positions.
LEMMA CountedByValue ==
  ASSUME NEW n \in Nat, NEW f, Distinct(f, n), NEW T, T \subseteq Values(f, n)
  PROVE  Cardinality({i \in 1 .. n : f[i] \in T}) = Cardinality(T)
<1> DEFINE S == {i \in 1 .. n : f[i] \in T}
           g == [i \in S |-> f[i]]
<1>1. IsFiniteSet(S)
  <2>1. IsFiniteSet(1 .. n)
    BY FS_Interval
  <2> QED BY <2>1, FS_Subset
<1>2. g \in [S -> T]
  OBVIOUS
<1>3. \A i, j \in S : g[i] = g[j] => i = j
  BY DEF Distinct
<1>4. \A x \in T : \E i \in S : g[i] = x
  BY DEF Values
<1>5. g \in Bijection(S, T)
  BY <1>2, <1>3, <1>4 DEF Bijection, Injection, Surjection, IsInjective
<1> HIDE DEF S, g
<1>6. ExistsBijection(S, T)
  BY <1>5 DEF ExistsBijection
<1>7. Cardinality(S) = Cardinality(T)
  BY <1>1, <1>6, FS_Bijection
<1> QED BY <1>7 DEF S

\* A list as long as one without duplicates, and with the same elements, has none.
LEMMA SameValuesDistinct ==
  ASSUME NEW n \in Nat, NEW f, NEW g, Distinct(f, n), Values(f, n) = Values(g, n)
  PROVE  Distinct(g, n)
<1> DEFINE V == Values(g, n)
           h == [i \in 1 .. n |-> g[i]]
<1>1. IsFiniteSet(1 .. n)
  BY FS_Interval
<1>2. {i \in 1 .. n : f[i] \in V} = 1 .. n
  BY DEF Values
<1>3. Cardinality(1 .. n) = Cardinality(V)
  BY <1>2, CountedByValue
<1>4. h \in Surjection(1 .. n, V)
  <2>1. h \in [1 .. n -> V]
    BY DEF Values
  <2>2. \A x \in V : \E i \in 1 .. n : h[i] = x
    BY DEF Values
  <2> QED BY <2>1, <2>2 DEF Surjection
<1> HIDE DEF V
<1>5. h \in Injection(1 .. n, V)
  BY <1>1, <1>3, <1>4, FS_SurjSameCardinalityImpliesInj
<1> QED BY <1>5 DEF Injection, IsInjective, Distinct

\* A nonempty set of positions has a first one.
LEMMA FirstPosition ==
  ASSUME NEW n \in Nat, NEW S, S \subseteq 1 .. n, S # {}
  PROVE  \E i \in S : \A j \in S : i <= j
<1> DEFINE T == {n + 1 - i : i \in S}
<1>1. T \subseteq 1 .. n /\ T # {}
  <2>1. \A i \in 1 .. n : n + 1 - i \in 1 .. n
    OBVIOUS
  <2>2. \A i \in S : n + 1 - i \in 1 .. n
    BY <2>1
  <2> QED BY <2>2
<1>2. PICK k \in T : \A m \in T : m <= k
  <2> HIDE DEF T
  <2> QED BY <1>1, LastPosition
<1>3. PICK i \in S : k = n + 1 - i
  OBVIOUS
<1>4. \A j \in S : n + 1 - j <= n + 1 - i
  BY <1>2, <1>3
<1> QED BY <1>4

-----------------------------------------------------------------------------
(***************************************************************************)
(* Numbering the members of a set of positions: the k-th has k members up  *)
(* to it.                                                                  *)
(***************************************************************************)
UpTo(P, i) == Cardinality({j \in P : j <= i})

\* Counting up to each position numbers the chosen positions.
LEMMA Numbering ==
  ASSUME NEW n \in Nat, NEW P, P \subseteq 1 .. n
  PROVE  /\ Cardinality(P) \in Nat
         /\ \A i \in P : UpTo(P, i) \in 1 .. Cardinality(P)
         /\ \A i, j \in P : UpTo(P, i) = UpTo(P, j) => i = j
         /\ \A k \in 1 .. Cardinality(P) : \E i \in P : UpTo(P, i) = k
<1> DEFINE S(i) == {j \in P : j <= i}
           m == Cardinality(P)
           f == [i \in P |-> UpTo(P, i)]
<1>1. IsFiniteSet(P) /\ m \in Nat
  <2>1. IsFiniteSet(1 .. n)
    BY FS_Interval
  <2> QED BY <2>1, FS_Subset, FS_CardinalityType
<1>2. \A i \in P : /\ IsFiniteSet(S(i)) /\ i \in S(i)
                   /\ Cardinality(S(i)) \in Nat /\ Cardinality(S(i)) <= m
  <2> SUFFICES ASSUME NEW i \in P
               PROVE  /\ IsFiniteSet(S(i)) /\ i \in S(i)
                      /\ Cardinality(S(i)) \in Nat /\ Cardinality(S(i)) <= m
    OBVIOUS
  <2>1. S(i) \in SUBSET P /\ i \in S(i)
    OBVIOUS
  <2> QED BY <1>1, <2>1, FS_Subset, FS_CardinalityType
<1>3. \A i \in P : UpTo(P, i) \in 1 .. m
  <2> SUFFICES ASSUME NEW i \in P PROVE UpTo(P, i) \in 1 .. m
    OBVIOUS
  <2>1. S(i) # {} /\ IsFiniteSet(S(i))
    BY <1>2
  <2>2. Cardinality(S(i)) # 0
    BY <2>1, FS_EmptySet
  <2>3. UpTo(P, i) = Cardinality(S(i))
    BY DEF UpTo
  <2> QED BY <1>1, <1>2, <2>2, <2>3
<1>4. ASSUME NEW i \in P, NEW j \in P, i < j
      PROVE  UpTo(P, i) # UpTo(P, j)
  <2>1. i \in 1 .. n /\ j \in 1 .. n
    OBVIOUS
  <2>5. ~(j <= i) /\ j <= j /\ \A k \in 1 .. n : k <= i => k <= j
    BY <1>4, <2>1
  <2>6. \A k \in P : k <= i => k <= j
    BY <2>5
  <2>4. S(i) \subseteq S(j) /\ j \notin S(i) /\ j \in S(j)
    BY <2>5, <2>6
  <2>2. S(i) \in SUBSET S(j) /\ S(i) # S(j)
    BY <2>4
  <2>3. Cardinality(S(i)) # Cardinality(S(j))
    BY <1>2, <2>2, FS_Subset
  <2> QED BY <2>3 DEF UpTo
<1>5. \A i, j \in P : UpTo(P, i) = UpTo(P, j) => i = j
  <2> SUFFICES ASSUME NEW i \in P, NEW j \in P, i # j
               PROVE  UpTo(P, i) # UpTo(P, j)
    OBVIOUS
  <2>1. i < j \/ j < i
    OBVIOUS
  <2> QED BY <1>4, <2>1
<1>6. f \in Surjection(P, 1 .. m)
  <2>1. f \in Injection(P, 1 .. m)
    BY <1>3, <1>5 DEF Injection, IsInjective
  <2>2. IsFiniteSet(1 .. m) /\ Cardinality(1 .. m) = m
    BY <1>1, FS_Interval
  <2> HIDE DEF f
  <2> QED BY <2>1, <2>2, FS_Injection
<1>7. \A k \in 1 .. m : \E i \in P : f[i] = k
  <2> HIDE DEF f
  <2> QED BY <1>6 DEF Surjection
<1> QED BY <1>1, <1>3, <1>5, <1>7

-----------------------------------------------------------------------------
\* A sequence, whatever its elements.
Elements(s) == {s[i] : i \in DOMAIN s}

IsList(s) == s \in Seq(Elements(s))

\* A list is a function on the positions up to its length, and conversely.
LEMMA Lists ==
  /\ \A s : IsList(s) => Len(s) \in Nat /\ DOMAIN s = 1 .. Len(s)
  /\ \A n \in Nat : \A s : s = [i \in 1 .. n |-> s[i]] => IsList(s) /\ Len(s) = n
<1>1. ASSUME NEW s, IsList(s)
      PROVE  Len(s) \in Nat /\ DOMAIN s = 1 .. Len(s)
  BY <1>1, LenProperties DEF IsList
<1>2. ASSUME NEW n \in Nat, NEW s, s = [i \in 1 .. n |-> s[i]]
      PROVE  IsList(s) /\ Len(s) = n
  <2>1. DOMAIN s = 1 .. n
    BY <1>2
  <2>2. s \in [1 .. n -> Elements(s)]
    BY <1>2, <2>1 DEF Elements
  <2>3. IsList(s)
    BY <2>2, SeqDef DEF IsList
  <2>4. Len(s) \in Nat /\ 1 .. Len(s) = 1 .. n
    BY <2>1, <2>3, <1>1
  <2> QED BY <2>3, <2>4
<1> QED BY <1>1, <1>2

\* What appending does to a list.
LEMMA Appended ==
  ASSUME NEW S, NEW s \in Seq(S), NEW e \in S, NEW t, t = Append(s, e)
  PROVE  /\ t \in Seq(S)
         /\ DOMAIN s \subseteq DOMAIN t
         /\ \A k \in DOMAIN s : t[k] = s[k]
         /\ \E k \in DOMAIN t : t[k] = e
         /\ \A k \in DOMAIN t : k \in DOMAIN s \/ t[k] = e
         /\ \A k \in DOMAIN t : k \notin DOMAIN s => k = Len(s) + 1
         /\ Len(t) = Len(s) + 1
<1>1. Len(s) \in Nat /\ DOMAIN s = 1 .. Len(s)
  BY LenProperties
<1>2. /\ t \in Seq(S) /\ Len(t) = Len(s) + 1
      /\ \A i \in 1 .. Len(s) + 1 : t[i] = IF i <= Len(s) THEN s[i] ELSE e
  BY AppendProperties
<1>3. DOMAIN t = 1 .. Len(s) + 1
  BY <1>2, LenProperties
<1>4. Len(s) + 1 \in 1 .. Len(s) + 1 /\ ~(Len(s) + 1 <= Len(s))
  BY <1>1
<1> QED BY <1>1, <1>2, <1>3, <1>4

=============================================================================
