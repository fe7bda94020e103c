------------------------- MODULE SubsequencesProofs -------------------------
(***************************************************************************)
(* What Picked returns, for every sequence and set of positions, and the   *)
(* induction it rests on.  The library's induction theorems take an        *)
(* operator; here the hypothesis is a set, which is all the provers need.  *)
(***************************************************************************)
EXTENDS Subsequences, Integers, FiniteSetTheorems, WellFoundedInduction, TLAPS

\* Every set of naturals has a least element.
LEMMA LeastNatural ==
    ASSUME NEW S, S \subseteq Nat, S # {}
    PROVE  \E m \in S : \A n \in S : m <= n
<1> DEFINE R == OpToRel(<, Nat)
<1>1. IsWellFoundedOn(R, Nat)
  BY NatLessThanWellFounded
<1>2. \A x, y \in Nat : <<x, y>> \in R <=> x < y
  BY DEF OpToRel
<1> HIDE DEF R
<1>3. PICK m \in S : \A n \in S : ~ (<<n, m>> \in R)
  BY <1>1, WFMin
<1>4. ASSUME NEW n \in S PROVE m <= n
  <2>1. ~ (n < m) /\ m \in Nat /\ n \in Nat
    BY <1>2, <1>3
  <2> QED
    BY <2>1
<1> QED
  BY <1>4

\* Induction on the naturals for a property given as a set.
LEMMA SetInduction ==
    ASSUME NEW S \in SUBSET Nat, 0 \in S, \A n \in S : n + 1 \in S
    PROVE  S = Nat
<1> SUFFICES ASSUME Nat \ S # {} PROVE FALSE
  OBVIOUS
<1>1. PICK m \in Nat \ S : \A n \in Nat \ S : m <= n
  BY LeastNatural
<1>2. m # 0 /\ m - 1 \in Nat
  BY <1>1
<1>3. m - 1 \in S
  BY <1>1, <1>2
<1> QED
  BY <1>1, <1>2, <1>3

\* g lists I in ascending order.
Lists(g, k, I) ==
    g \in [1..k -> I] /\ Increasing(g) /\ \A i \in I : \E n \in 1..k : g[n] = i

\* Every set of positions can be listed.
LEMMA Listable ==
    ASSUME NEW l \in Nat, NEW I \in SUBSET (1..l)
    PROVE  \E k \in 0..l : \E g : Lists(g, k, I)
<1> DEFINE S == {n \in Nat : \A J \in SUBSET (1..n) : \E k \in 0..n : \E g : Lists(g, k, J)}
<1>1. 0 \in S
  <2>1. ASSUME NEW J \in SUBSET (1..0) PROVE Lists([m \in 1..0 |-> m], 0, J)
    BY DEF Lists, Increasing
  <2> QED
    BY <2>1
<1>2. ASSUME NEW n \in S PROVE n + 1 \in S
  <2> SUFFICES ASSUME NEW J \in SUBSET (1..(n + 1))
               PROVE  \E k \in 0..(n + 1) : \E g : Lists(g, k, J)
    OBVIOUS
  <2>1. J \ {n + 1} \in SUBSET (1..n) /\ n \in Nat
    OBVIOUS
  <2>2. PICK k \in 0..n : \E g : Lists(g, k, J \ {n + 1})
    BY <2>1
  <2>3. PICK g : Lists(g, k, J \ {n + 1})
    BY <2>2
  <2>4. CASE n + 1 \notin J
    <3>1. J \ {n + 1} = J
      BY <2>4
    <3> QED
      BY <2>1, <2>3, <3>1
  <2>5. CASE n + 1 \in J
    <3> DEFINE h == [m \in 1..(k + 1) |-> IF m = k + 1 THEN n + 1 ELSE g[m]]
    <3>1. h \in [1..(k + 1) -> J]
      BY <2>3, <2>5 DEF Lists
    <3>2. Increasing(h)
      <4> SUFFICES ASSUME NEW p \in 1..(k + 1), NEW q \in 1..(k + 1), p < q
                   PROVE  h[p] < h[q]
        BY <3>1 DEF Increasing
      <4>1. p \in 1..k /\ h[p] = g[p] /\ g[p] \in 1..n
        <5>1. p \in 1..k /\ p # k + 1 /\ p \in 1..(k + 1)
          BY <2>1
        <5>2. g[p] \in J \ {n + 1}
          BY <2>3, <5>1 DEF Lists
        <5>3. h[p] = g[p]
          BY <5>1
        <5> QED
          BY <2>1, <5>1, <5>2, <5>3
      <4>2. CASE q = k + 1
        BY <2>1, <4>1, <4>2
      <4>3. CASE q # k + 1
        <5>1. q \in 1..k /\ h[q] = g[q] /\ DOMAIN g = 1..k
          BY <2>3, <4>3 DEF Lists
        <5> QED
          BY <2>3, <4>1, <5>1 DEF Lists, Increasing
      <4> QED
        BY <4>2, <4>3
    <3>3. ASSUME NEW i \in J PROVE \E m \in 1..(k + 1) : h[m] = i
      <4>1. CASE i = n + 1
        <5>1. h[k + 1] = i /\ k + 1 \in 1..(k + 1)
          BY <4>1
        <5> QED
          BY <5>1
      <4>2. CASE i # n + 1
        <5>1. PICK m \in 1..k : g[m] = i
          BY <2>3, <4>2 DEF Lists
        <5>2. m \in 1..(k + 1) /\ h[m] = i
          BY <5>1
        <5> QED
          BY <5>2
      <4> QED
        BY <4>1, <4>2
    <3>4. Lists(h, k + 1, J) /\ k + 1 \in 0..(n + 1)
      <4> HIDE DEF h
      <4> QED
        BY <2>1, <3>1, <3>2, <3>3 DEF Lists
    <3> QED
      BY <3>4
  <2> QED
    BY <2>4, <2>5
<1>3. S = Nat
  BY <1>1, <1>2, SetInduction
<1> QED
  BY <1>3

\* A listing of I has as many entries as I has members.
LEMMA ListingLength ==
    ASSUME NEW k \in Nat, NEW g, NEW I \in SUBSET Nat, Lists(g, k, I)
    PROVE  IsFiniteSet(I) /\ Cardinality(I) = k
<1>1. g \in Injection(1..k, I)
  <2>1. g \in [1..k -> I]
    BY DEF Lists
  <2>2. ASSUME NEW m \in 1..k, NEW n \in 1..k, g[m] = g[n] PROVE m = n
    <3>1. g[m] \in Nat /\ g[n] \in Nat /\ DOMAIN g = 1..k
      BY <2>1
    <3>2. (m < n => g[m] < g[n]) /\ (n < m => g[n] < g[m])
      BY <3>1 DEF Lists, Increasing
    <3> QED
      BY <2>2, <3>1, <3>2
  <2> QED
    BY <2>1, <2>2, Zenon DEF Injection, IsInjective
<1>2. g \in Surjection(1..k, I)
  BY Zenon DEF Lists, Surjection
<1>3. ExistsBijection(1..k, I)
  BY <1>1, <1>2 DEF Bijection, ExistsBijection
<1> QED
  BY <1>3, FS_CountingElements, FS_NatBijection

\* Ascending lists every set of positions.
LEMMA AscendingLists ==
    ASSUME NEW l \in Nat, NEW I \in SUBSET (1..l)
    PROVE  /\ Cardinality(I) \in Nat
           /\ Lists(Ascending(I), Cardinality(I), I)
<1>1. PICK k \in 0..l : \E g : Lists(g, k, I)
  BY Listable
<1>2. PICK g : Lists(g, k, I)
  BY <1>1
<1>3. Cardinality(I) = k /\ k \in Nat /\ IsFiniteSet(I)
  BY <1>2, ListingLength
<1>4. Ascending(I) \in [1..k -> I] /\ Increasing(Ascending(I))
  <2>1. g \in [1..k -> I] /\ Increasing(g)
    BY <1>2 DEF Lists
  <2> QED
    BY <1>3, <2>1 DEF Ascending
<1> DEFINE a == Ascending(I)
<1>5. a \in [1..k -> I] /\ Increasing(a)
  BY <1>4
<1> HIDE DEF a
<1>6. a \in Injection(1..k, I)
  <2>1. ASSUME NEW m \in 1..k, NEW n \in 1..k, a[m] = a[n] PROVE m = n
    <3>1. a[m] \in Nat /\ a[n] \in Nat /\ DOMAIN a = 1..k
      <4>1. a[m] \in I /\ a[n] \in I /\ DOMAIN a = 1..k
        BY <1>5
      <4>2. \A i \in I : i \in Nat
        OBVIOUS
      <4> QED
        BY <4>1, <4>2
    <3>2. (m < n => a[m] < a[n]) /\ (n < m => a[n] < a[m])
      BY <1>5, <3>1 DEF Increasing
    <3> QED
      BY <2>1, <3>1, <3>2
  <2> QED
    BY <1>5, <2>1, Zenon DEF Injection, IsInjective
<1>7. Cardinality(1..k) = k /\ IsFiniteSet(1..k)
  BY <1>3, FS_Interval
<1>8. a \in Surjection(1..k, I)
  BY <1>3, <1>6, <1>7, FS_Injection
<1>9. \A i \in I : \E n \in 1..k : a[n] = i
  BY <1>8, Zenon DEF Surjection
<1> QED
  BY <1>3, <1>5, <1>9 DEF Lists, a

-----------------------------------------------------------------------------
(* What Picked returns.                                                    *)

\* A sequence over what s is over, as long as there are positions.
LEMMA PickedType ==
    ASSUME NEW R, NEW s \in Seq(R), NEW I \in SUBSET (1..Len(s))
    PROVE  /\ Picked(s, I) \in Seq(R)
           /\ Len(Picked(s, I)) = Cardinality(I) /\ Cardinality(I) \in Nat
<1>1. Cardinality(I) \in Nat /\ Lists(Ascending(I), Cardinality(I), I)
  BY AscendingLists, Len(s) \in Nat
<1> DEFINE k == Cardinality(I)
           g == Ascending(I)
<1>2. k \in Nat /\ g \in [1..k -> I]
  BY <1>1 DEF Lists
<1>3. Picked(s, I) = [n \in 1..k |-> s[g[n]]]
  BY DEF Picked
<1> HIDE DEF k, g
<1>4. ASSUME NEW n \in 1..k PROVE s[g[n]] \in R
  <2>1. g[n] \in 1..Len(s)
    BY <1>2
  <2> QED
    BY <2>1
<1>5. [n \in 1..k |-> s[g[n]]] \in Seq(R) /\ Len([n \in 1..k |-> s[g[n]]]) = k
  BY <1>2, <1>4
<1> QED
  BY <1>2, <1>3, <1>5 DEF k

\* Its elements are those at the positions, in their order.
LEMMA PickedElements ==
    ASSUME NEW R, NEW s \in Seq(R), NEW I \in SUBSET (1..Len(s))
    PROVE  /\ \A n \in 1..Len(Picked(s, I)) : \E i \in I : Picked(s, I)[n] = s[i]
           /\ \A i \in I : \E n \in 1..Len(Picked(s, I)) : Picked(s, I)[n] = s[i]
           /\ \A m, n \in 1..Len(Picked(s, I)) : m < n =>
                  \E i, j \in I : i < j /\ Picked(s, I)[m] = s[i] /\ Picked(s, I)[n] = s[j]
<1>1. Cardinality(I) \in Nat /\ Lists(Ascending(I), Cardinality(I), I)
  BY AscendingLists, Len(s) \in Nat
<1>2. Len(Picked(s, I)) = Cardinality(I)
  BY PickedType
<1> DEFINE k == Cardinality(I)
           g == Ascending(I)
           p == Picked(s, I)
<1>3. /\ g \in [1..k -> I]
      /\ \A m, n \in 1..k : m < n => g[m] < g[n]
      /\ \A i \in I : \E n \in 1..k : g[n] = i
  BY <1>1 DEF Lists, Increasing
<1>4. p = [n \in 1..k |-> s[g[n]]]
  BY DEF Picked
<1> HIDE DEF k, g, p
<1>5. \A n \in 1..k : p[n] = s[g[n]] /\ g[n] \in I
  BY <1>3, <1>4
<1>6. ASSUME NEW i \in I PROVE \E n \in 1..k : p[n] = s[i]
  <2>1. PICK n \in 1..k : g[n] = i
    BY <1>3
  <2> QED
    BY <1>5, <2>1
<1>7. ASSUME NEW m \in 1..k, NEW n \in 1..k, m < n
      PROVE  \E i, j \in I : i < j /\ p[m] = s[i] /\ p[n] = s[j]
  <2>1. g[m] < g[n]
    BY <1>3, <1>7
  <2> QED
    BY <1>5, <2>1
<1>8. Len(p) = k
  BY <1>2 DEF k, p
<1>9. \A n \in 1..Len(p) : \E i \in I : p[n] = s[i]
  BY <1>5, <1>8
<1>10. \A i \in I : \E n \in 1..Len(p) : p[n] = s[i]
  BY <1>6, <1>8
<1>11. \A m, n \in 1..Len(p) : m < n => \E i, j \in I : i < j /\ p[m] = s[i] /\ p[n] = s[j]
  BY <1>7, <1>8
<1> QED
  BY <1>9, <1>10, <1>11 DEF p

-----------------------------------------------------------------------------
(* Counting.                                                               *)

\* A sequence without repetitions whose elements all occur in another is no longer.
LEMMA NoLonger ==
    ASSUME NEW R, NEW s \in Seq(R), NEW t \in Seq(R),
           \A m, n \in 1..Len(t) : t[m] = t[n] => m = n,
           \A n \in 1..Len(t) : \E i \in 1..Len(s) : t[n] = s[i]
    PROVE  Len(t) <= Len(s)
<1> DEFINE f == [n \in 1..Len(t) |-> CHOOSE i \in 1..Len(s) : t[n] = s[i]]
<1>1. \A n \in 1..Len(t) : f[n] \in 1..Len(s) /\ t[n] = s[f[n]]
  OBVIOUS
<1>2. f \in [1..Len(t) -> 1..Len(s)]
  BY <1>1
<1> HIDE DEF f
<1>3. \A m, n \in 1..Len(t) : f[m] = f[n] => m = n
  BY <1>1
<1>4. f \in Injection(1..Len(t), 1..Len(s))
  BY <1>2, <1>3, Zenon DEF Injection, IsInjective
<1>5. /\ IsFiniteSet(1..Len(s)) /\ Cardinality(1..Len(s)) = Len(s)
      /\ Cardinality(1..Len(t)) = Len(t)
  <2>1. \A l \in Nat : IsFiniteSet(1..l) /\ Cardinality(1..l) = l
    BY FS_Interval
  <2> QED
    BY <2>1
<1> QED
  BY <1>4, <1>5, FS_Injection
=============================================================================
