---------------------------- MODULE PickingProofs ----------------------------
(***************************************************************************)
(* Lemmas about Picked, for any sequence, about the parts of a sequence,   *)
(* and about numbers and finite sets.  What is proved by induction goes by *)
(* the least element of a set.                                             *)
(***************************************************************************)
EXTENDS Picking, Integers, FiniteSets, FiniteSetTheorems, SequenceTheorems,
        WellFoundedInduction, TLAPS

----------------------------------------------------------------------------
(* Natural numbers and finite sets                                         *)

\* A set of natural numbers that is not empty has a least one
LEMMA LeastNumber ==
    ASSUME NEW T, T \subseteq Nat, T # {}
    PROVE  \E n \in T : \A m \in T : n <= m
<1> DEFINE R == OpToRel(<, Nat)
<1>1. IsWellFoundedOn(R, Nat)
  BY NatLessThanWellFounded
<1>2. \A n, m \in Nat : <<m, n>> \in R <=> m < n
  BY DEF OpToRel
<1> HIDE DEF R
<1>3. PICK n \in T : \A m \in T : ~ (<<m, n>> \in R)
  BY <1>1, WFMin, Zenon
<1>4. \A m \in T : ~ (m < n)
  BY <1>2, <1>3
<1> QED
  BY <1>4

\* What holds of 0 and of the next number up to some N holds up to N
LEMMA UpTo ==
    ASSUME NEW N \in Nat, NEW S, 0 \in S, \A n \in 0 .. N : n \in S /\ n < N => n + 1 \in S
    PROVE  \A n \in 0 .. N : n \in S
<1> SUFFICES ASSUME (0 .. N) \ S # {} PROVE FALSE
  OBVIOUS
<1>1. PICK n \in (0 .. N) \ S : \A m \in (0 .. N) \ S : n <= m
  <2>1. (0 .. N) \ S \subseteq Nat
    OBVIOUS
  <2> QED
    BY <2>1, LeastNumber
<1>2. n - 1 \in 0 .. N /\ n - 1 \in S
  BY <1>1
<1> QED
  BY <1>1, <1>2

\* The numbers up to N are N
LEMMA UpToCount ==
    ASSUME NEW N \in Nat
    PROVE  /\ IsFiniteSet(1 .. N) /\ Cardinality(1 .. N) = N
           /\ \A P \in SUBSET (1 .. N) : IsFiniteSet(P) /\ Cardinality(P) \in Nat
<1>1. IsFiniteSet(1 .. N) /\ Cardinality(1 .. N) = N
  <2>1. 1 \in Int /\ N \in Int /\ (IF 1 > N THEN 0 ELSE N - 1 + 1) = N
    OBVIOUS
  <2> QED
    BY <2>1, FS_Interval
<1> QED
  BY <1>1, FS_Subset, FS_CardinalityType

----------------------------------------------------------------------------
(* The elements of a sequence at some positions                                   *)

\* first is the function that Picked defines
FirstPicked(m, positions, first) ==
    first = [n \in 0 .. Len(m) |->
               IF n = 0 THEN << >>
               ELSE IF n \in positions THEN Append(first[n - 1], m[n]) ELSE first[n - 1]]

\* The function exists
LEMMA PickedExists ==
    ASSUME NEW T, NEW m \in Seq(T), NEW positions
    PROVE  \E first : FirstPicked(m, positions, first)
<1> DEFINE N == Len(m)
           Upto(n, f) == \A k \in 0 .. n :
              f[k] = IF k = 0 THEN << >>
                     ELSE IF k \in positions THEN Append(f[k - 1], m[k]) ELSE f[k - 1]
           S == {n \in 0 .. N : \E f \in [0 .. n -> Seq(T)] : Upto(n, f)}
<1>0. N \in Nat
  OBVIOUS
<1>1. 0 \in S
  <2> DEFINE f == [k \in 0 .. 0 |-> << >>]
  <2>1. f \in [0 .. 0 -> Seq(T)] /\ Upto(0, f)
    OBVIOUS
  <2> HIDE DEF Upto, f
  <2> QED
    BY <1>0, <2>1
<1>2. ASSUME NEW n \in 0 .. N, n \in S, n < N PROVE n + 1 \in S
  <2>1. PICK f \in [0 .. n -> Seq(T)] : Upto(n, f)
    BY <1>2
  <2> DEFINE x == IF n + 1 \in positions THEN Append(f[n], m[n + 1]) ELSE f[n]
             g == [k \in 0 .. n + 1 |-> IF k = n + 1 THEN x ELSE f[k]]
  <2>2. m[n + 1] \in T /\ f[n] \in Seq(T)
    BY <1>2
  <2>3. x \in Seq(T)
    BY <2>2
  <2>4. /\ g \in [0 .. n + 1 -> Seq(T)]
        /\ g[n + 1] = x /\ \A k \in 0 .. n : g[k] = f[k]
    BY <2>3
  <2>5. n \in Nat
    OBVIOUS
  <2> HIDE DEF g
  <2>6. Upto(n + 1, g)
    <3> SUFFICES ASSUME NEW k \in 0 .. n + 1
                 PROVE  g[k] = IF k = 0 THEN << >>
                               ELSE IF k \in positions THEN Append(g[k - 1], m[k]) ELSE g[k - 1]
      OBVIOUS
    <3>1. CASE k = n + 1
      BY <2>4, <2>5, <3>1
    <3>2. CASE k # n + 1
      <4>1. k \in 0 .. n /\ (k # 0 => k - 1 \in 0 .. n)
        BY <2>5, <3>2
      <4>2. g[k] = f[k] /\ (k # 0 => g[k - 1] = f[k - 1])
        BY <2>4, <4>1
      <4> QED
        BY <2>1, <4>1, <4>2
    <3> QED
      BY <3>1, <3>2
  <2>7. n + 1 \in 0 .. N
    BY <1>2
  <2> HIDE DEF Upto
  <2> QED
    BY <2>4, <2>6, <2>7
<1>3. N \in S
  <2> HIDE DEF S, N
  <2>1. \A n \in 0 .. N : n \in S
    BY <1>0, <1>1, <1>2, UpTo
  <2> QED
    BY <1>0, <2>1
<1>4. PICK f \in [0 .. N -> Seq(T)] : Upto(N, f)
  BY <1>3
<1>5. FirstPicked(m, positions, f)
  BY <1>4 DEF FirstPicked
<1> QED
  BY <1>5

\* Picked, step by step
LEMMA PickedSteps ==
    ASSUME NEW T, NEW m \in Seq(T), NEW positions
    PROVE  \E first : FirstPicked(m, positions, first) /\ Picked(m, positions) = first[Len(m)]
<1> DEFINE F == CHOOSE first : FirstPicked(m, positions, first)
<1>1. FirstPicked(m, positions, F)
  BY PickedExists
<1>2. Picked(m, positions) = F[Len(m)]
  BY DEF Picked, FirstPicked
<1> QED
  BY <1>1, <1>2

\* The elements of s are those of m at some positions, in their order: g tells
\* where each comes from
Comes(s, m, positions, g) ==
    /\ g \in [1 .. Len(s) -> positions]
    /\ \A k, l \in 1 .. Len(s) : k < l => g[k] < g[l]
    /\ \A n \in positions : \E k \in 1 .. Len(s) : g[k] = n
    /\ \A k \in 1 .. Len(s) : s[k] = m[g[k]]

LEMMA PickedComes ==
    ASSUME NEW T, NEW m \in Seq(T), NEW positions, positions \subseteq 1 .. Len(m)
    PROVE  /\ Picked(m, positions) \in Seq(T)
           /\ \E g : Comes(Picked(m, positions), m, positions, g)
<1>1. PICK first : FirstPicked(m, positions, first) /\ Picked(m, positions) = first[Len(m)]
  BY PickedSteps
<1> DEFINE N == Len(m)
           Good(n) == /\ first[n] \in Seq(T)
                      /\ \E g : Comes(first[n], m, positions \cap 1 .. n, g)
           S == {n \in 0 .. N : Good(n)}
<1>0. N \in Nat
  OBVIOUS
<1>2. 0 \in S
  <2>1. first[0] = << >>
    BY <1>1 DEF FirstPicked
  <2>2. positions \cap 1 .. 0 = {}
    OBVIOUS
  <2>3. Comes(<< >>, m, {}, [k \in {} |-> 0])
    <3>1. 1 .. Len(<< >>) = {}
      OBVIOUS
    <3> QED
      BY <3>1 DEF Comes
  <2>4. Good(0)
    BY <2>1, <2>2, <2>3, EmptySeq
  <2> HIDE DEF Good
  <2> QED
    BY <1>0, <2>4
<1>3. ASSUME NEW n \in 0 .. N, n \in S, n < N PROVE n + 1 \in S
  <2>0. n \in Nat /\ n + 1 \in 1 .. N /\ m[n + 1] \in T
    BY <1>3
  <2>5. first[n + 1] = IF n + 1 \in positions THEN Append(first[n], m[n + 1]) ELSE first[n]
    <3>1. \A k \in 0 .. N : first[k] =
             IF k = 0 THEN << >>
             ELSE IF k \in positions THEN Append(first[k - 1], m[k]) ELSE first[k - 1]
      BY <1>1, Zenon DEF FirstPicked
    <3>2. n + 1 \in 0 .. N /\ n + 1 # 0 /\ (n + 1) - 1 = n
      BY <2>0
    <3> HIDE DEF N
    <3>3. first[n + 1] =
             IF n + 1 = 0 THEN << >>
             ELSE IF n + 1 \in positions THEN Append(first[(n + 1) - 1], m[n + 1])
             ELSE first[(n + 1) - 1]
      BY <3>1, <3>2
    <3> QED
      BY <3>2, <3>3
  <2>1. PICK g : Comes(first[n], m, positions \cap 1 .. n, g)
    BY <1>3
  <2>2. first[n] \in Seq(T)
    BY <1>3
  <2>3. CASE n + 1 \notin positions
    <3>1. first[n + 1] = first[n]
      BY <2>5, <2>3
    <3>2. positions \cap 1 .. n + 1 = positions \cap 1 .. n
      BY <2>0, <2>3
    <3>3. Good(n + 1)
      BY <2>1, <2>2, <3>1, <3>2
    <3> HIDE DEF Good
    <3> QED
      BY <2>0, <3>3
  <2>4. CASE n + 1 \in positions
    <3> DEFINE s == first[n]
               L == Len(s)
               t == first[n + 1]
               h == [k \in 1 .. L + 1 |-> IF k = L + 1 THEN n + 1 ELSE g[k]]
    <3>1. t = Append(s, m[n + 1])
      BY <2>5, <2>4
    <3>2. /\ t \in Seq(T) /\ Len(t) = L + 1 /\ L \in Nat
          /\ t[L + 1] = m[n + 1] /\ \A k \in 1 .. L : t[k] = s[k]
      BY <2>0, <2>2, <3>1
    <3>3. /\ h[L + 1] = n + 1 /\ \A k \in 1 .. L : h[k] = g[k]
          /\ DOMAIN h = 1 .. L + 1
          /\ h = [k \in 1 .. L + 1 |-> h[k]]
      BY <3>2
    <3> HIDE DEF h, t, s
    <3>4. Comes(s, m, positions \cap 1 .. n, g)
      BY <2>1 DEF s
    <3> HIDE DEF L
    <3>5. /\ \A k \in 1 .. L : g[k] \in positions /\ g[k] \in 1 .. n
          /\ \A k, l \in 1 .. L : k < l => g[k] < g[l]
          /\ \A i \in positions \cap 1 .. n : \E k \in 1 .. L : g[k] = i
          /\ \A k \in 1 .. L : s[k] = m[g[k]]
      BY <3>4 DEF Comes, L
    <3>6. \A k \in 1 .. L + 1 : k \in 1 .. L \/ k = L + 1
      BY <3>2
    <3>7. h \in [1 .. L + 1 -> positions \cap 1 .. n + 1]
      <4>1. \A k \in 1 .. L + 1 : h[k] \in positions \cap 1 .. n + 1
        BY <2>0, <2>4, <3>3, <3>5, <3>6
      <4> QED
        BY <3>3, <4>1
    <3>8. \A k, l \in 1 .. L + 1 : k < l => h[k] < h[l]
      <4> SUFFICES ASSUME NEW k \in 1 .. L + 1, NEW l \in 1 .. L + 1, k < l
                   PROVE  h[k] < h[l]
        OBVIOUS
      <4>1. k \in 1 .. L
        BY <3>2
      <4>2. CASE l = L + 1
        <5>1. h[k] = g[k] /\ h[l] = n + 1
          BY <3>3, <4>1, <4>2
        <5>2. g[k] \in 1 .. n
          BY <3>5, <4>1
        <5> QED
          BY <2>0, <5>1, <5>2
      <4>3. CASE l \in 1 .. L
        BY <3>3, <3>5, <4>1, <4>3
      <4> QED
        BY <3>6, <4>2, <4>3
    <3>9. \A i \in positions \cap 1 .. n + 1 : \E k \in 1 .. L + 1 : h[k] = i
      <4> SUFFICES ASSUME NEW i \in positions \cap 1 .. n + 1
                   PROVE  \E k \in 1 .. L + 1 : h[k] = i
        OBVIOUS
      <4>1. CASE i = n + 1
        <5>1. L + 1 \in 1 .. L + 1
          BY <3>2
        <5> QED
          BY <3>3, <4>1, <5>1
      <4>2. CASE i # n + 1
        <5>1. i \in positions \cap 1 .. n
          BY <2>0, <4>2
        <5>2. PICK k \in 1 .. L : g[k] = i
          BY <3>5, <5>1
        <5>3. h[k] = i
          BY <3>3, <5>2
        <5>4. k \in 1 .. L + 1
          BY <3>2
        <5> QED
          BY <5>3, <5>4
      <4> QED
        BY <4>1, <4>2
    <3>10. \A k \in 1 .. L + 1 : t[k] = m[h[k]]
      BY <3>2, <3>3, <3>5, <3>6
    <3>11. Comes(t, m, positions \cap 1 .. n + 1, h)
      BY <3>2, <3>7, <3>8, <3>9, <3>10 DEF Comes
    <3> QED
      BY <2>0, <3>2, <3>11 DEF t
  <2> QED
    BY <2>3, <2>4
<1>4. N \in S
  <2> HIDE DEF S, N
  <2>1. \A n \in 0 .. N : n \in S
    BY <1>0, <1>2, <1>3, UpTo
  <2> QED
    BY <1>0, <2>1
<1>5. positions \cap 1 .. N = positions
  OBVIOUS
<1> QED
  BY <1>1, <1>4, <1>5

\* A function that is one-to-one and onto keeps the number of elements
LEMMA SameNumber ==
    ASSUME NEW S, NEW T, NEW g, IsFiniteSet(T), \A x \in S : g[x] \in T,
           \A x, y \in S : g[x] = g[y] => x = y, \A z \in T : \E x \in S : g[x] = z
    PROVE  IsFiniteSet(S) /\ Cardinality(S) = Cardinality(T)
<1> DEFINE f == [x \in S |-> g[x]]
<1>1. f \in [S -> T] /\ \A x \in S : f[x] = g[x]
  OBVIOUS
<1> HIDE DEF f
<1>2. f \in Injection(S, T) /\ f \in Surjection(S, T)
  BY <1>1 DEF Injection, Surjection, IsInjective
<1> QED
  BY <1>2, FS_Injection

\* Rising functions are one-to-one
LEMMA ComesInjective ==
    ASSUME NEW T, NEW s \in Seq(T), NEW m \in Seq(T), NEW positions \in SUBSET (1 .. Len(m)),
           NEW g, Comes(s, m, positions, g),
           NEW k \in 1 .. Len(s), NEW l \in 1 .. Len(s), g[k] = g[l]
    PROVE  k = l
<1>1. g[k] \in Nat /\ ~ (g[k] < g[l]) /\ ~ (g[l] < g[k])
  BY DEF Comes
<1>2. ~ (k < l) /\ ~ (l < k)
  BY <1>1 DEF Comes
<1> QED
  BY <1>2

\* As many elements of s as of m at the same positions
LEMMA ComesCount ==
    ASSUME NEW T, NEW s \in Seq(T), NEW m \in Seq(T), NEW positions \in SUBSET (1 .. Len(m)),
           NEW g, Comes(s, m, positions, g)
    PROVE  /\ IsFiniteSet(positions) /\ Len(s) = Cardinality(positions)
           /\ \A A \in SUBSET positions :
                 /\ Cardinality({k \in 1 .. Len(s) : g[k] \in A}) = Cardinality(A)
                 /\ IsFiniteSet(A) /\ Cardinality(A) \in Nat
<1>0. Len(s) \in Nat /\ Len(m) \in Nat
  OBVIOUS
<1>1. IsFiniteSet(positions)
  BY <1>0, UpToCount
<1>2. ASSUME NEW A \in SUBSET positions
      PROVE  /\ Cardinality({k \in 1 .. Len(s) : g[k] \in A}) = Cardinality(A)
             /\ IsFiniteSet(A) /\ Cardinality(A) \in Nat
  <2> DEFINE B == {k \in 1 .. Len(s) : g[k] \in A}
  <2>1. IsFiniteSet(A) /\ Cardinality(A) \in Nat
    BY <1>1, FS_Subset, FS_CardinalityType
  <2>2. \A x, y \in B : g[x] = g[y] => x = y
    BY ComesInjective
  <2>3. \A x \in B : g[x] \in A
    OBVIOUS
  <2>4. \A z \in A : \E x \in B : g[x] = z
    BY DEF Comes
  <2> HIDE DEF B
  <2>5. Cardinality(B) = Cardinality(A)
    BY <2>1, <2>2, <2>3, <2>4, SameNumber
  <2> QED
    BY <2>1, <2>5 DEF B
<1>3. Len(s) = Cardinality(positions)
  <2>1. {k \in 1 .. Len(s) : g[k] \in positions} = 1 .. Len(s)
    BY DEF Comes
  <2>2. Cardinality(1 .. Len(s)) = Len(s)
    BY <1>0, UpToCount
  <2> QED
    BY <1>2, <2>1, <2>2
<1> QED
  BY <1>1, <1>2, <1>3

\* Elements that are dropped move what follows them, by no more than their number
LEMMA ComesShift ==
    ASSUME NEW T, NEW s \in Seq(T), NEW m \in Seq(T), NEW positions \in SUBSET (1 .. Len(m)),
           NEW g, Comes(s, m, positions, g), NEW k \in 1 .. Len(s)
    PROVE  g[k] \in 1 .. Len(m) /\ g[k] <= k + (Len(m) - Len(s))
<1> DEFINE A == {n \in positions : n <= g[k]}
           C == (1 .. g[k]) \ A
           D == (1 .. Len(m)) \ positions
<1>0. g[k] \in 1 .. Len(m) /\ Len(m) \in Nat /\ Len(s) \in Nat /\ g[k] \in Nat
  <2>1. g[k] \in positions /\ positions \subseteq 1 .. Len(m)
    BY DEF Comes
  <2>2. Len(m) \in Nat /\ Len(s) \in Nat
    OBVIOUS
  <2>3. g[k] \in 1 .. Len(m)
    BY <2>1
  <2> QED
    BY <2>2, <2>3
<1>1. /\ IsFiniteSet(1 .. Len(m)) /\ IsFiniteSet(positions) /\ IsFiniteSet(D)
      /\ IsFiniteSet(A)
  <2>1. D \in SUBSET (1 .. Len(m)) /\ A \in SUBSET (1 .. Len(m))
    OBVIOUS
  <2> QED
    BY <1>0, <2>1, UpToCount
<1>2. Cardinality(A) = k
  <2>1. \A l \in 1 .. k : l \in 1 .. Len(s)
    BY <1>0
  <2>2. \A l \in 1 .. k : g[l] \in A
    <3> SUFFICES ASSUME NEW l \in 1 .. k PROVE g[l] \in A
      OBVIOUS
    <3>1. l = k \/ g[l] < g[k]
      BY <2>1 DEF Comes
    <3>2. g[l] \in positions /\ g[l] \in Nat /\ g[k] \in Nat
      <4>1. g[l] \in positions /\ positions \subseteq Nat
        BY <2>1 DEF Comes
      <4>2. g[l] \in Nat
        BY <4>1
      <4> QED
        BY <1>0, <4>1, <4>2
    <3> QED
      BY <3>1, <3>2
  <2>3. \A n \in A : \E l \in 1 .. k : g[l] = n
    <3> SUFFICES ASSUME NEW n \in A PROVE \E l \in 1 .. k : g[l] = n
      OBVIOUS
    <3>1. PICK l \in 1 .. Len(s) : g[l] = n
      BY DEF Comes
    <3>2. ~ (k < l)
      <4>1. n <= g[k] /\ n \in Nat /\ g[k] \in Nat
        BY <1>0
      <4>2. k < l => g[k] < g[l]
        BY DEF Comes
      <4> QED
        BY <3>1, <4>1, <4>2
    <3>3. l \in 1 .. k
      BY <1>0, <3>2
    <3> QED
      BY <3>1, <3>3
  <2>4. \A x, y \in 1 .. k : g[x] = g[y] => x = y
    BY <2>1, ComesInjective
  <2> HIDE DEF A
  <2>5. Cardinality(1 .. k) = Cardinality(A)
    BY <1>1, <2>2, <2>3, <2>4, SameNumber
  <2> QED
    BY <1>0, <2>5, UpToCount
<1>3. Cardinality(C) = g[k] - k
  <2>1. (1 .. g[k]) \cap A = A
    <3>1. \A n \in A : n \in 1 .. g[k]
      BY <1>0
    <3> QED
      BY <3>1
  <2>2. Cardinality(1 .. g[k]) = g[k] /\ IsFiniteSet(1 .. g[k])
    BY <1>0, UpToCount
  <2> HIDE DEF A
  <2>3. Cardinality(C) = Cardinality(1 .. g[k]) - Cardinality((1 .. g[k]) \cap A)
    BY <2>2, FS_Difference
  <2> QED
    BY <1>2, <2>1, <2>2, <2>3
<1>4. Cardinality(D) = Len(m) - Len(s)
  <2>1. (1 .. Len(m)) \cap positions = positions
    OBVIOUS
  <2>2. Cardinality(1 .. Len(m)) = Len(m)
    BY <1>0, UpToCount
  <2>3. Cardinality(positions) = Len(s)
    BY ComesCount
  <2>4. Cardinality(D) = Cardinality(1 .. Len(m)) - Cardinality((1 .. Len(m)) \cap positions)
    BY <1>1, FS_Difference
  <2> QED
    BY <2>1, <2>2, <2>3, <2>4
<1>5. Cardinality(C) <= Cardinality(D)
  <2>1. C \subseteq D
    BY <1>0
  <2> HIDE DEF C, D
  <2> QED
    BY <1>1, <2>1, FS_Subset
<1> HIDE DEF C, D
<1> QED
  BY <1>0, <1>3, <1>4, <1>5

----------------------------------------------------------------------------
(* The elements of a sequence that are in a set                            *)

Keep(s, S) == Picked(s, {n \in DOMAIN s : s[n] \in S})

\* What is picked from a sequence depends on the elements up to there alone
LEMMA PickedAlike ==
    ASSUME NEW T, NEW s \in Seq(T), NEW t \in Seq(T), NEW P, NEW Q, NEW f, NEW g,
           FirstPicked(s, P, f), FirstPicked(t, Q, g), Len(s) <= Len(t),
           \A n \in 1 .. Len(s) : t[n] = s[n] /\ (n \in P <=> n \in Q)
    PROVE  f[Len(s)] = g[Len(s)]
<1> DEFINE L == Len(s)
           M == Len(t)
           S == {n \in 0 .. L : f[n] = g[n]}
<1>1. L \in Nat /\ M \in Nat /\ L <= M
  OBVIOUS
<1>2. \A n \in 0 .. L : f[n] = IF n = 0 THEN << >>
                               ELSE IF n \in P THEN Append(f[n - 1], s[n]) ELSE f[n - 1]
  BY Zenon DEF FirstPicked
<1>3. \A n \in 0 .. M : g[n] = IF n = 0 THEN << >>
                               ELSE IF n \in Q THEN Append(g[n - 1], t[n]) ELSE g[n - 1]
  BY Zenon DEF FirstPicked
<1>4. \A n \in 1 .. L : t[n] = s[n] /\ (n \in P <=> n \in Q)
  OBVIOUS
<1> HIDE DEF L, M
<1>5. 0 \in S
  BY <1>1, <1>2, <1>3
<1>6. ASSUME NEW n \in 0 .. L, n \in S, n < L PROVE n + 1 \in S
  <2>1. n + 1 \in 0 .. L /\ n + 1 \in 0 .. M /\ n + 1 \in 1 .. L /\ n + 1 # 0 /\ (n + 1) - 1 = n
    BY <1>1, <1>6
  <2>2. f[n + 1] = IF n + 1 \in P THEN Append(f[n], s[n + 1]) ELSE f[n]
    BY <1>2, <2>1
  <2>3. g[n + 1] = IF n + 1 \in Q THEN Append(g[n], t[n + 1]) ELSE g[n]
    BY <1>3, <2>1
  <2> QED
    BY <1>4, <1>6, <2>1, <2>2, <2>3
<1> HIDE DEF S
<1>7. \A n \in 0 .. L : n \in S
  BY <1>1, <1>5, <1>6, UpTo
<1>8. L \in 0 .. L
  BY <1>1
<1> QED
  BY <1>7, <1>8 DEF S, L

LEMMA ConcatAppend ==
    ASSUME NEW T, NEW s \in Seq(T), NEW t \in Seq(T), NEW e \in T
    PROVE  s \o Append(t, e) = Append(s \o t, e)
<1> DEFINE u == <<e>>
<1>1. u \in Seq(T)
  OBVIOUS
<1>2. s \o t \in Seq(T)
  BY ConcatProperties
<1>3. Append(t, e) = t \o u /\ Append(s \o t, e) = (s \o t) \o u
  BY <1>2, AppendIsConcat
<1> HIDE DEF u
<1>4. (s \o t) \o u = s \o (t \o u)
  BY <1>1, ConcatAssociative
<1> QED
  BY <1>3, <1>4

LEMMA KeepNone ==
    ASSUME NEW S
    PROVE  Keep(<< >>, S) = << >>
<1> DEFINE P == {n \in DOMAIN << >> : << >>[n] \in S}
<1>1. << >> \in Seq({})
  OBVIOUS
<1>2. PICK f : FirstPicked(<< >>, P, f) /\ Picked(<< >>, P) = f[Len(<< >>)]
  BY <1>1, PickedSteps
<1>3. f[0] = << >>
  BY <1>2 DEF FirstPicked
<1> QED
  BY <1>2, <1>3 DEF Keep

LEMMA KeepAppend ==
    ASSUME NEW T, NEW s \in Seq(T), NEW e \in T, NEW S
    PROVE  Keep(Append(s, e), S) = IF e \in S THEN Append(Keep(s, S), e) ELSE Keep(s, S)
<1> DEFINE t == Append(s, e)
           P == {n \in DOMAIN s : s[n] \in S}
           Q == {n \in DOMAIN t : t[n] \in S}
           L == Len(s)
<1>1. /\ t \in Seq(T) /\ Len(t) = L + 1 /\ L \in Nat /\ t[L + 1] = e
      /\ DOMAIN s = 1 .. L /\ DOMAIN t = 1 .. L + 1
      /\ \A n \in 1 .. L : t[n] = s[n]
  BY AppendProperties
<1> HIDE DEF t
<1>2. PICK f : FirstPicked(s, P, f) /\ Picked(s, P) = f[L]
  BY PickedSteps
<1>3. PICK g : FirstPicked(t, Q, g) /\ Picked(t, Q) = g[L + 1]
  BY <1>1, PickedSteps
<1>4. \A n \in 1 .. L : n \in P <=> n \in Q
  BY <1>1
<1>5. L + 1 \in Q <=> e \in S
  BY <1>1
<1>6. Keep(s, S) = Picked(s, P) /\ Keep(t, S) = Picked(t, Q)
  BY DEF Keep
<1> HIDE DEF P, Q
<1>7. f[L] = g[L]
  <2>1. Len(s) <= Len(t)
    BY <1>1
  <2> QED
    BY <1>1, <1>2, <1>3, <1>4, <2>1, PickedAlike
<1>8. g[L + 1] = IF L + 1 \in Q THEN Append(g[L], t[L + 1]) ELSE g[L]
  <2>1. \A n \in 0 .. L + 1 : g[n] = IF n = 0 THEN << >>
                               ELSE IF n \in Q THEN Append(g[n - 1], t[n]) ELSE g[n - 1]
    BY <1>1, <1>3, Zenon DEF FirstPicked
  <2>2. L + 1 \in 0 .. L + 1 /\ L + 1 # 0 /\ (L + 1) - 1 = L
    BY <1>1
  <2> HIDE DEF L
  <2> QED
    BY <2>1, <2>2
<1>9. Keep(t, S) = IF e \in S THEN Append(Keep(s, S), e) ELSE Keep(s, S)
  BY <1>1, <1>2, <1>3, <1>5, <1>6, <1>7, <1>8
<1> QED
  BY <1>9 DEF t

LEMMA KeepIs ==
    ASSUME NEW T, NEW s \in Seq(T), NEW S
    PROVE  Keep(s, S) \in Seq(T)
<1> DEFINE P == {n \in DOMAIN s : s[n] \in S}
<1>1. P \subseteq 1 .. Len(s)
  OBVIOUS
<1> HIDE DEF P
<1>2. Picked(s, P) \in Seq(T)
  BY <1>1, PickedComes
<1> QED
  BY <1>2 DEF Keep, P

LEMMA KeepOne ==
    ASSUME NEW e, NEW S
    PROVE  Keep(<<e>>, S) = IF e \in S THEN <<e>> ELSE << >>
<1>1. << >> \in Seq({e}) /\ e \in {e} /\ Append(<< >>, e) = <<e>>
  OBVIOUS
<1>2. Keep(Append(<< >>, e), S) = IF e \in S THEN Append(Keep(<< >>, S), e) ELSE Keep(<< >>, S)
  BY <1>1, KeepAppend
<1> QED
  BY <1>1, <1>2, KeepNone

\* What is kept of two sequences put together is what is kept of each
LEMMA KeepConcat ==
    ASSUME NEW T, NEW s \in Seq(T), NEW t \in Seq(T), NEW S
    PROVE  Keep(s \o t, S) = Keep(s, S) \o Keep(t, S)
<1> DEFINE L == Len(t)
           First(n) == SubSeq(t, 1, n)
           Good == {n \in 0 .. L : Keep(s \o First(n), S) = Keep(s, S) \o Keep(First(n), S)}
<1>1. L \in Nat /\ Keep(s, S) \in Seq(T)
  BY KeepIs
<1>2. First(0) = << >> /\ First(L) = t
  BY SubSeqEmpty, SubSeqFull
<1>3. \A n \in 0 .. L : First(n) \in Seq(T)
  OBVIOUS
<1>4. \A n \in 0 .. L : n < L => n + 1 \in 0 .. L /\ t[n + 1] \in T
                                 /\ First(n + 1) = Append(First(n), t[n + 1])
  <2> SUFFICES ASSUME NEW n \in 0 .. L, n < L
               PROVE  /\ n + 1 \in 0 .. L /\ t[n + 1] \in T
                      /\ First(n + 1) = Append(First(n), t[n + 1])
    OBVIOUS
  <2>1. n + 1 \in 1 .. L /\ 1 \in 1 .. L + 1 /\ 1 <= n + 1 /\ n + 1 <= L
    BY <1>1
  <2> QED
    BY <1>1, <2>1, SubSeqRecursiveSecond
<1> HIDE DEF L, First
<1>5. 0 \in Good
  <2>1. s \o First(0) = s /\ Keep(s, S) \o << >> = Keep(s, S)
    BY <1>1, <1>2, ConcatEmptySeq
  <2>2. Keep(s \o First(0), S) = Keep(s, S) \o Keep(First(0), S)
    BY <1>2, <2>1, KeepNone
  <2> QED
    BY <1>1, <2>2
<1>6. ASSUME NEW n \in 0 .. L, n \in Good, n < L PROVE n + 1 \in Good
  <2> DEFINE a == First(n)
             e == t[n + 1]
             k == Keep(s, S)
             l == Keep(a, S)
  <2>1. First(n + 1) = Append(a, e) /\ a \in Seq(T) /\ e \in T /\ n + 1 \in 0 .. L
    BY <1>3, <1>4, <1>6
  <2>2. Keep(s \o a, S) = k \o l
    BY <1>6
  <2> HIDE DEF a, e
  <2>3. s \o Append(a, e) = Append(s \o a, e) /\ s \o a \in Seq(T)
    BY <2>1, ConcatAppend, ConcatProperties
  <2>4. k \o Append(l, e) = Append(k \o l, e)
    <3>1. k \in Seq(T) /\ l \in Seq(T)
      BY <2>1, KeepIs
    <3> HIDE DEF k, l
    <3> QED
      BY <2>1, <3>1, ConcatAppend
  <2>5. Keep(Append(a, e), S) = IF e \in S THEN Append(l, e) ELSE l
    BY <2>1, KeepAppend
  <2>6. Keep(Append(s \o a, e), S) = IF e \in S THEN Append(k \o l, e) ELSE k \o l
    <3> DEFINE b == s \o a
    <3>1. b \in Seq(T) /\ Keep(b, S) = k \o l
      BY <2>2, <2>3
    <3> HIDE DEF b, k, l
    <3>2. Keep(Append(b, e), S) = IF e \in S THEN Append(k \o l, e) ELSE k \o l
      BY <2>1, <3>1, KeepAppend
    <3> QED
      BY <3>2 DEF b
  <2> HIDE DEF k
  <2>7. Keep(s \o Append(a, e), S) = k \o Keep(Append(a, e), S)
    BY <2>3, <2>4, <2>5, <2>6
  <2> QED
    BY <2>1, <2>7 DEF k
<1> HIDE DEF Good
<1>7. \A n \in 0 .. L : n \in Good
  BY <1>1, <1>5, <1>6, UpTo
<1>8. L \in Good
  BY <1>1, <1>7
<1> QED
  BY <1>2, <1>8 DEF Good

\* All is kept, or nothing
LEMMA KeepAll ==
    ASSUME NEW T, NEW s \in Seq(T), NEW S, \A n \in 1 .. Len(s) : s[n] \in S
    PROVE  Keep(s, S) = s
<1> DEFINE P == {n \in DOMAIN s : s[n] \in S}
           t == Picked(s, P)
<1>1. P = 1 .. Len(s)
  OBVIOUS
<1>2. t \in Seq(T) /\ \E g : Comes(t, s, P, g)
  BY <1>1, PickedComes
<1>3. PICK g : Comes(t, s, P, g)
  BY <1>2
<1>4. Len(t) = Len(s)
  <2>1. P \in SUBSET (1 .. Len(s)) /\ Len(s) \in Nat
    BY <1>1
  <2> HIDE DEF t, P
  <2>2. Len(t) = Cardinality(P)
    BY <1>2, <1>3, <2>1, ComesCount
  <2>3. Cardinality(P) = Len(s)
    BY <1>1, <2>1, UpToCount
  <2> QED
    BY <2>2, <2>3
<1>5. \A k \in 1 .. Len(t) : g[k] \in 1 .. Len(s) /\ g[k] <= k
  <2> HIDE DEF t
  <2>1. \A k \in 1 .. Len(t) : g[k] \in 1 .. Len(s) /\ g[k] <= k + (Len(s) - Len(t))
    <3>1. P \in SUBSET (1 .. Len(s))
      BY <1>1
    <3> HIDE DEF P
    <3> QED
      BY <1>2, <1>3, <3>1, ComesShift
  <2>2. Len(s) \in Nat
    OBVIOUS
  <2>3. Len(s) - Len(t) = 0
    BY <1>4, <2>2
  <2> QED
    BY <2>1, <2>3
<1>6. \A k \in 1 .. Len(t) : g[k] = k
  <2> SUFFICES ASSUME {k \in 1 .. Len(t) : g[k] # k} # {} PROVE FALSE
    OBVIOUS
  <2>1. PICK k \in 1 .. Len(t) : g[k] # k /\ \A l \in 1 .. Len(t) : g[l] # l => k <= l
    <3>1. {k \in 1 .. Len(t) : g[k] # k} \subseteq Nat
      OBVIOUS
    <3> QED
      BY <3>1, LeastNumber
  <2>2. g[k] \in 1 .. Len(t) /\ g[k] < k
    BY <1>4, <1>5, <2>1
  <2>3. g[g[k]] = g[k]
    BY <2>1, <2>2
  <2>4. g[g[k]] < g[k]
    BY <1>3, <2>2 DEF Comes
  <2> QED
    BY <2>2, <2>3, <2>4
<1>7. \A k \in 1 .. Len(s) : t[k] = s[k]
  BY <1>3, <1>4, <1>6 DEF Comes
<1> HIDE DEF t
<1>8. t = s
  BY <1>2, <1>4, <1>7, SeqEqual
<1> QED
  BY <1>8 DEF t, Keep

----------------------------------------------------------------------------
(* Sequences that are cut in two                                           *)

LEMMA Parts ==
    ASSUME NEW T, NEW m \in Seq(T), NEW q \in 0 .. Len(m)
    PROVE  LET a == SubSeq(m, 1, q)
               c == SubSeq(m, q + 1, Len(m))
           IN  /\ a \in Seq(T) /\ c \in Seq(T) /\ m = a \o c
               /\ Len(a) = q /\ Len(c) = Len(m) - q
               /\ \A n \in 1 .. q : a[n] = m[n]
               /\ \A n \in 1 .. Len(m) - q : c[n] = m[q + n]
<1> DEFINE L == Len(m)
           a == SubSeq(m, 1, q)
           c == SubSeq(m, q + 1, L)
<1>1. L \in Nat /\ q \in Nat /\ q <= L /\ \A n \in 1 .. L : m[n] \in T
  OBVIOUS
<1> HIDE DEF L
<1>2. a \in Seq(T) /\ Len(a) = q /\ \A n \in 1 .. q : a[n] = m[n]
  <2>1. /\ \A i \in 1 .. q : m[i] \in T
        /\ (IF 1 <= q THEN q - 1 + 1 ELSE 0) = q /\ q - 1 + 1 = q
        /\ \A i \in 1 .. q : 1 + i - 1 = i
    BY <1>1
  <2>2. /\ a \in Seq(T) /\ Len(a) = IF 1 <= q THEN q - 1 + 1 ELSE 0
        /\ \A i \in 1 .. q - 1 + 1 : a[i] = m[1 + i - 1]
    BY <1>1, <2>1, SubSeqProperties
  <2> HIDE DEF a
  <2> QED
    BY <2>1, <2>2
<1>3. c \in Seq(T) /\ Len(c) = L - q /\ \A n \in 1 .. L - q : c[n] = m[q + n]
  <2>1. /\ \A i \in q + 1 .. L : m[i] \in T
        /\ (IF q + 1 <= L THEN L - (q + 1) + 1 ELSE 0) = L - q /\ L - (q + 1) + 1 = L - q
        /\ \A i \in 1 .. L - q : q + 1 + i - 1 = q + i
    BY <1>1
  <2>2. /\ c \in Seq(T) /\ Len(c) = IF q + 1 <= L THEN L - (q + 1) + 1 ELSE 0
        /\ \A i \in 1 .. L - (q + 1) + 1 : c[i] = m[q + 1 + i - 1]
    BY <1>1, <2>1, SubSeqProperties
  <2> HIDE DEF c
  <2> QED
    BY <2>1, <2>2
<1> HIDE DEF a, c
<1>4. m = a \o c
  <2>1. /\ a \o c \in Seq(T) /\ Len(a \o c) = q + (L - q)
        /\ \A i \in 1 .. q + (L - q) : (a \o c)[i] = IF i <= q THEN a[i] ELSE c[i - q]
    <3>1. a \in Seq(T) /\ c \in Seq(T) /\ Len(a) = q /\ Len(c) = L - q
      BY <1>2, <1>3
    <3>2. /\ a \o c \in Seq(T) /\ Len(a \o c) = Len(a) + Len(c)
          /\ \A i \in 1 .. Len(a) + Len(c) :
                (a \o c)[i] = IF i <= Len(a) THEN a[i] ELSE c[i - Len(a)]
      BY <3>1, ConcatProperties
    <3> QED
      BY <3>1, <3>2, Zenon
  <2>2. q + (L - q) = L
    BY <1>1
  <2>3. \A i \in 1 .. L : (a \o c)[i] = m[i]
    <3> SUFFICES ASSUME NEW i \in 1 .. L PROVE (a \o c)[i] = m[i]
      OBVIOUS
    <3>1. CASE i <= q
      BY <1>1, <1>2, <2>1, <2>2, <3>1
    <3>2. CASE ~ (i <= q)
      <4>1. i - q \in 1 .. L - q /\ q + (i - q) = i
        BY <1>1, <3>2
      <4> QED
        BY <1>1, <1>3, <2>1, <2>2, <3>2, <4>1
    <3> QED
      BY <3>1, <3>2
  <2> DEFINE b == a \o c
  <2>4. b \in Seq(T) /\ Len(b) = Len(m) /\ \A i \in 1 .. Len(b) : b[i] = m[i]
    BY <2>1, <2>2, <2>3 DEF L
  <2> HIDE DEF b
  <2>5. b = m
    BY <2>4, SeqEqual
  <2> QED
    BY <2>5 DEF b
<1> QED
  BY <1>2, <1>3, <1>4 DEF a, c, L

\* A first part that is longer
LEMMA Longer ==
    ASSUME NEW T, NEW m \in Seq(T), NEW n \in 0 .. Len(m), n < Len(m)
    PROVE  /\ SubSeq(m, 1, n) \in Seq(T) /\ m[n + 1] \in T /\ n + 1 \in 1 .. Len(m)
           /\ SubSeq(m, 1, n + 1) = Append(SubSeq(m, 1, n), m[n + 1])
<1>1. n + 1 \in 1 .. Len(m) /\ m[n + 1] \in T
  OBVIOUS
<1>2. SubSeq(m, 1, n) \in Seq(T) /\ n + 1 \in 0 .. Len(m)
  BY <1>1, Parts
<1> DEFINE k == n + 1
           a == SubSeq(m, 1, n)
           b == SubSeq(m, 1, k)
           c == Append(a, m[k])
<1>3. /\ a \in Seq(T) /\ Len(a) = n /\ \A i \in 1 .. n : a[i] = m[i]
      /\ b \in Seq(T) /\ Len(b) = k /\ \A i \in 1 .. k : b[i] = m[i]
  BY <1>1, <1>2, Parts
<1>4. c \in Seq(T) /\ Len(c) = n + 1 /\ c[n + 1] = m[k] /\ \A i \in 1 .. n : c[i] = a[i]
  BY <1>1, <1>2, <1>3, AppendProperties
<1> HIDE DEF a, b, c
<1>5. \A i \in 1 .. k : i \in 1 .. n \/ i = k
  OBVIOUS
<1>6. \A i \in 1 .. k : b[i] = c[i]
  BY <1>3, <1>4, <1>5
<1>7. b = c
  BY <1>3, <1>4, <1>6, SeqEqual
<1> QED
  BY <1>1, <1>2, <1>7 DEF a, b, c

\* An element that is appended to the first part or put before the second
LEMMA Between ==
    ASSUME NEW T, NEW a \in Seq(T), NEW c \in Seq(T), NEW e \in T
    PROVE  /\ Append(a, e) \o c = a \o (<<e>> \o c)
           /\ <<e>> \o c \in Seq(T) /\ Append(a, e) \o c \in Seq(T)
           /\ Len(Append(a, e) \o c) = Len(a) + Len(c) + 1
           /\ (Append(a, e) \o c)[Len(a) + 1] = e
           /\ \A n \in 1 .. Len(a) : (Append(a, e) \o c)[n] = a[n]
           /\ \A n \in 1 .. Len(c) : (Append(a, e) \o c)[Len(a) + 1 + n] = c[n]
<1> DEFINE u == <<e>>
           b == Append(a, e)
           L == Len(a)
           M == Len(c)
<1>1. u \in Seq(T)
  OBVIOUS
<1>2. b = a \o u /\ b \in Seq(T) /\ Len(b) = L + 1 /\ b[L + 1] = e /\ \A n \in 1 .. L : b[n] = a[n]
  BY AppendIsConcat, AppendProperties
<1>3. L \in Nat /\ M \in Nat
  OBVIOUS
<1> HIDE DEF b, u
<1>4. b \o c = a \o (u \o c)
  <2>1. (a \o u) \o c = a \o (u \o c)
    BY <1>1, ConcatAssociative
  <2> QED
    BY <1>2, <2>1
<1>5. u \o c \in Seq(T)
  BY <1>1, ConcatProperties
<1>6. /\ b \o c \in Seq(T) /\ Len(b \o c) = L + 1 + M
      /\ \A i \in 1 .. L + 1 + M : (b \o c)[i] = IF i <= L + 1 THEN b[i] ELSE c[i - (L + 1)]
  <2>1. /\ b \o c \in Seq(T) /\ Len(b \o c) = Len(b) + M
        /\ \A i \in 1 .. Len(b) + M : (b \o c)[i] = IF i <= Len(b) THEN b[i] ELSE c[i - Len(b)]
    <3>1. b \in Seq(T) /\ c \in Seq(T)
      BY <1>2
    <3> QED
      BY <3>1, ConcatProperties
  <2> QED
    BY <1>2, <2>1, Zenon
<1> HIDE DEF L, M
<1>7. (b \o c)[L + 1] = e /\ \A n \in 1 .. L : (b \o c)[n] = a[n]
  <2>1. L + 1 \in 1 .. L + 1 + M /\ \A n \in 1 .. L : n \in 1 .. L + 1 + M /\ n <= L + 1
    BY <1>3
  <2> QED
    BY <1>2, <1>3, <1>6, <2>1
<1>8. \A n \in 1 .. M : (b \o c)[L + 1 + n] = c[n]
  <2> SUFFICES ASSUME NEW n \in 1 .. M PROVE (b \o c)[L + 1 + n] = c[n]
    OBVIOUS
  <2> DEFINE k == L + 1 + n
  <2>1. k \in 1 .. L + 1 + M /\ ~ (k <= L + 1) /\ k - (L + 1) = n
    BY <1>3
  <2> HIDE DEF k
  <2>2. (b \o c)[k] = c[n]
    BY <1>6, <2>1
  <2> QED
    BY <2>2 DEF k
<1>9. L + 1 + M = L + M + 1
  BY <1>3
<1> QED
  BY <1>4, <1>5, <1>6, <1>7, <1>8, <1>9 DEF b, u, L, M

\* m, and m with another element at n, by the parts around n
LEMMA ElementChanged ==
    ASSUME NEW T, NEW m \in Seq(T), NEW n \in 1 .. Len(m)
    PROVE  /\ m = Append(SubSeq(m, 1, n - 1), m[n]) \o SubSeq(m, n + 1, Len(m))
           /\ \A e \in T : \A s : s = [m EXCEPT ![n] = e] =>
                s = Append(SubSeq(m, 1, n - 1), e) \o SubSeq(m, n + 1, Len(m))
<1> DEFINE q == n - 1
           L == Len(m)
           a == SubSeq(m, 1, q)
           c == SubSeq(m, n + 1, L)
<1>0. L \in Nat /\ q \in 0 .. L /\ n \in 0 .. L /\ q + 1 = n /\ m[n] \in T
      /\ \A k \in 1 .. q : k \in 1 .. L
  OBVIOUS
<1>1. /\ a \in Seq(T) /\ Len(a) = q /\ \A k \in 1 .. q : a[k] = m[k]
      /\ c \in Seq(T) /\ Len(c) = L - n /\ \A k \in 1 .. L - n : c[k] = m[n + k]
  BY <1>0, Parts
<1>2. ASSUME NEW x \in T, NEW s \in Seq(T), Len(s) = L, s[n] = x,
             \A k \in 1 .. L : k # n => s[k] = m[k]
      PROVE  s = Append(a, x) \o c
  <2> DEFINE t == Append(a, x) \o c
  <2> HIDE DEF a, c, L
  <2>0. a \in Seq(T) /\ c \in Seq(T)
    BY <1>1
  <2>1. /\ t \in Seq(T) /\ Len(t) = Len(a) + Len(c) + 1 /\ t[Len(a) + 1] = x
        /\ \A k \in 1 .. Len(a) : t[k] = a[k]
        /\ \A k \in 1 .. Len(c) : t[Len(a) + 1 + k] = c[k]
    BY <2>0, Between
  <2> HIDE DEF t, q
  <2>2. Len(t) = L /\ Len(a) + 1 = n /\ Len(a) = q
    <3>1. q + (L - n) + 1 = L
      BY <1>0
    <3>2. Len(a) = q /\ Len(c) = L - n
      BY <1>1
    <3>3. Len(t) = q + (L - n) + 1
      BY <2>1, <3>2
    <3> QED
      BY <1>0, <3>1, <3>2, <3>3
  <2>3. \A k \in 1 .. L : s[k] = t[k]
    <3> SUFFICES ASSUME NEW k \in 1 .. L PROVE s[k] = t[k]
      OBVIOUS
    <3>1. CASE k < n
      <4>1. k \in 1 .. q
        BY <1>0, <3>1
      <4> QED
        BY <1>1, <1>2, <2>1, <2>2, <3>1, <4>1
    <3>2. CASE k = n
      BY <1>2, <2>1, <2>2, <3>2
    <3>3. CASE k > n
      <4>1. k - n \in 1 .. L - n /\ n + (k - n) = k /\ k # n
        BY <1>0, <3>3
      <4>2. t[n + (k - n)] = c[k - n]
        BY <1>1, <2>1, <2>2, <4>1
      <4> QED
        BY <1>1, <1>2, <4>1, <4>2
    <3> QED
      BY <3>1, <3>2, <3>3
  <2>4. s = t
    BY <1>2, <2>1, <2>2, <2>3, SeqEqual
  <2> QED
    BY <2>4 DEF t
<1>3. m = Append(a, m[n]) \o c
  BY <1>0, <1>2
<1>4. ASSUME NEW e \in T, NEW s, s = [m EXCEPT ![n] = e]
      PROVE  s = Append(a, e) \o c
  <2>1. s \in Seq(T) /\ Len(s) = L /\ s[n] = e /\ \A k \in 1 .. L : k # n => s[k] = m[k]
    BY <1>4, ExceptSeq
  <2> HIDE DEF a, c, L
  <2> QED
    BY <1>2, <2>1
<1> QED
  BY <1>3, <1>4

\* The parts of two sequences put together
LEMMA Cut ==
    ASSUME NEW T, NEW a \in Seq(T), NEW c \in Seq(T)
    PROVE  /\ SubSeq(a \o c, 1, Len(a)) = a
           /\ SubSeq(a \o c, Len(a) + 1, Len(a \o c)) = c
           /\ Len(a) \in 0 .. Len(a \o c) /\ a \o c \in Seq(T)
<1> DEFINE m == a \o c
           q == Len(a)
           N == Len(c)
           b == SubSeq(m, 1, q)
           d == SubSeq(m, q + 1, Len(m))
<1>1. /\ q \in Nat /\ N \in Nat /\ m \in Seq(T) /\ Len(m) = q + N
      /\ \A i \in 1 .. q + N : m[i] = IF i <= q THEN a[i] ELSE c[i - q]
  BY ConcatProperties
<1>2. q \in 0 .. Len(m) /\ Len(m) - q = N
  BY <1>1
<1> HIDE DEF m
<1>3. /\ b \in Seq(T) /\ d \in Seq(T) /\ Len(b) = q /\ Len(d) = Len(m) - q
      /\ \A n \in 1 .. q : b[n] = m[n]
      /\ \A n \in 1 .. Len(m) - q : d[n] = m[q + n]
  BY <1>1, <1>2, Parts
<1> HIDE DEF b, d
<1>4. b = a
  <2>1. \A n \in 1 .. q : n \in 1 .. q + N /\ n <= q
    BY <1>1
  <2>2. \A n \in 1 .. q : b[n] = a[n]
    BY <1>1, <1>3, <2>1
  <2> QED
    BY <1>3, <2>2, SeqEqual
<1>5. d = c
  <2>1. \A n \in 1 .. N : d[n] = c[n]
    <3> SUFFICES ASSUME NEW n \in 1 .. N PROVE d[n] = c[n]
      OBVIOUS
    <3> DEFINE k == q + n
    <3>1. d[n] = m[k]
      BY <1>2, <1>3
    <3>2. k \in 1 .. q + N /\ ~ (k <= q) /\ k - q = n
      BY <1>1
    <3> HIDE DEF k, q, N
    <3>3. m[k] = c[k - q]
      BY <1>1, <3>2
    <3> QED
      BY <3>1, <3>2, <3>3
  <2>2. Len(d) = Len(c)
    BY <1>2, <1>3
  <2> QED
    BY <1>3, <2>1, <2>2, SeqEqual
<1> QED
  BY <1>1, <1>2, <1>4, <1>5 DEF b, d, m
=============================================================================
