--------------------------- MODULE ChmMsgPoolProofs ---------------------------
(***************************************************************************)
(* What giving back msgids does to the pool, for any finite pool.          *)
(***************************************************************************)
EXTENDS ChmMsgPool, SequencesExt, TLAPS, FiniteSetTheorems, FunctionTheorems, SequenceTheorems

\* How many of the msgids of S are greater than i.
Above(S, i) == Cardinality({j \in S : j > i})

LEMMA AboveRange ==
  ASSUME NEW U \in SUBSET Int, IsFiniteSet(U), NEW S \in SUBSET U
  PROVE  /\ IsFiniteSet(S) /\ Cardinality(S) \in Nat
         /\ \A i \in S : Above(S, i) \in 0 .. Cardinality(S) - 1
         /\ \A i, k \in S : i < k => Above(S, k) < Above(S, i)
<1> DEFINE n == Cardinality(S)
           R(i) == {j \in S : j > i}
<1>1. S \subseteq Int
  OBVIOUS
<1>2. IsFiniteSet(S) /\ n \in Nat
  BY FS_Subset, FS_CardinalityType
<1>3. ASSUME NEW i \in S PROVE IsFiniteSet(R(i)) /\ Cardinality(R(i)) \in 0 .. n - 1
  <2>1. IsFiniteSet(S \ {i}) /\ Cardinality(S \ {i}) = n - 1
    BY <1>2, FS_RemoveElement
  <2>2. R(i) \in SUBSET (S \ {i})
    BY <1>1
  <2> HIDE DEF R
  <2>3. IsFiniteSet(R(i)) /\ Cardinality(R(i)) <= n - 1
    BY <2>1, <2>2, FS_Subset
  <2>4. Cardinality(R(i)) \in Nat
    BY <2>3, FS_CardinalityType
  <2> QED BY <1>2, <2>3, <2>4
<1>4. ASSUME NEW i \in S, NEW k \in S, i < k PROVE Cardinality(R(k)) < Cardinality(R(i))
  <2>1. R(k) \in SUBSET (R(i) \ {k}) /\ k \in R(i)
    <3>1. \A j \in S : j > k => j > i /\ j # k
      BY <1>1, <1>4
    <3>2. k > i
      BY <1>1, <1>4
    <3> QED BY <3>1, <3>2
  <2> HIDE DEF R
  <2>2. IsFiniteSet(R(i) \ {k}) /\ Cardinality(R(i) \ {k}) = Cardinality(R(i)) - 1
    BY <1>3, <2>1, FS_RemoveElement
  <2>3. Cardinality(R(k)) <= Cardinality(R(i)) - 1
    BY <2>1, <2>2, FS_Subset
  <2>4. Cardinality(R(k)) \in Nat /\ Cardinality(R(i)) \in Nat
    BY <1>2, <1>3
  <2> QED BY <2>3, <2>4
<1> QED BY <1>2, <1>3, <1>4 DEF Above

LEMMA AboveOneToOne ==
  ASSUME NEW U \in SUBSET Int, IsFiniteSet(U), NEW S \in SUBSET U
  PROVE  /\ \A i, k \in S : Above(S, i) = Above(S, k) => i = k
         /\ \A k \in 0 .. Cardinality(S) - 1 : \E i \in S : Above(S, i) = k
<1> DEFINE n == Cardinality(S)
           r == [i \in S |-> Above(S, i) + 1]
<1>1. n \in Nat /\ \A i \in S : Above(S, i) \in 0 .. n - 1
  BY AboveRange
<1>2. r \in [S -> 1 .. n]
  BY <1>1
<1>3. \A i, k \in S : Above(S, i) = Above(S, k) => i = k
  <2> SUFFICES ASSUME NEW i \in S, NEW k \in S, Above(S, i) = Above(S, k) PROVE i = k
    OBVIOUS
  <2>1. ~(i < k) /\ ~(k < i)
    BY <1>1, AboveRange
  <2> QED BY <2>1
<1>4. \A k \in 1 .. n : \E i \in S : r[i] = k
  <2>1. IsFiniteSet(1 .. n) /\ Cardinality(1 .. n) = n
    BY <1>1, FS_Interval
  <2>2. \A i, k \in S : r[i] = r[k] => i = k
    BY <1>1, <1>3
  <2>3. r \in Injection(S, 1 .. n)
    BY <1>2, <2>2 DEF Injection, IsInjective
  <2>4. r \in Surjection(S, 1 .. n)
    BY <2>1, <2>3, FS_Injection
  <2> QED BY <2>4 DEF Surjection
<1>5. ASSUME NEW k \in 0 .. n - 1 PROVE \E i \in S : Above(S, i) = k
  <2>1. k + 1 \in 1 .. n
    BY <1>1
  <2>2. PICK i \in S : r[i] = k + 1
    BY <1>4, <2>1
  <2> QED BY <1>1, <2>2
<1> QED BY <1>3, <1>5

\* The freed msgids, each of them once.
LEMMA DescendingIs ==
  ASSUME NEW U \in SUBSET Int, IsFiniteSet(U), NEW S \in SUBSET U
  PROVE  /\ Descending(S) \in Seq(S)
         /\ IsInjective(Descending(S)) /\ ToSet(Descending(S)) = S
<1> DEFINE n == Cardinality(S)
           D == Descending(S)
<1>1. n \in Nat /\ \A i \in S : Above(S, i) \in 0 .. n - 1
  BY AboveRange
<1>2. D = [k \in 1 .. n |-> CHOOSE i \in S : Above(S, i) = k - 1]
  BY DEF Descending, Above
<1>3. \A k \in 1 .. n : D[k] \in S /\ Above(S, D[k]) = k - 1
  <2> SUFFICES ASSUME NEW k \in 1 .. n PROVE D[k] \in S /\ Above(S, D[k]) = k - 1
    OBVIOUS
  <2>1. k - 1 \in 0 .. n - 1
    BY <1>1
  <2>2. \E i \in S : Above(S, i) = k - 1
    BY <2>1, AboveOneToOne
  <2>3. D[k] = CHOOSE j \in S : Above(S, j) = k - 1
    BY <1>2
  <2> QED BY <2>2, <2>3
<1> HIDE DEF D
<1>4. D = [k \in 1 .. n |-> D[k]]
  BY <1>2
<1>5. D \in Seq(S) /\ DOMAIN D = 1 .. n
  BY <1>1, <1>3, <1>4
<1>6. \A a, b \in 1 .. n : D[a] = D[b] => a = b
  <2> SUFFICES ASSUME NEW a \in 1 .. n, NEW b \in 1 .. n, D[a] = D[b] PROVE a = b
    OBVIOUS
  <2>1. a - 1 = b - 1
    BY <1>3
  <2> QED BY <1>1, <2>1
<1>7. \A i \in S : \E k \in 1 .. n : D[k] = i
  <2> SUFFICES ASSUME NEW i \in S PROVE \E k \in 1 .. n : D[k] = i
    OBVIOUS
  <2>1. PICK k : k = Above(S, i) + 1
    OBVIOUS
  <2>2. k \in 1 .. n /\ k - 1 = Above(S, i)
    BY <1>1, <2>1
  <2>3. \A j \in S : Above(S, j) = Above(S, i) => j = i
    BY AboveOneToOne
  <2>4. D[k] = i
    BY <1>3, <2>2, <2>3
  <2> QED BY <2>2, <2>4
<1>8. IsInjective(D)
  BY <1>5, <1>6 DEF IsInjective
<1>9. ToSet(D) = S
  BY <1>3, <1>5, <1>7 DEF ToSet
<1> QED BY <1>5, <1>8, <1>9 DEF D

\* FreeMsg: S is put in front of the pool.
LEMMA Prepended ==
  ASSUME NEW U \in SUBSET Int, IsFiniteSet(U), NEW S \in SUBSET U, NEW f \in Seq(U),
         IsInjective(f), S \cap ToSet(f) = {}
  PROVE  LET g == Descending(S) \o f
         IN  g \in Seq(U) /\ IsInjective(g) /\ ToSet(g) = S \cup ToSet(f)
<1> DEFINE d == Descending(S)
           g == d \o f
<1>1. d \in Seq(U) /\ IsInjective(d) /\ ToSet(d) = S
  BY DescendingIs, SeqMonotonic
<1> HIDE DEF d
<1>2. /\ g \in Seq(U) /\ Len(g) = Len(d) + Len(f)
      /\ \A i \in 1 .. Len(g) : g[i] = IF i <= Len(d) THEN d[i] ELSE f[i - Len(d)]
  BY <1>1, ConcatProperties
<1>3. /\ DOMAIN d = 1 .. Len(d) /\ Len(d) \in Nat /\ DOMAIN f = 1 .. Len(f) /\ Len(f) \in Nat
      /\ DOMAIN g = 1 .. Len(g)
  BY <1>1, <1>2
<1> HIDE DEF g
<1>4. ToSet(g) = S \cup ToSet(f)
  <2>1. \A i \in 1 .. Len(g) : g[i] \in ToSet(d) \cup ToSet(f)
    BY <1>2, <1>3 DEF ToSet
  <2>2. \A i \in 1 .. Len(d) : i \in 1 .. Len(g) /\ g[i] = d[i]
    BY <1>2, <1>3
  <2>3. \A i \in 1 .. Len(f) : i + Len(d) \in 1 .. Len(g) /\ g[i + Len(d)] = f[i]
    <3> SUFFICES ASSUME NEW i \in 1 .. Len(f)
                 PROVE  i + Len(d) \in 1 .. Len(g) /\ g[i + Len(d)] = f[i]
      OBVIOUS
    <3>1. i + Len(d) \in 1 .. Len(g) /\ ~(i + Len(d) <= Len(d)) /\ i + Len(d) - Len(d) = i
      BY <1>2, <1>3
    <3> QED BY <1>2, <3>1
  <2>4. ToSet(g) \subseteq ToSet(d) \cup ToSet(f)
    BY <2>1, <1>3 DEF ToSet
  <2>5. ToSet(d) \cup ToSet(f) \subseteq ToSet(g)
    BY <2>2, <2>3, <1>3 DEF ToSet
  <2> QED BY <2>4, <2>5, <1>1
<1>5. IsInjective(g)
  <2> SUFFICES ASSUME NEW a \in 1 .. Len(g), NEW b \in 1 .. Len(g), g[a] = g[b] PROVE a = b
    BY <1>3 DEF IsInjective
  <2>1. \A i \in 1 .. Len(g) :
          IF i <= Len(d) THEN i \in DOMAIN d /\ g[i] = d[i] /\ g[i] \in S
          ELSE i - Len(d) \in DOMAIN f /\ g[i] = f[i - Len(d)] /\ g[i] \in ToSet(f)
    <3> SUFFICES ASSUME NEW i \in 1 .. Len(g)
                 PROVE  IF i <= Len(d) THEN i \in DOMAIN d /\ g[i] = d[i] /\ g[i] \in S
                        ELSE i - Len(d) \in DOMAIN f /\ g[i] = f[i - Len(d)] /\ g[i] \in ToSet(f)
      OBVIOUS
    <3>1. CASE i <= Len(d)
      BY <1>1, <1>2, <1>3, <3>1 DEF ToSet
    <3>2. CASE ~(i <= Len(d))
      <4>1. i - Len(d) \in 1 .. Len(f)
        BY <1>2, <1>3, <3>2
      <4> QED BY <1>2, <1>3, <3>2, <4>1 DEF ToSet
    <3> QED BY <3>1, <3>2
  <2>2. a <= Len(d) <=> b <= Len(d)
    BY <2>1
  <2>3. CASE a <= Len(d)
    BY <1>1, <2>1, <2>2, <2>3 DEF IsInjective
  <2>4. CASE ~(a <= Len(d))
    <3>1. a - Len(d) = b - Len(d)
      BY <2>1, <2>2, <2>4 DEF IsInjective
    <3> QED BY <3>1, <1>2, <1>3
  <2> QED BY <2>3, <2>4
<1> QED BY <1>2, <1>4, <1>5 DEF g, d
=============================================================================
