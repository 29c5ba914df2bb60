------------------------ MODULE QuantitySums_proofs ------------------------
(***************************************************************************)
(* What the sums of QuantitySums compute, for every length n.  The rules   *)
(* for induction in the library take an operator; NatSetInduction states   *)
(* the same fact for a set, so that the lemmas below can cite it.          *)
(***************************************************************************)
EXTENDS QuantitySums, FiniteSetTheorems, TLAPS

\* A set of numbers that contains 0 and the successor of each of its members
\* contains every number.  Otherwise the numbers up to a missing x that are
\* missing too would map one-to-one, by predecessor, into themselves less x.
LEMMA NatSetInduction ==
  ASSUME NEW S, 0 \in S, \A n \in Nat : n \in S => n + 1 \in S
  PROVE  Nat \subseteq S
<1> SUFFICES ASSUME NEW x \in Nat, x \notin S PROVE FALSE
  OBVIOUS
<1> DEFINE D == {y \in Nat : y <= x /\ y \notin S}
<1> DEFINE f == [y \in D |-> y - 1]
<1>1. IsFiniteSet(D) /\ Cardinality(D) \in Nat
  BY FS_BoundedSetOfNaturals, FS_CardinalityType
<1>2. x \in D
  OBVIOUS
<1>3. \A y \in D : y - 1 \in D \ {x}
  <2> TAKE y \in D
  <2>1. y # 0 /\ y - 1 \in Nat /\ (y - 1) + 1 = y
    OBVIOUS
  <2>2. y - 1 \notin S
    BY <2>1
  <2> QED BY <2>1, <2>2
<1>4. f \in Injection(D, D \ {x})
  BY <1>3 DEF Injection, IsInjective
<1>5. IsFiniteSet(D \ {x}) /\ Cardinality(D \ {x}) = Cardinality(D) - 1
  BY <1>1, <1>2, FS_RemoveElement
<1>6. Cardinality(D) <= Cardinality(D \ {x})
  BY <1>4, <1>5, FS_Injection
<1> QED BY <1>1, <1>5, <1>6

-----------------------------------------------------------------------------
\* Some function on 0 .. n satisfies the recursion of PartialSums.
LEMMA PartialSumsExist ==
  ASSUME NEW n \in Nat, NEW f \in [1 .. n -> Int]
  PROVE  \E g \in [0 .. n -> Int] :
           g = [k \in 0 .. n |-> IF k = 0 THEN 0 ELSE g[k - 1] + f[k]]
<1> DEFINE Upto(m) == \E g \in [0 .. m -> Int] :
             \A k \in 0 .. m : g[k] = IF k = 0 THEN 0 ELSE g[k - 1] + f[k]
<1> DEFINE S == {m \in Nat : m <= n => Upto(m)}
<1>1. 0 \in S
  <2> DEFINE g == [k \in 0 .. 0 |-> 0]
  <2>1. g \in [0 .. 0 -> Int] /\ \A k \in 0 .. 0 : k = 0 /\ g[k] = 0
    OBVIOUS
  <2>2. Upto(0)
    BY <2>1
  <2> QED BY <2>2
<1>2. \A m \in Nat : m \in S => m + 1 \in S
  <2> HIDE DEF Upto
  <2> SUFFICES ASSUME NEW m \in Nat, m \in S, m + 1 <= n PROVE Upto(m + 1)
    OBVIOUS
  <2>0. Upto(m)
    <3>1. m <= n OBVIOUS
    <3> QED BY <3>1
  <2> USE DEF Upto
  <2>1. PICK g \in [0 .. m -> Int] :
          \A k \in 0 .. m : g[k] = IF k = 0 THEN 0 ELSE g[k - 1] + f[k]
    BY <2>0
  <2> DEFINE h == [k \in 0 .. (m + 1) |-> IF k = m + 1 THEN g[m] + f[m + 1] ELSE g[k]]
  <2>2. m \in 0 .. m /\ m + 1 \in 1 .. n
    OBVIOUS
  <2>3. g[m] \in Int /\ f[m + 1] \in Int
    BY <2>2
  <2>4. h \in [0 .. (m + 1) -> Int]
    <3> SUFFICES ASSUME NEW k \in 0 .. (m + 1), k # m + 1 PROVE k \in 0 .. m
      BY <2>3
    <3> QED OBVIOUS
  <2>5. ASSUME NEW k \in 0 .. (m + 1)
        PROVE  h[k] = IF k = 0 THEN 0 ELSE h[k - 1] + f[k]
    <3>1. CASE k = m + 1
      <4>1. k - 1 = m /\ m \in 0 .. (m + 1) /\ m # m + 1 /\ k # 0
        BY <3>1
      <4> QED BY <4>1, <3>1
    <3>2. CASE k # m + 1 /\ k = 0
      <4>1. 0 \in 0 .. m OBVIOUS
      <4> QED BY <3>2, <4>1, <2>1
    <3>3. CASE k # m + 1 /\ k # 0
      <4>1. k \in 0 .. m /\ k - 1 \in 0 .. (m + 1) /\ k - 1 # m + 1
        BY <3>3
      <4> QED BY <4>1, <3>3, <2>1
    <3> QED BY <3>1, <3>2, <3>3
  <2> QED BY <2>4, <2>5
<1> HIDE DEF S
<1>3. Nat \subseteq S
  BY <1>1, <1>2, NatSetInduction
<1>4. Upto(n)
  <2> HIDE DEF Upto
  <2>1. n \in S /\ n <= n
    BY <1>3
  <2> QED BY <2>1 DEF S
<1> QED BY <1>4

\* PartialSums satisfies its defining equation.
LEMMA PartialSumsEquation ==
  ASSUME NEW n \in Nat, NEW f \in [1 .. n -> Int]
  PROVE  /\ PartialSums(f, n)[0] = 0
         /\ \A k \in 1 .. n : PartialSums(f, n)[k] = PartialSums(f, n)[k - 1] + f[k]
<1> DEFINE P == PartialSums(f, n)
<1>1. P = [k \in 0 .. n |-> IF k = 0 THEN 0 ELSE P[k - 1] + f[k]]
  BY PartialSumsExist DEF PartialSums
<1> HIDE DEF P
<1>2. P[0] = 0
  <2>1. 0 \in 0 .. n OBVIOUS
  <2> QED BY <1>1, <2>1
<1>3. ASSUME NEW k \in 1 .. n PROVE P[k] = P[k - 1] + f[k]
  <2>1. k \in 0 .. n /\ k # 0 OBVIOUS
  <2> QED BY <1>1, <2>1
<1> QED BY <1>2, <1>3 DEF P

\* Partial sums of integers are integers.
LEMMA PartialSumsType ==
  ASSUME NEW n \in Nat, NEW f \in [1 .. n -> Int]
  PROVE  \A k \in 0 .. n : PartialSums(f, n)[k] \in Int
<1> DEFINE S == {m \in Nat : m <= n => PartialSums(f, n)[m] \in Int}
<1>1. 0 \in S
  BY PartialSumsEquation
<1>2. \A m \in Nat : m \in S => m + 1 \in S
  <2> SUFFICES ASSUME NEW m \in Nat, m \in S, m + 1 <= n
               PROVE  PartialSums(f, n)[m + 1] \in Int
    OBVIOUS
  <2>1. m + 1 \in 1 .. n /\ (m + 1) - 1 = m /\ PartialSums(f, n)[m] \in Int
    OBVIOUS
  <2>2. PartialSums(f, n)[m + 1] = PartialSums(f, n)[(m + 1) - 1] + f[m + 1]
    BY <2>1, PartialSumsEquation
  <2> QED BY <2>1, <2>2
<1> HIDE DEF S
<1>3. Nat \subseteq S
  BY <1>1, <1>2, NatSetInduction
<1>4. SUFFICES ASSUME NEW k \in 0 .. n PROVE PartialSums(f, n)[k] \in Int
  OBVIOUS
<1>5. k \in S /\ k <= n
  BY <1>3
<1> QED BY <1>5 DEF S

-----------------------------------------------------------------------------
\* A sum of integers is an integer.
LEMMA SumType ==
  ASSUME NEW n \in Nat, NEW f \in [1 .. n -> Int]
  PROVE  SumOf(f, n) \in Int
<1>1. n \in 0 .. n
  OBVIOUS
<1> QED BY <1>1, PartialSumsType DEF SumOf

\* The sum of f + h is the sum of f plus the sum of h.
LEMMA SumAdd ==
  ASSUME NEW n \in Nat, NEW f \in [1 .. n -> Int], NEW h \in [1 .. n -> Int],
         NEW g \in [1 .. n -> Int], \A k \in 1 .. n : g[k] = f[k] + h[k]
  PROVE  SumOf(g, n) = SumOf(f, n) + SumOf(h, n)
<1> DEFINE F == PartialSums(f, n)
<1> DEFINE H == PartialSums(h, n)
<1> DEFINE G == PartialSums(g, n)
<1>1. /\ F[0] = 0 /\ \A k \in 1 .. n : F[k] = F[k - 1] + f[k]
      /\ H[0] = 0 /\ \A k \in 1 .. n : H[k] = H[k - 1] + h[k]
      /\ G[0] = 0 /\ \A k \in 1 .. n : G[k] = G[k - 1] + g[k]
  BY PartialSumsEquation
<1>2. \A k \in 0 .. n : F[k] \in Int /\ H[k] \in Int /\ G[k] \in Int
  BY PartialSumsType
<1> HIDE DEF F, G, H
<1> DEFINE S == {m \in Nat : m <= n => G[m] = F[m] + H[m]}
<1>3. 0 \in S
  BY <1>1
<1>4. \A m \in Nat : m \in S => m + 1 \in S
  <2> SUFFICES ASSUME NEW m \in Nat, m \in S, m + 1 <= n
               PROVE  G[m + 1] = F[m + 1] + H[m + 1]
    OBVIOUS
  <2> DEFINE k == m + 1
  <2>1. k \in 1 .. n /\ k - 1 = m /\ m \in 0 .. n /\ G[m] = F[m] + H[m]
    OBVIOUS
  <2>2. G[k] = G[m] + g[k] /\ F[k] = F[m] + f[k] /\ H[k] = H[m] + h[k]
    BY <1>1, <2>1
  <2>3. F[m] \in Int /\ H[m] \in Int /\ f[k] \in Int /\ h[k] \in Int /\ g[k] = f[k] + h[k]
    BY <1>2, <2>1
  <2> HIDE DEF k
  <2>4. G[k] = F[k] + H[k]
    BY <2>1, <2>2, <2>3
  <2> QED BY <2>4 DEF k
<1> HIDE DEF S
<1>5. n \in S /\ n <= n
  <2>1. Nat \subseteq S
    BY <1>3, <1>4, NatSetInduction
  <2> QED BY <2>1
<1>6. G[n] = F[n] + H[n]
  BY <1>5 DEF S
<1> QED BY <1>6 DEF F, G, H, SumOf

\* The sum of a function that is nowhere negative is not negative, and bounds
\* each of its values.
LEMMA SumBounds ==
  ASSUME NEW n \in Nat, NEW f \in [1 .. n -> Nat]
  PROVE  /\ SumOf(f, n) \in Nat
         /\ \A b \in 1 .. n : f[b] <= SumOf(f, n)
<1> DEFINE F == PartialSums(f, n)
<1>0. f \in [1 .. n -> Int]
  OBVIOUS
<1>1. F[0] = 0 /\ \A k \in 1 .. n : F[k] = F[k - 1] + f[k]
  BY <1>0, PartialSumsEquation
<1> HIDE DEF F
<1> DEFINE S == {m \in Nat : m <= n => F[m] \in Nat /\ \A b \in 1 .. m : f[b] <= F[m]}
<1>2. 0 \in S
  BY <1>1
<1>3. \A m \in Nat : m \in S => m + 1 \in S
  <2> SUFFICES ASSUME NEW m \in Nat, m \in S, m + 1 <= n
               PROVE  F[m + 1] \in Nat /\ \A b \in 1 .. (m + 1) : f[b] <= F[m + 1]
    OBVIOUS
  <2>1. m <= n /\ m + 1 \in 1 .. n /\ (m + 1) - 1 = m
    OBVIOUS
  <2>2. F[m] \in Nat /\ \A b \in 1 .. m : f[b] <= F[m]
    BY <2>1
  <2>3. F[m + 1] = F[m] + f[m + 1] /\ f[m + 1] \in Nat
    BY <1>1, <2>1
  <2>4. F[m + 1] \in Nat
    BY <2>2, <2>3
  <2>5. ASSUME NEW b \in 1 .. (m + 1) PROVE f[b] <= F[m + 1]
    <3>1. CASE b = m + 1
      BY <3>1, <2>2, <2>3
    <3>2. CASE b # m + 1
      <4>1. b \in 1 .. m /\ b \in 1 .. n
        BY <3>2
      <4>2. f[b] \in Nat /\ f[b] <= F[m]
        BY <4>1, <2>2
      <4> QED BY <4>2, <2>2, <2>3
    <3> QED BY <3>1, <3>2
  <2> QED BY <2>4, <2>5
<1> HIDE DEF S
<1>4. n \in S /\ n <= n
  <2>1. Nat \subseteq S
    BY <1>2, <1>3, NatSetInduction
  <2> QED BY <2>1
<1>5. F[n] \in Nat /\ \A b \in 1 .. n : f[b] <= F[n]
  BY <1>4 DEF S
<1> QED BY <1>5 DEF F, SumOf

\* A function that is zero everywhere sums to zero.
LEMMA SumZero ==
  ASSUME NEW n \in Nat, NEW f \in [1 .. n -> Int], \A k \in 1 .. n : f[k] = 0
  PROVE  SumOf(f, n) = 0
<1>1. SumOf(f, n) = SumOf(f, n) + SumOf(f, n) /\ SumOf(f, n) \in Int
  BY SumAdd, SumType
<1> QED BY <1>1

\* A function that is d at one index and zero elsewhere sums to d.
LEMMA SumPoint ==
  ASSUME NEW n \in Nat, NEW j \in 1 .. n, NEW f \in [1 .. n -> Int],
         \A k \in 1 .. n : k # j => f[k] = 0
  PROVE  SumOf(f, n) = f[j]
<1> DEFINE F == PartialSums(f, n)
<1>1. F[0] = 0 /\ \A k \in 1 .. n : F[k] = F[k - 1] + f[k]
  BY PartialSumsEquation
<1> HIDE DEF F
<1> DEFINE S == {m \in Nat : m <= n => F[m] = IF m < j THEN 0 ELSE f[j]}
<1>2. 0 \in S
  BY <1>1
<1>3. \A m \in Nat : m \in S => m + 1 \in S
  <2> SUFFICES ASSUME NEW m \in Nat, m \in S, m + 1 <= n
               PROVE  F[m + 1] = IF m + 1 < j THEN 0 ELSE f[j]
    OBVIOUS
  <2>1. m <= n /\ m + 1 \in 1 .. n /\ (m + 1) - 1 = m
    OBVIOUS
  <2>2. F[m] = IF m < j THEN 0 ELSE f[j]
    BY <2>1
  <2>3. F[m + 1] = F[m] + f[m + 1] /\ f[j] \in Int
    BY <1>1, <2>1
  <2>4. CASE m + 1 = j
    BY <2>2, <2>3, <2>4
  <2>5. CASE m + 1 # j
    <3>1. f[m + 1] = 0
      BY <2>1, <2>5
    <3> QED BY <3>1, <2>2, <2>3, <2>5
  <2> QED BY <2>4, <2>5
<1> HIDE DEF S
<1>4. n \in S /\ n <= n
  <2>1. Nat \subseteq S
    BY <1>2, <1>3, NatSetInduction
  <2> QED BY <2>1
<1>5. F[n] = f[j]
  BY <1>4 DEF S
<1> QED BY <1>5 DEF F, SumOf

\* Changing one value changes the sum by as much.
LEMMA SumChange ==
  ASSUME NEW n \in Nat, NEW j \in 1 .. n, NEW f \in [1 .. n -> Int],
         NEW g \in [1 .. n -> Int], \A k \in 1 .. n : k # j => g[k] = f[k]
  PROVE  SumOf(g, n) = SumOf(f, n) + (g[j] - f[j])
<1> DEFINE h == [k \in 1 .. n |-> g[k] - f[k]]
<1>1. h \in [1 .. n -> Int] /\ \A k \in 1 .. n : k # j => h[k] = 0
  OBVIOUS
<1>2. \A k \in 1 .. n : g[k] = f[k] + h[k]
  OBVIOUS
<1>3. h[j] = g[j] - f[j]
  OBVIOUS
<1> HIDE DEF h
<1>4. SumOf(h, n) = h[j]
  BY <1>1, SumPoint
<1>5. SumOf(g, n) = SumOf(f, n) + SumOf(h, n)
  BY <1>1, <1>2, SumAdd
<1> QED BY <1>3, <1>4, <1>5

\* The sum of the rows of a matrix is the sum of its columns.
LEMMA SumSwap ==
  ASSUME NEW m \in Nat, NEW n \in Nat, NEW f \in [1 .. m -> [1 .. n -> Int]]
  PROVE  SumOf([i \in 1 .. m |-> SumOf(f[i], n)], m)
           = SumOf([j \in 1 .. n |-> SumOf([i \in 1 .. m |-> f[i][j]], m)], n)
<1> DEFINE rows == [i \in 1 .. m |-> SumOf(f[i], n)]
<1> DEFINE column(j) == [i \in 1 .. m |-> f[i][j]]
<1> DEFINE upto(k) == [j \in 1 .. n |-> PartialSums(column(j), m)[k]]
<1>1. rows \in [1 .. m -> Int]
  BY SumType
<1>2. \A j \in 1 .. n : column(j) \in [1 .. m -> Int]
  OBVIOUS
<1> DEFINE S == {k \in Nat : k <= m => PartialSums(rows, m)[k] = SumOf(upto(k), n)}
<1>3. \A k \in 0 .. m : upto(k) \in [1 .. n -> Int]
  BY <1>2, PartialSumsType
<1>4. 0 \in S
  <2>1. PartialSums(rows, m)[0] = 0 /\ \A j \in 1 .. n : PartialSums(column(j), m)[0] = 0
    BY <1>1, <1>2, PartialSumsEquation
  <2>2. 0 \in 0 .. m /\ \A j \in 1 .. n : upto(0)[j] = 0
    BY <2>1
  <2>3. upto(0) \in [1 .. n -> Int]
    BY <1>3, <2>2
  <2> HIDE DEF upto
  <2>4. SumOf(upto(0), n) = 0
    BY <2>2, <2>3, SumZero
  <2> QED BY <2>1, <2>4
<1>5. \A k \in Nat : k \in S => k + 1 \in S
  <2> HIDE DEF rows, upto
  <2> SUFFICES ASSUME NEW k \in Nat, k \in S, k + 1 <= m
               PROVE  PartialSums(rows, m)[k + 1] = SumOf(upto(k + 1), n)
    OBVIOUS
  <2> USE DEF rows, upto
  <2>1. k \in 0 .. m /\ k + 1 \in 1 .. m /\ k + 1 \in 0 .. m /\ (k + 1) - 1 = k
        /\ PartialSums(rows, m)[k] = SumOf(upto(k), n)
    OBVIOUS
  <2>2. PartialSums(rows, m)[k + 1] = PartialSums(rows, m)[k] + rows[k + 1]
    BY <1>1, <2>1, PartialSumsEquation
  <2>3. \A j \in 1 .. n : upto(k + 1)[j] = upto(k)[j] + f[k + 1][j]
    BY <1>2, <2>1, PartialSumsEquation
  <2>4. upto(k) \in [1 .. n -> Int] /\ upto(k + 1) \in [1 .. n -> Int] /\ f[k + 1] \in [1 .. n -> Int]
    BY <1>3, <2>1
  <2>5. rows[k + 1] = SumOf(f[k + 1], n)
    BY <2>1
  <2> HIDE DEF upto, rows
  <2>6. SumOf(upto(k + 1), n) = SumOf(upto(k), n) + SumOf(f[k + 1], n)
    BY <2>3, <2>4, SumAdd
  <2> QED BY <2>1, <2>2, <2>5, <2>6
<1>6. PartialSums(rows, m)[m] = SumOf(upto(m), n)
  <2> HIDE DEF S
  <2>1. m \in S
    BY <1>4, <1>5, NatSetInduction
  <2> QED BY <2>1 DEF S
<1>7. upto(m) = [j \in 1 .. n |-> SumOf(column(j), m)]
  BY DEF SumOf
<1> QED BY <1>6, <1>7 DEF SumOf

\* Indices that are not all missing have a last one.
LEMMA LastIndex ==
  ASSUME NEW n \in Nat, NEW T \in SUBSET (1 .. n), T # {}
  PROVE  \E i \in T : \A j \in T : j <= i
<1> DEFINE HasLast(U) == \E i \in U : \A j \in U : j <= i
<1> DEFINE S == {m \in Nat : \A U \in SUBSET (1 .. m) : U # {} => HasLast(U)}
<1>1. 0 \in S
  <2>1. 1 .. 0 = {}
    OBVIOUS
  <2> QED BY <2>1
<1>2. \A m \in Nat : m \in S => m + 1 \in S
  <2> SUFFICES ASSUME NEW m \in Nat, m \in S, NEW U \in SUBSET (1 .. m + 1), U # {}
               PROVE  HasLast(U)
    OBVIOUS
  <2>1. CASE m + 1 \in U
    <3>1. \A j \in U : j <= m + 1
      OBVIOUS
    <3> QED BY <2>1, <3>1
  <2>2. CASE m + 1 \notin U
    <3>1. \A j \in U : j \in 1 .. m
      BY <2>2
    <3>2. U \in SUBSET (1 .. m)
      BY <3>1
    <3> QED BY <3>2
  <2> QED BY <2>1, <2>2
<1>3. n \in S
  <2> HIDE DEF S
  <2> QED BY <1>1, <1>2, NatSetInduction
<1> QED BY <1>3
=============================================================================
