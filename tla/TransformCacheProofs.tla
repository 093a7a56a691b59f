--------------------------- MODULE TransformCacheProofs ---------------------------
(***************************************************************************)
(* What TransformCache guarantees for every set of contents and engines,    *)
(* sizes, limits, clients and number of calls.                              *)
(***************************************************************************)
EXTENDS TransformCache, FiniteSetTheorems, SequenceTheorems, WellFoundedInduction, TLAPS

-----------------------------------------------------------------------------
(* Natural numbers: a least element, in place of induction *)

LEMMA Least ==
  ASSUME NEW T \in SUBSET Nat, T # {}
  PROVE  \E x \in T : \A y \in T : x <= y
<1>1. PICK x \in T : \A y \in T : ~ (<<y, x>> \in OpToRel(<, Nat))
  BY WFMin, NatLessThanWellFounded
<1>2. \A y \in T : ~ (y < x)
  BY <1>1 DEF OpToRel
<1> QED
  BY <1>2

LEMMA MinIn == ASSUME NEW T \in SUBSET Nat, T # {} PROVE Min(T) \in T
  BY Least DEF Min

\* What holds at 0 and is passed on holds up to the end.
LEMMA PassedOn ==
  ASSUME NEW N \in Nat, NEW V, NEW f, f[0] \in V,
         \A n \in 1..N : f[n - 1] \in V => f[n] \in V
  PROVE  \A n \in 0..N : f[n] \in V
<1> DEFINE Bad == {n \in 0..N : f[n] \notin V}
<1>1. Bad \in SUBSET Nat
  OBVIOUS
<1>2. SUFFICES ASSUME Bad # {} PROVE FALSE
  OBVIOUS
<1>3. \E n \in Bad : \A m \in Bad : n <= m
  <2> HIDE DEF Bad
  <2> QED
    BY <1>1, <1>2, Least
<1>4. PICK n \in Bad : \A m \in Bad : n <= m
  BY <1>3
<1>5. n \in 1..N /\ n - 1 \in 0..N /\ n - 1 \notin Bad
  BY <1>4
<1> QED
  BY <1>4, <1>5

\* A function that starts with base and goes on by a given step is there.
Goes(F, m, V, base, G) ==
    F \in [0..m -> V] /\ F[0] = base /\ \A n \in 1..m : F[n] = G[n][F[n - 1]]

LEMMA Iterated ==
  ASSUME NEW N \in Nat, NEW V, NEW base \in V, NEW G \in [1..N -> [V -> V]]
  PROVE  \E F : Goes(F, N, V, base, G)
<1> DEFINE Bad == {m \in 0..N : ~ \E F : Goes(F, m, V, base, G)}
<1>1. Bad \in SUBSET Nat
  OBVIOUS
<1>2. SUFFICES ASSUME Bad # {} PROVE FALSE
  <2>1. Bad = {} => N \notin Bad
    OBVIOUS
  <2>2. N \in 0..N
    OBVIOUS
  <2> QED
    BY <2>1, <2>2
<1>3. PICK m \in Bad : \A k \in Bad : m <= k
  <2> HIDE DEF Bad
  <2> QED
    BY <1>1, <1>2, Least
<1>4. Goes([n \in 0..0 |-> base], 0, V, base, G)
  BY DEF Goes
<1>5. m # 0
  BY <1>4
<1>6. m \in 1..N /\ m - 1 \in 0..N /\ m - 1 \notin Bad
  BY <1>3, <1>5
<1>7. PICK F : Goes(F, m - 1, V, base, G)
  BY <1>6
<1> DEFINE H == [n \in 0..m |-> IF n = m THEN G[m][F[m - 1]] ELSE F[n]]
<1>8. H \in [0..m -> V] /\ H[0] = base
  BY <1>6, <1>7 DEF Goes
<1>9. \A n \in 1..m : H[n] = G[n][H[n - 1]]
  BY <1>6, <1>7 DEF Goes
<1>10. Goes(H, m, V, base, G)
  BY <1>8, <1>9 DEF Goes
<1> QED
  BY <1>3, <1>10

-----------------------------------------------------------------------------
(* Sums: induction over a number by its least counterexample *)

\* What is in T at 0 and goes on from each n to the next is everywhere up to N.
LEMMA Reaches ==
  ASSUME NEW N \in Nat, NEW T, 0 \in T, \A n \in 1..N : n - 1 \in T => n \in T
  PROVE  \A n \in 0..N : n \in T
<1> DEFINE f == [n \in 0..N |-> n]
<1>1. f[0] \in T /\ \A n \in 1..N : f[n - 1] \in T => f[n] \in T
  OBVIOUS
<1>2. \A n \in 0..N : f[n] \in T
  <2> HIDE DEF f
  <2> QED
    BY <1>1, PassedOn
<1> QED
  BY <1>2

\* f[1] + ... + f[n].
SumTo(f, n) ==
    LET sum[m \in 0..n] == IF m = 0 THEN 0 ELSE sum[m - 1] + f[m]
    IN  sum[n]

\* A running sum of f.
Runs(F, f, n) == F \in [0..n -> Nat] /\ F[0] = 0 /\ \A m \in 1..n : F[m] = F[m - 1] + f[m]

Summable(f, n) == \A i \in 1..n : f[i] \in Nat

LEMMA SumRuns ==
  ASSUME NEW n \in Nat, NEW f, Summable(f, n)
  PROVE  \E F : Runs(F, f, n) /\ F[n] = SumTo(f, n)
<1> DEFINE G == [m \in 1..n |-> [x \in Nat |-> x + f[m]]]
           Sums(g) == g = [m \in 0..n |-> IF m = 0 THEN 0 ELSE g[m - 1] + f[m]]
           sum == CHOOSE g : Sums(g)
<1>1. G \in [1..n -> [Nat -> Nat]]
  BY DEF Summable
<1>2. PICK F : Goes(F, n, Nat, 0, G)
  <2> HIDE DEF G
  <2> QED
    BY <1>1, Iterated
<1>3. \A m \in 1..n : F[m] = F[m - 1] + f[m]
  <2> SUFFICES ASSUME NEW m \in 1..n PROVE F[m] = F[m - 1] + f[m]
    OBVIOUS
  <2>1. F[m] = G[m][F[m - 1]]
    BY <1>2 DEF Goes
  <2>2. m - 1 \in 0..n /\ F[m - 1] \in Nat
    BY <1>2 DEF Goes
  <2>3. \A x \in Nat : G[m][x] = x + f[m]
    OBVIOUS
  <2> HIDE DEF G
  <2> QED
    BY <2>1, <2>2, <2>3
<1>4. Sums(F)
  <2> HIDE DEF G
  <2> QED
    BY <1>2, <1>3 DEF Goes
<1>5. Sums(sum)
  BY <1>4
<1>6. sum[0] = 0 /\ \A m \in 1..n : sum[m] = sum[m - 1] + f[m]
  <2> HIDE DEF sum
  <2> QED
    BY <1>5
<1>7. sum[0] \in Nat /\ \A m \in 1..n : sum[m - 1] \in Nat => sum[m] \in Nat
  <2> HIDE DEF sum
  <2> QED
    BY <1>6 DEF Summable
<1>8. \A m \in 0..n : sum[m] \in Nat
  <2> HIDE DEF sum
  <2> QED
    BY <1>7, PassedOn
<1>9. sum \in [0..n -> Nat]
  <2> HIDE DEF sum
  <2> QED
    BY <1>5, <1>8
<1>10. sum[n] = SumTo(f, n)
  BY DEF SumTo
<1> HIDE DEF sum
<1> QED
  BY <1>6, <1>9, <1>10 DEF Runs

\* Two running sums that add the same numbers are the same.
LEMMA RunsAgree ==
  ASSUME NEW n \in Nat, NEW f, NEW g, Summable(f, n), NEW F, NEW H, NEW m \in 0..n,
         \A i \in 1..m : f[i] = g[i], Runs(F, f, n), Runs(H, g, m)
  PROVE  F[m] = H[m]
<1> DEFINE T == {i \in 0..m : F[i] = H[i]}
<1>1. 0 \in T
  BY DEF Runs
<1>2. ASSUME NEW i \in 1..m, i - 1 \in T PROVE i \in T
  <2>1. i \in 1..n /\ f[i] = g[i]
    OBVIOUS
  <2>2. F[i] = F[i - 1] + f[i] /\ H[i] = H[i - 1] + g[i]
    BY <2>1 DEF Runs
  <2> QED
    BY <1>2, <2>1, <2>2
<1>3. \A i \in 0..m : i \in T
  <2> HIDE DEF T
  <2> QED
    BY <1>1, <1>2, Reaches
<1> QED
  BY <1>3

\* A running sum is the sum, at every point.
LEMMA RunsSum ==
  ASSUME NEW n \in Nat, NEW f, Summable(f, n), NEW F, Runs(F, f, n), NEW m \in 0..n
  PROVE  F[m] = SumTo(f, m)
<1>1. Summable(f, m)
  BY DEF Summable
<1>2. PICK H : Runs(H, f, m) /\ H[m] = SumTo(f, m)
  BY <1>1, SumRuns
<1> QED
  BY <1>2, RunsAgree

LEMMA SumType ==
  ASSUME NEW n \in Nat, NEW f, Summable(f, n) PROVE SumTo(f, n) \in Nat
<1>1. PICK F : Runs(F, f, n) /\ F[n] = SumTo(f, n)
  BY SumRuns
<1> QED
  BY <1>1 DEF Runs

LEMMA SumOfNone == ASSUME NEW f PROVE SumTo(f, 0) = 0
<1>1. Summable(f, 0)
  BY DEF Summable
<1>2. PICK F : Runs(F, f, 0) /\ F[0] = SumTo(f, 0)
  BY <1>1, SumRuns
<1> QED
  BY <1>2 DEF Runs

LEMMA SumStep ==
  ASSUME NEW n \in Nat, n # 0, NEW f, Summable(f, n)
  PROVE  SumTo(f, n) = SumTo(f, n - 1) + f[n]
<1>1. PICK F : Runs(F, f, n) /\ F[n] = SumTo(f, n)
  BY SumRuns
<1>2. n - 1 \in 0..n /\ n \in 1..n
  OBVIOUS
<1>3. F[n - 1] = SumTo(f, n - 1)
  BY <1>1, <1>2, RunsSum
<1> QED
  BY <1>1, <1>2, <1>3 DEF Runs

\* Only what is added counts.
LEMMA SumSame ==
  ASSUME NEW n \in Nat, NEW f, NEW g, Summable(f, n), \A i \in 1..n : f[i] = g[i]
  PROVE  SumTo(f, n) = SumTo(g, n)
<1>1. Summable(g, n)
  BY DEF Summable
<1>2. PICK F : Runs(F, f, n) /\ F[n] = SumTo(f, n)
  BY SumRuns
<1>3. PICK H : Runs(H, g, n) /\ H[n] = SumTo(g, n)
  BY <1>1, SumRuns
<1>4. n \in 0..n
  OBVIOUS
<1> QED
  BY <1>2, <1>3, <1>4, RunsAgree

\* The sum of sums is the sum of both.
LEMMA SumAdds ==
  ASSUME NEW n \in Nat, NEW f, NEW g, NEW h, Summable(f, n), Summable(g, n),
         \A i \in 1..n : h[i] = f[i] + g[i]
  PROVE  SumTo(h, n) = SumTo(f, n) + SumTo(g, n)
<1> DEFINE T == {m \in 0..n : SumTo(h, m) = SumTo(f, m) + SumTo(g, m)}
<1>1. 0 \in T
  BY SumOfNone
<1>2. ASSUME NEW m \in 1..n, m - 1 \in T PROVE m \in T
  <2>1. Summable(f, m) /\ Summable(g, m) /\ Summable(h, m)
        /\ Summable(f, m - 1) /\ Summable(g, m - 1)
    BY DEF Summable
  <2>2. m \in Nat /\ m # 0 /\ m - 1 \in Nat
    OBVIOUS
  <2>3. /\ SumTo(f, m) = SumTo(f, m - 1) + f[m]
        /\ SumTo(g, m) = SumTo(g, m - 1) + g[m]
        /\ SumTo(h, m) = SumTo(h, m - 1) + h[m]
    BY <2>1, <2>2, SumStep
  <2>4. SumTo(f, m - 1) \in Nat /\ SumTo(g, m - 1) \in Nat /\ f[m] \in Nat /\ g[m] \in Nat
    BY <2>1, <2>2, SumType DEF Summable
  <2> QED
    BY <1>2, <2>3, <2>4
<1>3. \A m \in 0..n : m \in T
  <2> HIDE DEF T
  <2> QED
    BY <1>1, <1>2, Reaches
<1> QED
  BY <1>3

\* Where every number is at most another, so is the sum.
LEMMA SumGrows ==
  ASSUME NEW n \in Nat, NEW f, NEW g, Summable(f, n), Summable(g, n),
         \A i \in 1..n : f[i] <= g[i]
  PROVE  SumTo(f, n) <= SumTo(g, n)
<1> DEFINE h == [i \in 1..n |-> g[i] - f[i]]
<1>1. Summable(h, n) /\ \A i \in 1..n : g[i] = f[i] + h[i]
  BY DEF Summable
<1> HIDE DEF h
<1>2. SumTo(g, n) = SumTo(f, n) + SumTo(h, n)
  BY <1>1, SumAdds
<1>3. SumTo(f, n) \in Nat /\ SumTo(h, n) \in Nat
  BY <1>1, SumType
<1> QED
  BY <1>2, <1>3

LEMMA SumOfZeros ==
  ASSUME NEW n \in Nat, NEW f, \A i \in 1..n : f[i] = 0 PROVE SumTo(f, n) = 0
<1>1. Summable(f, n)
  BY DEF Summable
<1>2. \A i \in 1..n : f[i] = f[i] + f[i]
  OBVIOUS
<1>3. SumTo(f, n) = SumTo(f, n) + SumTo(f, n)
  BY <1>1, <1>2, SumAdds
<1>4. SumTo(f, n) \in Nat
  BY <1>1, SumType
<1>5. \A x \in Nat : x = x + x => x = 0
  OBVIOUS
<1> QED
  BY <1>3, <1>4, <1>5, Zenon

\* One number in place of another.
LEMMA SumDiffers ==
  ASSUME NEW n \in Nat, NEW f, NEW g, Summable(f, n), Summable(g, n), NEW j \in 1..n,
         \A i \in 1..n : i # j => f[i] = g[i]
  PROVE  SumTo(f, n) + g[j] = SumTo(g, n) + f[j]
<1> DEFINE P(m) == IF m < j THEN SumTo(f, m) = SumTo(g, m)
                   ELSE SumTo(f, m) + g[j] = SumTo(g, m) + f[j]
           T == {m \in 0..n : P(m)}
<1>1. 0 \in T
  BY SumOfNone
<1>2. ASSUME NEW m \in 1..n, m - 1 \in T PROVE m \in T
  <2>1. Summable(f, m) /\ Summable(g, m) /\ Summable(f, m - 1) /\ Summable(g, m - 1)
    BY DEF Summable
  <2>2. m \in Nat /\ m # 0 /\ m - 1 \in Nat
    OBVIOUS
  <2>3. /\ SumTo(f, m) = SumTo(f, m - 1) + f[m]
        /\ SumTo(g, m) = SumTo(g, m - 1) + g[m]
    BY <2>1, <2>2, SumStep
  <2>4. /\ SumTo(f, m - 1) \in Nat /\ SumTo(g, m - 1) \in Nat /\ f[m] \in Nat /\ g[m] \in Nat
        /\ f[j] \in Nat /\ g[j] \in Nat
    BY <2>1, <2>2, SumType DEF Summable
  <2>5. P(m - 1)
    BY <1>2
  <2>6. CASE m < j
    BY <2>3, <2>4, <2>5, <2>6
  <2>7. CASE m = j
    BY <2>3, <2>4, <2>5, <2>7
  <2>8. CASE m > j
    BY <2>3, <2>4, <2>5, <2>8
  <2> QED
    BY <2>6, <2>7, <2>8
<1>3. \A m \in 0..n : m \in T
  <2> HIDE DEF T
  <2> QED
    BY <1>1, <1>2, Reaches
<1>4. P(n)
  BY <1>3
<1> QED
  BY <1>4

\* Each number is at most the sum.
LEMMA SumHolds ==
  ASSUME NEW n \in Nat, NEW f, Summable(f, n), NEW j \in 1..n
  PROVE  f[j] <= SumTo(f, n)
<1> DEFINE g == [i \in 1..n |-> IF i = j THEN 0 ELSE f[i]]
<1>1. Summable(g, n) /\ g[j] = 0 /\ \A i \in 1..n : i # j => f[i] = g[i]
  BY DEF Summable
<1> HIDE DEF g
<1>2. SumTo(f, n) + g[j] = SumTo(g, n) + f[j]
  BY <1>1, SumDiffers
<1>3. SumTo(f, n) \in Nat /\ SumTo(g, n) \in Nat /\ f[j] \in Nat
  BY <1>1, SumType DEF Summable
<1> QED
  BY <1>1, <1>2, <1>3

\* A sum in two parts.
LEMMA SumJoins ==
  ASSUME NEW n \in Nat, NEW m \in Nat, NEW f, NEW g, NEW h, Summable(f, n), Summable(g, m),
         \A i \in 1..n : h[i] = f[i], \A i \in 1..m : h[n + i] = g[i]
  PROVE  SumTo(h, n + m) = SumTo(f, n) + SumTo(g, m)
<1>1. Summable(h, n + m)
  <2> SUFFICES ASSUME NEW i \in 1..n + m PROVE h[i] \in Nat
    BY DEF Summable
  <2>1. CASE i <= n
    BY <2>1 DEF Summable
  <2>2. CASE i > n
    <3>1. i - n \in 1..m /\ n + (i - n) = i
      BY <2>2
    <3> QED
      BY <3>1 DEF Summable
  <2> QED
    BY <2>1, <2>2
<1> DEFINE T == {j \in 0..m : SumTo(h, n + j) = SumTo(f, n) + SumTo(g, j)}
<1>2. 0 \in T
  <2>1. SumTo(h, n) = SumTo(f, n) /\ SumTo(f, n) \in Nat
    BY SumSame, SumType
  <2> QED
    BY <2>1, SumOfNone
<1>3. ASSUME NEW j \in 1..m, j - 1 \in T PROVE j \in T
  <2>1. /\ n + j \in Nat /\ n + j # 0 /\ j # 0 /\ j \in Nat /\ j - 1 \in Nat
        /\ Summable(h, n + j) /\ Summable(g, j) /\ Summable(g, j - 1)
    BY <1>1 DEF Summable
  <2>2. SumTo(h, n + j) = SumTo(h, n + j - 1) + h[n + j]
    BY <2>1, SumStep
  <2>3. SumTo(g, j) = SumTo(g, j - 1) + g[j]
    BY <2>1, SumStep
  <2>4. SumTo(f, n) \in Nat /\ SumTo(g, j - 1) \in Nat /\ g[j] \in Nat
    BY <2>1, SumType DEF Summable
  <2>5. SumTo(h, n + j - 1) = SumTo(f, n) + SumTo(g, j - 1)
    <3>1. SumTo(h, n + (j - 1)) = SumTo(f, n) + SumTo(g, j - 1)
      BY <1>3
    <3>2. n + (j - 1) = n + j - 1
      OBVIOUS
    <3> QED
      BY <3>1, <3>2
  <2> QED
    BY <2>2, <2>3, <2>4, <2>5
<1>4. \A j \in 0..m : j \in T
  <2> HIDE DEF T
  <2> QED
    BY <1>2, <1>3, Reaches
<1> QED
  BY <1>4

-----------------------------------------------------------------------------
(* The recursive functions of the model *)

\* The sizes of the keys in s, one by one.
SizesOf(s) == [n \in 1..Len(s) |-> Size(s[n])]

LEMMA SizeOfSums ==
  ASSUME NEW s \in Seq(Keys)
  PROVE  Summable(SizesOf(s), Len(s)) /\ SizeOf(s) = SumTo(SizesOf(s), Len(s))
<1> DEFINE N == Len(s)
           G == [n \in 1..N |-> [x \in Nat |-> x + Size(s[n])]]
           Sums(f) == f = [n \in 0..N |-> IF n = 0 THEN 0 ELSE f[n - 1] + Size(s[n])]
           sum == CHOOSE f : Sums(f)
<1>1. N \in Nat /\ \A n \in 1..N : Size(s[n]) \in Nat
  BY ConstantsAssumption DEF Size, Keys
<1>2. G \in [1..N -> [Nat -> Nat]]
  BY <1>1
<1>3. PICK F : Goes(F, N, Nat, 0, G)
  <2> HIDE DEF G, N
  <2> QED
    BY <1>1, <1>2, Iterated
<1>4. \A n \in 1..N : F[n] = F[n - 1] + Size(s[n])
  <2> SUFFICES ASSUME NEW n \in 1..N PROVE F[n] = F[n - 1] + Size(s[n])
    OBVIOUS
  <2>1. F[n] = G[n][F[n - 1]]
    BY <1>3 DEF Goes
  <2>2. n - 1 \in 0..N /\ F[n - 1] \in Nat
    BY <1>1, <1>3 DEF Goes
  <2>3. \A x \in Nat : G[n][x] = x + Size(s[n])
    OBVIOUS
  <2> HIDE DEF G
  <2> QED
    BY <2>1, <2>2, <2>3
<1>5. Sums(F)
  <2> HIDE DEF G, N
  <2> QED
    BY <1>1, <1>3, <1>4 DEF Goes
<1>6. Sums(sum)
  BY <1>5
<1>7. sum[0] = 0 /\ \A n \in 1..N : sum[n] = sum[n - 1] + Size(s[n])
  <2> HIDE DEF sum, N
  <2> QED
    BY <1>1, <1>6
<1>8. \A n \in 0..N : sum[n] \in Nat
  <2> HIDE DEF sum, N
  <2>1. sum[0] \in Nat /\ \A n \in 1..N : sum[n - 1] \in Nat => sum[n] \in Nat
    BY <1>1, <1>7
  <2> QED
    BY <1>1, <2>1, PassedOn
<1>9. sum \in [0..N -> Nat]
  <2> HIDE DEF sum, N
  <2> QED
    BY <1>6, <1>8
<1>10. sum[N] = SizeOf(s)
  BY DEF SizeOf
<1>11. Summable(SizesOf(s), N) /\ \A n \in 1..N : SizesOf(s)[n] = Size(s[n])
  BY <1>1 DEF SizesOf, Summable
<1> HIDE DEF sum, N
<1>12. Runs(sum, SizesOf(s), N)
  BY <1>7, <1>9, <1>11 DEF Runs
<1>13. sum[N] = SumTo(SizesOf(s), N)
  BY <1>1, <1>11, <1>12, RunsSum
<1> QED
  BY <1>10, <1>11, <1>13 DEF N

LEMMA SizeOfType == ASSUME NEW s \in Seq(Keys) PROVE SizeOf(s) \in Nat
  BY SizeOfSums, SumType

\* Kept goes through s and takes what is in T.
Keeping(F, s, T) ==
    /\ F \in [0..Len(s) -> Seq(Keys)] /\ F[0] = <<>> /\ F[Len(s)] = Kept(s, T)
    /\ \A n \in 1..Len(s) :
         F[n] = IF s[n] \in T THEN Append(F[n - 1], s[n]) ELSE F[n - 1]

LEMMA KeptGoes == ASSUME NEW s \in Seq(Keys), NEW T PROVE \E F : Keeping(F, s, T)
<1> DEFINE N == Len(s)
           G == [n \in 1..N |-> [x \in Seq(Keys) |-> IF s[n] \in T THEN Append(x, s[n]) ELSE x]]
           Keeps(f) == f = [n \in 0..N |->
                              IF n = 0 THEN <<>>
                              ELSE IF s[n] \in T THEN Append(f[n - 1], s[n]) ELSE f[n - 1]]
           kept == CHOOSE f : Keeps(f)
<1>1. N \in Nat /\ <<>> \in Seq(Keys) /\ \A n \in 1..N : s[n] \in Keys
  OBVIOUS
<1>2. G \in [1..N -> [Seq(Keys) -> Seq(Keys)]]
  BY <1>1
<1>3. PICK F : Goes(F, N, Seq(Keys), <<>>, G)
  <2> HIDE DEF G, N
  <2> QED
    BY <1>1, <1>2, Iterated
<1>4. \A n \in 1..N : F[n] = IF s[n] \in T THEN Append(F[n - 1], s[n]) ELSE F[n - 1]
  <2> SUFFICES ASSUME NEW n \in 1..N
               PROVE  F[n] = IF s[n] \in T THEN Append(F[n - 1], s[n]) ELSE F[n - 1]
    OBVIOUS
  <2>1. F[n] = G[n][F[n - 1]]
    BY <1>3 DEF Goes
  <2>2. n - 1 \in 0..N /\ F[n - 1] \in Seq(Keys)
    <3> HIDE DEF N
    <3>1. n - 1 \in 0..N
      BY <1>1
    <3>2. F \in [0..N -> Seq(Keys)]
      BY <1>3 DEF Goes
    <3> QED
      BY <3>1, <3>2
  <2>3. \A x \in Seq(Keys) : G[n][x] = IF s[n] \in T THEN Append(x, s[n]) ELSE x
    OBVIOUS
  <2> HIDE DEF G
  <2> QED
    BY <2>1, <2>2, <2>3
<1>5. Keeps(F)
  <2> HIDE DEF G, N
  <2>1. F \in [0..N -> Seq(Keys)] /\ F[0] = <<>>
    BY <1>3 DEF Goes
  <2>2. \A n \in 0..N : F[n] = IF n = 0 THEN <<>>
                               ELSE IF s[n] \in T THEN Append(F[n - 1], s[n]) ELSE F[n - 1]
    <3> SUFFICES ASSUME NEW n \in 0..N, n # 0
                 PROVE  F[n] = IF s[n] \in T THEN Append(F[n - 1], s[n]) ELSE F[n - 1]
      BY <2>1
    <3>1. n \in 1..N
      BY <1>1
    <3> QED
      BY <1>4, <3>1
  <2> QED
    BY <2>1, <2>2
<1>6. Keeps(kept)
  BY <1>5
<1>7. kept[0] = <<>> /\ \A n \in 1..N : kept[n] = IF s[n] \in T THEN Append(kept[n - 1], s[n])
                                                           ELSE kept[n - 1]
  <2> HIDE DEF kept, N
  <2>1. kept[0] = <<>>
    BY <1>1, <1>6
  <2>2. ASSUME NEW n \in 1..N
        PROVE  kept[n] = IF s[n] \in T THEN Append(kept[n - 1], s[n]) ELSE kept[n - 1]
    <3>1. n \in 0..N /\ n # 0
      BY <1>1
    <3>2. kept[n] = IF n = 0 THEN <<>>
                    ELSE IF s[n] \in T THEN Append(kept[n - 1], s[n]) ELSE kept[n - 1]
      BY <1>6, <3>1, Zenon
    <3> QED
      BY <3>1, <3>2
  <2> QED
    BY <2>1, <2>2
<1>8. kept[0] \in Seq(Keys) /\ \A n \in 1..N : kept[n - 1] \in Seq(Keys) => kept[n] \in Seq(Keys)
  <2> HIDE DEF kept, N
  <2>1. ASSUME NEW n \in 1..N, kept[n - 1] \in Seq(Keys) PROVE kept[n] \in Seq(Keys)
    <3>1. s[n] \in Keys /\ kept[n] = IF s[n] \in T THEN Append(kept[n - 1], s[n])
                                                    ELSE kept[n - 1]
      BY <1>1, <1>7
    <3> QED
      BY <2>1, <3>1
  <2> QED
    BY <1>1, <1>7, <2>1
<1>9. kept \in [0..N -> Seq(Keys)]
  <2> HIDE DEF kept, N
  <2>1. \A n \in 0..N : kept[n] \in Seq(Keys)
    BY <1>1, <1>8, PassedOn
  <2> QED
    BY <1>6, <2>1
<1>10. kept[N] = Kept(s, T)
  BY DEF Kept
<1> HIDE DEF kept
<1> QED
  BY <1>7, <1>9, <1>10 DEF Keeping

LEMMA KeptType == ASSUME NEW s \in Seq(Keys), NEW T PROVE Kept(s, T) \in Seq(Keys)
<1>1. PICK F : Keeping(F, s, T)
  BY KeptGoes
<1> QED
  BY <1>1 DEF Keeping

LEMMA RemoveFirstType ==
  ASSUME NEW s \in Seq(Keys), NEW k PROVE RemoveFirst(s, k) \in Seq(Keys)
<1>1. CASE \E i \in 1..Len(s) : s[i] = k
  <2> DEFINE I == {i \in 1..Len(s) : s[i] = k}
             i == Min(I)
  <2>1. I \in SUBSET Nat /\ I # {}
    BY <1>1
  <2>2. i \in I
    <3> HIDE DEF I
    <3> QED
      BY <2>1, MinIn
  <2>3. i \in 1..Len(s)
    BY <2>2
  <2>4. RemoveFirst(s, k) = SubSeq(s, 1, i - 1) \o SubSeq(s, i + 1, Len(s))
    BY <1>1, <2>1 DEF RemoveFirst, RemoveAt, SelectInSeq
  <2> HIDE DEF i
  <2>5. SubSeq(s, 1, i - 1) \in Seq(Keys) /\ SubSeq(s, i + 1, Len(s)) \in Seq(Keys)
    BY <2>3, SubSeqProperties
  <2> QED
    BY <2>4, <2>5, ConcatProperties
<1>2. CASE ~ \E i \in 1..Len(s) : s[i] = k
  BY <1>2 DEF RemoveFirst
<1> QED
  BY <1>1, <1>2

LEMMA TouchedType ==
  ASSUME NEW s \in Seq(Keys), NEW k \in Keys
  PROVE  /\ Touched(s, k) \in Seq(Keys)
         /\ Contains(s, k) => Contains(Touched(s, k), k)
<1> DEFINE r == RemoveFirst(s, k)
<1>1. r \in Seq(Keys)
  BY RemoveFirstType
<1> HIDE DEF r
<1>2. Append(r, k) \in Seq(Keys) /\ Contains(Append(r, k), k)
  BY <1>1 DEF Contains
<1> QED
  BY <1>2 DEF Touched, r

LEMMA LruEntriesType ==
  ASSUME docs \in Seq(Keys), NEW needed \in Int PROVE LruEntries(needed) \in Seq(Keys)
<1> DEFINE L == LruOrder
           enough == {n \in 0..Len(L) : n = Len(L) \/ SizeOf(SubSeq(L, 1, n)) >= needed}
<1>1. L \in Seq(Keys)
  <2> DEFINE Of(ext) == Kept(docs, {k \in Keys : Ext(k) = ext})
  <2>1. \A ext : Of(ext) \in Seq(Keys)
    BY KeptType
  <2> HIDE DEF Of
  <2>2. Of("bin") \o Of("txt") \o Of("md") \in Seq(Keys)
    BY <2>1, ConcatProperties
  <2> QED
    BY <2>2 DEF LruOrder, Of
<1>2. Min(enough) \in 0..Len(L)
  <2>1. Len(L) \in Nat
    <3> HIDE DEF L
    <3> QED
      BY <1>1
  <2>2. enough \in SUBSET Nat /\ Len(L) \in enough /\ enough \subseteq 0..Len(L)
    <3> HIDE DEF L
    <3> QED
      BY <2>1
  <2> HIDE DEF enough
  <2> QED
    BY <2>2, MinIn
<1>3. SubSeq(L, 1, Min(enough)) \in Seq(Keys)
  <2> HIDE DEF L, enough
  <2> QED
    BY <1>1, <1>2, SubSeqProperties
<1> QED
  BY <1>3 DEF LruEntries

-----------------------------------------------------------------------------
(* A step of one call, and what it does to the others *)

Calling == [pc : PCs, key : Keys \cup {<<>>}, seen : Int, victims : Seq(Keys), freed : Nat,
            alone : BOOLEAN]

\* d goes on where it was, but is no longer alone unless it has not begun.
Disturbed(d) ==
    /\ call'[d].pc = call[d].pc /\ call'[d].key = call[d].key
    /\ call'[d].seen = call[d].seen /\ call'[d].victims = call[d].victims
    /\ call'[d].freed = call[d].freed
    /\ call'[d].pc # "idle" => ~call'[d].alone

LEMMA AloneNoMore ==
  ASSUME NEW r \in Calling
  PROVE  /\ [r EXCEPT !.alone = FALSE] \in Calling
         /\ [r EXCEPT !.alone = FALSE].pc = r.pc /\ [r EXCEPT !.alone = FALSE].key = r.key
         /\ [r EXCEPT !.alone = FALSE].seen = r.seen
         /\ [r EXCEPT !.alone = FALSE].victims = r.victims
         /\ [r EXCEPT !.alone = FALSE].freed = r.freed
         /\ ~[r EXCEPT !.alone = FALSE].alone
<1>1. [r EXCEPT !.alone = FALSE] \in Calling
  BY DEF Calling
<1>2. ~[r EXCEPT !.alone = FALSE].alone
  BY DEF Calling
<1> QED
  BY <1>1, <1>2 DEF Calling

LEMMA DisturbType ==
  ASSUME call \in [Clients -> Calling], NEW calm, NEW d \in Clients
  PROVE  /\ Disturb(calm) \in [Clients -> Calling]
         /\ d \notin calm => 
              Disturb(calm)[d] = IF call[d].pc = "idle" THEN call[d]
                                 ELSE [call[d] EXCEPT !.alone = FALSE]
  BY AloneNoMore DEF Disturb

LEMMA StepTakes ==
  ASSUME call \in [Clients -> Calling], NEW c \in Clients, NEW r \in Calling, Step(c, r)
  PROVE  /\ call' \in [Clients -> Calling]
         /\ call'[c] = r
         /\ \A d \in Clients \ {c} : Disturbed(d)
<1>1. Disturb({c}) \in [Clients -> Calling]
  BY DisturbType
<1>2. call' \in [Clients -> Calling] /\ call'[c] = r
  BY <1>1 DEF Step
<1>3. ASSUME NEW d \in Clients \ {c} PROVE Disturbed(d)
  <2>1. call'[d] = Disturb({c})[d]
    BY <1>1, <1>3 DEF Step
  <2>2. CASE call[d].pc = "idle"
    <3>1. call'[d] = call[d]
      BY <2>1, <2>2, DisturbType
    <3> QED
      BY <2>2, <3>1 DEF Disturbed
  <2>3. CASE call[d].pc # "idle"
    <3>1. call'[d] = [call[d] EXCEPT !.alone = FALSE] /\ call[d] \in Calling
      BY <2>1, <2>3, DisturbType
    <3> QED
      BY <3>1, AloneNoMore DEF Disturbed
  <2> QED
    BY <2>2, <2>3
<1> QED
  BY <1>2, <1>3

LEMMA AllDisturbed ==
  ASSUME call \in [Clients -> Calling], call' = Disturb({})
  PROVE  /\ call' \in [Clients -> Calling]
         /\ \A d \in Clients : Disturbed(d)
<1>1. call' \in [Clients -> Calling]
  <2>1. CASE Clients = {}
    BY <2>1 DEF Disturb
  <2>2. CASE Clients # {}
    BY <2>2, DisturbType
  <2> QED
    BY <2>1, <2>2
<1>2. ASSUME NEW d \in Clients PROVE Disturbed(d)
  <2>1. CASE call[d].pc = "idle"
    <3>1. call'[d] = call[d]
      BY <2>1, DisturbType
    <3> QED
      BY <2>1, <3>1 DEF Disturbed
  <2>2. CASE call[d].pc # "idle"
    <3>1. call'[d] = [call[d] EXCEPT !.alone = FALSE] /\ call[d] \in Calling
      BY <2>2, DisturbType
    <3> QED
      BY <3>1, AloneNoMore DEF Disturbed
  <2> QED
    BY <2>1, <2>2
<1> QED
  BY <1>1, <1>2

-----------------------------------------------------------------------------
(* The inductive invariant *)

\* No edit between the checksum of the source and its transform.
Steady == "edit_during" \notin Faults

\* Whatever is on disk was made from the content its name says.
StoreOK ==
    /\ source \in Contents
    /\ disk \in [Keys -> Contents \cup {NoContent}]
    /\ images \subseteq Keys
    /\ docs \in Seq(Keys)
    /\ total \in Int
    /\ admin \in [pc : {"idle", "prune", "reset"}, files : SUBSET Keys]
    /\ calls \in Nat
    /\ upset \in BOOLEAN
    /\ Steady => \A k \in Keys : disk[k] \in {Checksum(k), NoContent}

\* A call evicts only what there is to evict; what it has seen is still there, if it is
\* alone; and until it fetches its text, its key is that of the source.
CallSound(c) ==
    /\ call[c].pc # "idle" => call[c].key \in Keys
    /\ call[c].pc \in {"evict_file", "evict_record"} => call[c].victims # <<>>
    /\ call[c].alone /\ call[c].pc \in {"touch", "fetch", "read"} =>
         Recorded(call[c].key) /\ Exists(call[c].key)
    /\ call[c].alone /\ call[c].pc \in {"stale_save", "stale_unlink", "add_load", "add_save",
                                        "insert"} => Exists(call[c].key)
    /\ Steady /\ call[c].pc \notin {"idle", "fetch", "read"} => Checksum(call[c].key) = source

CallsOK == call \in [Clients -> Calling] /\ \A c \in Clients : CallSound(c)

Answer == [what : {"none", "ok", "failed", "lost"}, made : Contents \cup {NoContent},
           key : Keys \cup {<<>>}, alone : BOOLEAN]

AnswersOK ==
    /\ answer \in [Clients -> Answer]
    /\ ServedAlone
    /\ Steady => AnswersFaithful

CacheInv == StoreOK /\ CallsOK /\ AnswersOK

LEMMA CallsSound ==
  ASSUME CallsOK, UNCHANGED source, NEW c \in Clients, call' \in [Clients -> Calling],
         \A d \in Clients \ {c} : Disturbed(d), CallSound(c)'
  PROVE  CallsOK'
<1>1. ASSUME NEW d \in Clients, d # c PROVE CallSound(d)'
  <2>1. Disturbed(d) /\ CallSound(d)
    BY <1>1 DEF CallsOK
  <2> QED
    BY <2>1 DEF Disturbed, CallSound
<1> QED
  BY <1>1 DEF CallsOK

LEMMA GotoTakes ==
  ASSUME CallsOK, NEW c \in Clients, NEW pc \in PCs, Goto(c, pc)
  PROVE  /\ call' \in [Clients -> Calling]
         /\ call'[c].pc = pc /\ call'[c].key = call[c].key /\ call'[c].victims = call[c].victims
         /\ call'[c].alone => call[c].alone
         /\ \A d \in Clients \ {c} : Disturbed(d)
<1> DEFINE r == [call[c] EXCEPT !.pc = pc]
<1>1. r \in Calling /\ r.pc = pc /\ r.key = call[c].key /\ r.victims = call[c].victims
      /\ (r.alone => call[c].alone)
  BY DEF CallsOK, Calling
<1>2. Step(c, r)
  BY DEF Goto
<1> HIDE DEF r
<1> QED
  BY <1>1, <1>2, StepTakes DEF CallsOK

LEMMA FinishTakes ==
  ASSUME CallsOK, AnswersOK, UNCHANGED source, NEW c \in Clients, call[c].pc # "idle",
         NEW what \in {"ok", "failed", "lost"}, NEW made \in Contents \cup {NoContent},
         Finish(c, what, made), what = "lost" => ~call[c].alone,
         Steady /\ what = "ok" => made = Checksum(call[c].key)
  PROVE  CallsOK' /\ AnswersOK'
<1>1. NoCall \in Calling /\ NoCall.pc = "idle"
  BY DEF NoCall, Calling, PCs
<1>2. /\ call' \in [Clients -> Calling]
      /\ call'[c] = NoCall
      /\ \A d \in Clients \ {c} : Disturbed(d)
  BY <1>1, StepTakes DEF Finish, CallsOK
<1>3. CallSound(c)'
  BY <1>1, <1>2 DEF CallSound
<1>4. CallsOK'
  BY <1>2, <1>3, CallsSound
<1>5. call[c] \in Calling
  BY DEF CallsOK
<1> DEFINE a == [what |-> what, made |-> made, key |-> call[c].key, alone |-> call[c].alone]
<1>6. /\ a \in Answer /\ a.what = what /\ a.made = made /\ a.key = call[c].key
      /\ (a.alone <=> call[c].alone)
  BY <1>5 DEF Answer, Calling
<1>7. answer' = [answer EXCEPT ![c] = a]
  BY DEF Finish
<1> HIDE DEF a
<1>8. answer' \in [Clients -> Answer] /\ answer'[c] = a
      /\ \A d \in Clients \ {c} : answer'[d] = answer[d]
  BY <1>6, <1>7 DEF AnswersOK
<1>9. ServedAlone'
  BY <1>6, <1>8 DEF AnswersOK, ServedAlone
<1>10. Steady => AnswersFaithful'
  BY <1>6, <1>8 DEF AnswersOK, AnswersFaithful
<1> QED
  BY <1>4, <1>8, <1>9, <1>10 DEF AnswersOK, Steady

-----------------------------------------------------------------------------
(* Every step of get_content keeps it *)

\* A step that only moves the call on.
LEMMA MovesOn ==
  ASSUME CacheInv, NEW c \in Clients, NEW pc \in PCs, Goto(c, pc), CallSound(c)',
         UNCHANGED <<source, answer>>
  PROVE  CallsOK' /\ AnswersOK'
<1>1. CallsOK'
  BY GotoTakes, CallsSound DEF CacheInv
<1> QED
  BY <1>1 DEF CacheInv, AnswersOK, ServedAlone, AnswersFaithful

LEMMA BeginKeeps ==
  ASSUME CacheInv, NEW c \in Clients, NEW e \in Engines, Begin(c, e) PROVE CacheInv'
<1> DEFINE first == IF e \in Diffs THEN "diff" ELSE "find"
           k == <<source, e>>
<1>1. k \in Keys /\ first \in {"diff", "find"} /\ Checksum(k) = source
  BY DEF CacheInv, StoreOK, Keys, Checksum
<1>2. PICK b \in BOOLEAN : b = Calm
  BY DEF Calm
<1> DEFINE r == [NoCall EXCEPT !.key = k, !.alone = b, !.pc = first]
<1>3. r \in Calling /\ r.pc = first /\ r.key = k
  <2>1. PICK old \in Calling : old = NoCall
    <3>1. NoCall \in Calling
      BY DEF NoCall, Calling, PCs
    <3> QED
      BY <3>1
  <2>2. r = [old EXCEPT !.key = k, !.alone = b, !.pc = first]
    BY <2>1
  <2>3. first \in PCs /\ b \in BOOLEAN
    BY <1>1, <1>2 DEF PCs
  <2> HIDE DEF r, first, k
  <2>4. r.pc = first /\ r.key = k
    BY <2>2 DEF Calling
  <2>5. r \in Calling
    BY <1>1, <2>2, <2>3 DEF Calling
  <2> QED
    BY <2>4, <2>5
<1>4. Step(c, r)
  <2>1. Step(c, [NoCall EXCEPT !.key = k, !.alone = Calm, !.pc = first])
    BY DEF Begin
  <2> QED
    BY <1>2, <2>1, Zenon
<1> HIDE DEF r, first, k
<1>5. /\ call' \in [Clients -> Calling] /\ call'[c] = r
      /\ \A d \in Clients \ {c} : Disturbed(d)
  BY <1>3, <1>4, StepTakes DEF CacheInv, CallsOK
<1>6. UNCHANGED <<source, disk, images, docs, total, admin>>
  BY DEF Begin
<1>7. CallSound(c)'
  BY <1>1, <1>3, <1>5, <1>6 DEF CallSound
<1>8. CallsOK'
  BY <1>5, <1>6, <1>7, CallsSound DEF CacheInv
<1>9. upset' \in BOOLEAN /\ calls' \in Nat
  BY DEF Begin, CacheInv, StoreOK
<1>10. StoreOK'
  BY <1>6, <1>9 DEF CacheInv, StoreOK, Steady
<1>11. answer' = [answer EXCEPT ![c] = NoAnswer] /\ NoAnswer \in Answer /\ NoAnswer.what = "none"
  BY DEF Begin, NoAnswer, Answer
<1>12. AnswersOK'
  BY <1>11 DEF CacheInv, AnswersOK, ServedAlone, AnswersFaithful
<1> QED
  BY <1>8, <1>10, <1>12 DEF CacheInv

LEMMA FindKeeps ==
  ASSUME CacheInv, NEW c \in Clients, Find(c) \/ Touch(c) PROVE CacheInv'
<1> USE DEF CacheInv
<1>1. CASE Find(c)
  <2>1. PICK pc \in {"space", "stale_load", "touch"} :
          /\ Goto(c, pc)
          /\ pc = "touch" => Recorded(call[c].key) /\ Exists(call[c].key)
    BY <1>1 DEF Find
  <2>2. UNCHANGED <<source, disk, images, docs, total, answer, admin, calls, upset>>
        /\ call[c].pc = "find"
    BY <1>1 DEF Find
  <2>3. CallSound(c)'
    BY <2>1, <2>2, GotoTakes DEF CallsOK, CallSound, PCs, Recorded, Exists
  <2>4. CallsOK' /\ AnswersOK'
    BY <2>1, <2>2, <2>3, MovesOn DEF PCs
  <2> QED
    BY <2>2, <2>4 DEF StoreOK
<1>2. CASE Touch(c)
  <2>1. /\ call[c].pc = "touch" /\ docs' = Touched(docs, call[c].key) /\ Goto(c, "fetch")
        /\ UNCHANGED <<source, disk, images, total, answer, admin, calls, upset>>
    BY <1>2 DEF Touch
  <2>2. call[c].key \in Keys /\ docs \in Seq(Keys)
    BY <2>1 DEF CallsOK, CallSound, StoreOK
  <2>3. docs' \in Seq(Keys) /\ (Recorded(call[c].key) => Contains(docs', call[c].key))
    BY <2>1, <2>2, TouchedType DEF Recorded
  <2>4. CallSound(c)'
    BY <2>1, <2>3, GotoTakes DEF CallsOK, CallSound, PCs, Recorded, Exists
  <2>5. CallsOK' /\ AnswersOK'
    BY <2>1, <2>4, MovesOn DEF PCs
  <2> QED
    BY <2>1, <2>3, <2>5 DEF StoreOK
<1> QED
  BY <1>1, <1>2

LEMMA StaleKeeps ==
  ASSUME CacheInv, NEW c \in Clients, Stale(c) PROVE CacheInv'
<1> USE DEF CacheInv
<1>1. call[c] \in Calling /\ call[c].pc \notin {"idle", "fetch", "read"}
  BY DEF Stale, StaleLoad, StaleSave, StaleUnlink, StaleImages, StaleDelete, CallsOK
<1>2. call[c].key \in Keys /\ (Steady => Checksum(call[c].key) = source)
  BY <1>1 DEF CallsOK, CallSound
<1>3. CASE StaleLoad(c)
  <2>1. UNCHANGED <<source, disk, images, docs, total, answer, admin, calls, upset>>
    BY <1>3 DEF StaleLoad
  <2>2. PICK r \in Calling : /\ Step(c, r) /\ r.pc \in {"stale_save", "stale_images"}
                             /\ r.key = call[c].key
                             /\ r.pc = "stale_save" => Exists(call[c].key)
    <3> DEFINE r1 == [call[c] EXCEPT !.pc = "stale_save", !.seen = total]
               r2 == [call[c] EXCEPT !.pc = "stale_images"]
    <3>1. r1 \in Calling /\ r1.pc = "stale_save" /\ r1.key = call[c].key
      BY <1>1 DEF Calling, PCs, StoreOK
    <3>2. r2 \in Calling /\ r2.pc = "stale_images" /\ r2.key = call[c].key
      BY <1>1 DEF Calling, PCs
    <3>3. IF Exists(call[c].key) THEN Step(c, r1) ELSE Step(c, r2)
      BY <1>3 DEF StaleLoad
    <3> HIDE DEF r1, r2
    <3> QED
      BY <3>1, <3>2, <3>3
  <2>3. /\ call' \in [Clients -> Calling] /\ call'[c] = r
        /\ \A d \in Clients \ {c} : Disturbed(d)
    BY <2>2, StepTakes DEF CallsOK
  <2>4. CallSound(c)'
    BY <1>2, <2>1, <2>2, <2>3 DEF CallSound, Exists
  <2>5. CallsOK'
    BY <2>1, <2>3, <2>4, CallsSound
  <2> QED
    BY <2>1, <2>5 DEF StoreOK, AnswersOK, ServedAlone, AnswersFaithful
<1>4. CASE StaleSave(c)
  <2>1. /\ call[c].pc = "stale_save" /\ Goto(c, "stale_unlink")
        /\ UNCHANGED <<source, disk, images, docs, answer, admin, calls, upset>>
    BY <1>4 DEF StaleSave
  <2>2. total' \in Int
    <3>1. call[c].seen \in Int /\ Size(call[c].key) \in Nat
      BY <1>1, <1>2, ConstantsAssumption DEF Calling, Size, Keys
    <3> QED
      BY <1>4, <3>1 DEF StaleSave
  <2>3. CallSound(c)'
    BY <2>1, GotoTakes DEF CallsOK, CallSound, PCs, Exists
  <2>4. CallsOK' /\ AnswersOK'
    BY <2>1, <2>3, MovesOn DEF PCs
  <2> QED
    BY <2>1, <2>2, <2>4 DEF StoreOK
<1>5. CASE StaleUnlink(c)
  <2>1. /\ call[c].pc = "stale_unlink"
        /\ disk' = [disk EXCEPT ![call[c].key] = NoContent]
        /\ UNCHANGED <<source, images, docs, total, admin, calls, upset>>
    BY <1>5 DEF StaleUnlink
  <2>2. StoreOK'
    BY <2>1 DEF StoreOK
  <2>3. CASE Exists(call[c].key)
    <3>1. Goto(c, "stale_images") /\ UNCHANGED answer
      BY <1>5, <2>3 DEF StaleUnlink
    <3>2. CallSound(c)'
      BY <1>2, <2>1, <3>1, GotoTakes DEF CallsOK, CallSound, PCs
    <3>3. CallsOK' /\ AnswersOK'
      BY <2>1, <3>1, <3>2, MovesOn DEF PCs
    <3> QED
      BY <2>2, <3>3
  <2>4. CASE ~Exists(call[c].key)
    <3>1. Finish(c, "lost", NoContent) /\ ~call[c].alone
      BY <1>5, <2>1, <2>4 DEF StaleUnlink, CallsOK, CallSound
    <3>2. CallsOK' /\ AnswersOK'
      BY <2>1, <3>1, FinishTakes
    <3> QED
      BY <2>2, <3>2
  <2> QED
    BY <2>3, <2>4
<1>6. CASE StaleImages(c) \/ StaleDelete(c)
  <2>1. PICK pc \in {"stale_delete", "space"} : Goto(c, pc)
    BY <1>6 DEF StaleImages, StaleDelete
  <2>2. UNCHANGED <<source, disk, total, answer, admin, calls, upset>>
    BY <1>6 DEF StaleImages, StaleDelete
  <2>3. images' \subseteq Keys /\ docs' \in Seq(Keys)
    BY <1>6, KeptType DEF StaleImages, StaleDelete, StoreOK
  <2>4. CallSound(c)'
    BY <1>2, <2>1, <2>2, GotoTakes DEF CallsOK, CallSound, PCs
  <2>5. CallsOK' /\ AnswersOK'
    BY <2>1, <2>2, <2>4, MovesOn DEF PCs
  <2> QED
    BY <2>2, <2>3, <2>5 DEF StoreOK
<1> QED
  BY <1>3, <1>4, <1>5, <1>6 DEF Stale
\* A step that also notes something in the call.
LEMMA StepsOn ==
  ASSUME CacheInv, NEW c \in Clients, NEW r \in Calling, Step(c, r), CallSound(c)',
         UNCHANGED <<source, answer>>
  PROVE  CallsOK' /\ AnswersOK'
<1>1. CallsOK'
  BY StepTakes, CallsSound DEF CacheInv, CallsOK
<1> QED
  BY <1>1 DEF CacheInv, AnswersOK, ServedAlone, AnswersFaithful

LEMMA EvictKeeps ==
  ASSUME CacheInv, NEW c \in Clients, Evict(c) PROVE CacheInv'
<1> USE DEF CacheInv
<1>1. call[c] \in Calling /\ call[c].pc \in {"space", "evict_file", "evict_record", "evict_save"}
  BY DEF Evict, EnsureSpace, EvictFile, EvictRecord, EvictSave, CallsOK
<1>2. call[c].key \in Keys /\ (Steady => Checksum(call[c].key) = source)
  BY <1>1 DEF CallsOK, CallSound
<1>3. CASE EnsureSpace(c)
  <2> DEFINE victims == LruEntries(total + InSize - MaxSize)
             r1 == [call[c] EXCEPT !.pc = "make"]
             r2 == [call[c] EXCEPT !.pc = "evict_file", !.seen = total, !.victims = victims,
                                   !.freed = SizeOf(victims)]
  <2>1. UNCHANGED <<source, disk, images, docs, total, answer, admin, calls, upset>>
    BY <1>3 DEF EnsureSpace
  <2>2. Step(c, r1) \/ (Step(c, r2) /\ victims # <<>>)
    BY <1>3 DEF EnsureSpace
  <2>3. victims \in Seq(Keys) /\ total \in Int /\ SizeOf(victims) \in Nat
    <3>1. total \in Int /\ total + InSize - MaxSize \in Int /\ docs \in Seq(Keys)
      BY ConstantsAssumption DEF StoreOK
    <3>2. victims \in Seq(Keys)
      BY <3>1, LruEntriesType
    <3> QED
      BY <3>1, <3>2, SizeOfType
  <2> HIDE DEF victims
  <2>4. r1 \in Calling /\ r1.pc = "make" /\ r1.key = call[c].key
    BY <1>1 DEF Calling, PCs
  <2>5. /\ r2 \in Calling /\ r2.pc = "evict_file" /\ r2.key = call[c].key
        /\ r2.victims = victims
    BY <1>1, <2>3 DEF Calling, PCs
  <2> HIDE DEF r1, r2
  <2>6. PICK r \in Calling : /\ Step(c, r) /\ r.key = call[c].key
                             /\ r.pc \in {"make", "evict_file"}
                             /\ r.pc = "evict_file" => r.victims # <<>>
    BY <2>2, <2>4, <2>5
  <2>7. call'[c] = r
    BY <2>6, StepTakes DEF CallsOK
  <2>8. CallSound(c)'
    BY <1>2, <2>1, <2>6, <2>7 DEF CallSound
  <2>9. CallsOK' /\ AnswersOK'
    BY <2>1, <2>6, <2>8, StepsOn
  <2> QED
    BY <2>1, <2>9 DEF StoreOK
<1>4. CASE EvictFile(c)
  <2>1. /\ call[c].pc = "evict_file" /\ Goto(c, "evict_record")
        /\ disk' = [disk EXCEPT ![Head(call[c].victims)] = NoContent]
        /\ UNCHANGED <<source, images, docs, total, answer, admin, calls, upset>>
    BY <1>4 DEF EvictFile
  <2>2. StoreOK'
    BY <2>1 DEF StoreOK
  <2>3. call[c].victims # <<>>
    BY <2>1 DEF CallsOK, CallSound
  <2>4. CallSound(c)'
    BY <1>2, <2>1, <2>3, GotoTakes DEF CallSound, PCs
  <2>5. CallsOK' /\ AnswersOK'
    BY <2>1, <2>4, MovesOn DEF PCs
  <2> QED
    BY <2>2, <2>5
<1>5. CASE EvictRecord(c)
  <2> DEFINE rest == Tail(call[c].victims)
             pc == IF rest = <<>> THEN "evict_save" ELSE "evict_file"
             r == [call[c] EXCEPT !.victims = rest, !.pc = pc]
  <2>1. /\ call[c].pc = "evict_record"
        /\ UNCHANGED <<source, disk, images, total, answer, admin, calls, upset>>
        /\ Step(c, r)
    BY <1>5 DEF EvictRecord
  <2>2. docs' \in Seq(Keys)
    BY <1>5, KeptType DEF EvictRecord, StoreOK
  <2>3. call[c].victims \in Seq(Keys) /\ call[c].victims # <<>>
    BY <1>1, <2>1 DEF Calling, CallsOK, CallSound
  <2>4. rest \in Seq(Keys)
    BY <2>3
  <2>5. pc \in {"evict_save", "evict_file"} /\ (pc = "evict_file" => rest # <<>>)
    OBVIOUS
  <2> HIDE DEF rest, pc
  <2>6. r \in Calling /\ r.pc = pc /\ r.key = call[c].key /\ r.victims = rest
    BY <1>1, <2>4, <2>5 DEF Calling, PCs
  <2> HIDE DEF r
  <2>7. call'[c] = r
    BY <2>1, <2>6, StepTakes DEF CallsOK
  <2>8. CallSound(c)'
    BY <1>2, <2>1, <2>5, <2>6, <2>7 DEF CallSound
  <2>9. CallsOK' /\ AnswersOK'
    BY <2>1, <2>6, <2>8, StepsOn
  <2> QED
    BY <2>1, <2>2, <2>9 DEF StoreOK
<1>6. CASE EvictSave(c)
  <2> DEFINE r == [call[c] EXCEPT !.pc = "make", !.freed = 0]
  <2>1. /\ UNCHANGED <<source, disk, images, docs, answer, admin, calls, upset>>
        /\ total' = call[c].seen - call[c].freed
        /\ Step(c, r)
    BY <1>6 DEF EvictSave
  <2>2. total' \in Int
    BY <1>1, <2>1 DEF Calling
  <2>3. r \in Calling /\ r.pc = "make" /\ r.key = call[c].key
    BY <1>1 DEF Calling, PCs
  <2> HIDE DEF r
  <2>4. call'[c] = r
    BY <2>1, <2>3, StepTakes DEF CallsOK
  <2>5. CallSound(c)'
    BY <1>2, <2>1, <2>3, <2>4 DEF CallSound
  <2>6. CallsOK' /\ AnswersOK'
    BY <2>1, <2>3, <2>5, StepsOn
  <2> QED
    BY <2>1, <2>2, <2>6 DEF StoreOK
<1> QED
  BY <1>3, <1>4, <1>5, <1>6 DEF Evict

LEMMA TransformKeeps ==
  ASSUME CacheInv, NEW c \in Clients, Transform(c) PROVE CacheInv'
<1> USE DEF CacheInv
<1>1. call[c] \in Calling /\ call[c].pc \in {"make", "add_load", "add_save", "insert"}
  BY DEF Transform, Make, EngineFails, AddLoad, AddSave, Insert, CallsOK
<1>2. /\ call[c].key \in Keys /\ Checksum(call[c].key) \in Contents
      /\ Steady => Checksum(call[c].key) = source
  BY <1>1 DEF CallsOK, CallSound, Keys, Checksum
<1>3. CASE Make(c)
  <2>1. /\ call[c].pc = "make" /\ Goto(c, "add_load")
        /\ disk' = [disk EXCEPT ![call[c].key] = source]
        /\ UNCHANGED <<source, docs, total, answer, admin, calls, upset>>
    BY <1>3 DEF Make
  <2>2. images' \subseteq Keys
    BY <1>2, <1>3 DEF Make, StoreOK
  <2>3. StoreOK'
    BY <1>2, <2>1, <2>2 DEF StoreOK, Steady
  <2>4. Exists(call[c].key)'
    <3>1. call'[c].key = call[c].key
      BY <2>1, GotoTakes DEF PCs
    <3> QED
      BY <1>2, <2>1, <3>1, ConstantsAssumption DEF Exists, StoreOK
  <2>5. CallSound(c)'
    BY <1>2, <2>1, <2>4, GotoTakes DEF CallSound, PCs
  <2>6. CallsOK' /\ AnswersOK'
    BY <2>1, <2>5, MovesOn DEF PCs
  <2> QED
    BY <2>3, <2>6
<1>4. CASE EngineFails(c)
  <2>1. Finish(c, "failed", NoContent)
        /\ UNCHANGED <<source, disk, images, docs, total, admin, calls, upset>>
    BY <1>4 DEF EngineFails
  <2>2. CallsOK' /\ AnswersOK'
    BY <1>1, <2>1, FinishTakes
  <2> QED
    BY <2>1, <2>2 DEF StoreOK
<1>5. DiffDone(c) /\ UNCHANGED source => CallsOK' /\ AnswersOK'
  <2> SUFFICES ASSUME DiffDone(c), UNCHANGED source PROVE CallsOK' /\ AnswersOK'
    OBVIOUS
  <2>1. Finish(c, "ok", Checksum(call[c].key))
    BY DEF DiffDone
  <2> QED
    BY <1>1, <1>2, <2>1, FinishTakes
<1>6. CASE AddLoad(c)
  <2>1. call[c].pc = "add_load"
        /\ UNCHANGED <<source, disk, images, docs, total, admin, calls, upset>>
    BY <1>6 DEF AddLoad
  <2>2. CASE Exists(call[c].key)
    <3> DEFINE r == [call[c] EXCEPT !.pc = "add_save", !.seen = total]
    <3>1. Step(c, r) /\ UNCHANGED answer
      BY <1>6, <2>2 DEF AddLoad
    <3>2. r \in Calling /\ r.pc = "add_save" /\ r.key = call[c].key
      BY <1>1 DEF Calling, PCs, StoreOK
    <3> HIDE DEF r
    <3>3. call'[c] = r
      BY <3>1, <3>2, StepTakes DEF CallsOK
    <3>4. CallSound(c)'
      BY <1>2, <2>1, <2>2, <3>2, <3>3 DEF CallSound, Exists
    <3>5. CallsOK' /\ AnswersOK'
      BY <2>1, <3>1, <3>2, <3>4, StepsOn
    <3> QED
      BY <2>1, <3>5 DEF StoreOK
  <2>3. CASE ~Exists(call[c].key)
    <3>1. DiffDone(c) \/ Finish(c, "lost", NoContent)
      BY <1>6, <2>3 DEF AddLoad
    <3>2. ~call[c].alone
      BY <2>1, <2>3 DEF CallsOK, CallSound
    <3>3. CallsOK' /\ AnswersOK'
      BY <1>1, <1>5, <2>1, <3>1, <3>2, FinishTakes
    <3> QED
      BY <2>1, <3>3 DEF StoreOK
  <2> QED
    BY <2>2, <2>3
<1>7. CASE AddSave(c)
  <2>1. /\ call[c].pc = "add_save"
        /\ total' = call[c].seen + Size(call[c].key)
        /\ UNCHANGED <<source, disk, images, docs, admin, calls, upset>>
        /\ DiffDone(c) \/ (Goto(c, "insert") /\ UNCHANGED answer)
    BY <1>7 DEF AddSave
  <2>2. total' \in Int
    <3>1. call[c].seen \in Int /\ Size(call[c].key) \in Nat
      BY <1>1, <1>2, ConstantsAssumption DEF Calling, Size, Keys
    <3> QED
      BY <2>1, <3>1
  <2>3. CASE DiffDone(c)
    BY <1>5, <2>1, <2>2, <2>3 DEF StoreOK
  <2>4. CASE Goto(c, "insert") /\ UNCHANGED answer
    <3>1. CallSound(c)'
      BY <1>2, <2>1, <2>4, GotoTakes DEF CallsOK, CallSound, PCs, Exists
    <3>2. CallsOK' /\ AnswersOK'
      BY <2>1, <2>4, <3>1, MovesOn DEF PCs
    <3> QED
      BY <2>1, <2>2, <3>2 DEF StoreOK
  <2> QED
    BY <2>1, <2>3, <2>4
<1>8. CASE Insert(c)
  <2>1. /\ call[c].pc = "insert" /\ Goto(c, "fetch")
        /\ docs' = Append(docs, call[c].key)
        /\ UNCHANGED <<source, disk, images, total, answer, admin, calls, upset>>
    BY <1>8 DEF Insert
  <2>2. docs' \in Seq(Keys) /\ Contains(docs', call[c].key)
    BY <1>2, <2>1 DEF StoreOK, Contains
  <2>3. CallSound(c)'
    BY <1>2, <2>1, <2>2, GotoTakes DEF CallsOK, CallSound, PCs, Recorded, Exists
  <2>4. CallsOK' /\ AnswersOK'
    BY <2>1, <2>3, MovesOn DEF PCs
  <2> QED
    BY <2>1, <2>2, <2>4 DEF StoreOK
<1> QED
  BY <1>3, <1>4, <1>6, <1>7, <1>8 DEF Transform
LEMMA FetchKeeps ==
  ASSUME CacheInv, NEW c \in Clients, Fetch(c) \/ Read(c) PROVE CacheInv'
<1> USE DEF CacheInv
<1>1. call[c] \in Calling /\ call[c].pc \in {"fetch", "read"} /\ call[c].key \in Keys
  BY DEF Fetch, Read, CallsOK, CallSound
<1>2. CASE Fetch(c)
  <2>1. call[c].pc = "fetch"
        /\ UNCHANGED <<source, disk, images, total, admin, calls, upset>>
    BY <1>2 DEF Fetch
  <2>2. CASE Recorded(call[c].key) /\ Exists(call[c].key)
    <3>1. docs' = Touched(docs, call[c].key) /\ Goto(c, "read") /\ UNCHANGED answer
      BY <1>2, <2>2 DEF Fetch
    <3>2. docs' \in Seq(Keys) /\ Contains(docs', call[c].key)
      BY <1>1, <2>2, <3>1, TouchedType DEF StoreOK, Recorded
    <3>3. CallSound(c)'
      BY <1>1, <2>1, <2>2, <3>1, <3>2, GotoTakes DEF CallSound, PCs, Recorded, Exists
    <3>4. CallsOK' /\ AnswersOK'
      BY <2>1, <3>1, <3>3, MovesOn DEF PCs
    <3> QED
      BY <2>1, <3>2, <3>4 DEF StoreOK
  <2>3. CASE ~(Recorded(call[c].key) /\ Exists(call[c].key))
    <3>1. docs' = Kept(docs, Keys \ {call[c].key}) /\ Finish(c, "lost", NoContent)
      BY <1>2, <2>3 DEF Fetch
    <3>2. docs' \in Seq(Keys)
      BY <3>1, KeptType DEF StoreOK
    <3>3. ~call[c].alone
      BY <2>1, <2>3 DEF CallsOK, CallSound
    <3>4. CallsOK' /\ AnswersOK'
      BY <1>1, <2>1, <3>1, <3>3, FinishTakes
    <3> QED
      BY <2>1, <3>2, <3>4 DEF StoreOK
  <2> QED
    BY <2>2, <2>3
<1>3. CASE Read(c)
  <2> DEFINE k == call[c].key
             what == IF Exists(k) THEN "ok" ELSE "lost"
  <2>1. /\ call[c].pc = "read" /\ Finish(c, what, disk[k])
        /\ UNCHANGED <<source, disk, images, docs, total, admin, calls, upset>>
    BY <1>3 DEF Read
  <2>2. what \in {"ok", "failed", "lost"} /\ disk[k] \in Contents \cup {NoContent}
    BY <1>1 DEF StoreOK
  <2>3. what = "lost" => ~call[c].alone
    BY <2>1 DEF CallsOK, CallSound
  <2>4. Steady /\ what = "ok" => disk[k] = Checksum(k)
    BY <1>1 DEF StoreOK, Exists
  <2> HIDE DEF what
  <2>5. CallsOK' /\ AnswersOK'
    BY <1>1, <2>1, <2>2, <2>3, <2>4, FinishTakes
  <2> QED
    BY <2>1, <2>5 DEF StoreOK
<1> QED
  BY <1>2, <1>3

LEMMA DiffKeeps ==
  ASSUME CacheInv, NEW c \in Clients, Diff(c) PROVE CacheInv'
<1> USE DEF CacheInv
<1>1. call[c] \in Calling /\ call[c].pc \in {"diff", "diff_insert"}
  BY DEF Diff, DiffFails, DiffWrite, DiffInsert, CallsOK
<1>2. /\ call[c].key \in Keys /\ Checksum(call[c].key) \in Contents
      /\ Steady => Checksum(call[c].key) = source
  BY <1>1 DEF CallsOK, CallSound, Keys, Checksum
<1>3. CASE DiffFails(c)
  <2>1. Finish(c, "failed", NoContent)
        /\ UNCHANGED <<source, disk, images, docs, total, admin, calls, upset>>
    BY <1>3 DEF DiffFails
  <2>2. CallsOK' /\ AnswersOK'
    BY <1>1, <2>1, FinishTakes
  <2> QED
    BY <2>1, <2>2 DEF StoreOK
<1>4. CASE DiffWrite(c)
  <2> DEFINE k == <<source, call[c].key[2]>>
             r == [call[c] EXCEPT !.pc = "diff_insert", !.key = k]
  <2>1. /\ disk' = [disk EXCEPT ![k] = source] /\ Step(c, r)
        /\ UNCHANGED <<source, images, docs, total, answer, admin, calls, upset>>
    BY <1>4 DEF DiffWrite
  <2>2. k \in Keys /\ Checksum(k) = source
    BY <1>2 DEF Keys, Checksum, StoreOK
  <2> HIDE DEF k
  <2>3. r \in Calling /\ r.pc = "diff_insert" /\ r.key = k
    BY <1>1, <2>2 DEF Calling, PCs
  <2> HIDE DEF r
  <2>4. call'[c] = r
    BY <2>1, <2>3, StepTakes DEF CallsOK
  <2>5. CallSound(c)'
    BY <2>1, <2>2, <2>3, <2>4 DEF CallSound
  <2>6. CallsOK' /\ AnswersOK'
    BY <2>1, <2>3, <2>5, StepsOn
  <2>7. StoreOK'
    BY <2>1, <2>2 DEF StoreOK, Steady
  <2> QED
    BY <2>6, <2>7
<1>5. CASE DiffInsert(c)
  <2>1. call[c].pc = "diff_insert"
        /\ UNCHANGED <<source, disk, images, total, admin, calls, upset>>
    BY <1>5 DEF DiffInsert
  <2>2. CASE Exists(call[c].key)
    <3>1. docs' = Append(docs, call[c].key) /\ Goto(c, "add_load") /\ UNCHANGED answer
      BY <1>5, <2>2 DEF DiffInsert
    <3>2. docs' \in Seq(Keys)
      BY <1>2, <3>1 DEF StoreOK
    <3>3. CallSound(c)'
      BY <1>2, <2>1, <2>2, <3>1, GotoTakes DEF CallSound, PCs, Exists
    <3>4. CallsOK' /\ AnswersOK'
      BY <2>1, <3>1, <3>3, MovesOn DEF PCs
    <3> QED
      BY <2>1, <3>2, <3>4 DEF StoreOK
  <2>3. CASE ~Exists(call[c].key)
    <3>1. Finish(c, "ok", Checksum(call[c].key)) /\ UNCHANGED docs
      BY <1>5, <2>3 DEF DiffInsert, DiffDone
    <3>2. CallsOK' /\ AnswersOK'
      BY <1>1, <1>2, <2>1, <3>1, FinishTakes
    <3> QED
      BY <2>1, <3>1, <3>2 DEF StoreOK
  <2> QED
    BY <2>2, <2>3
<1> QED
  BY <1>3, <1>4, <1>5 DEF Diff

-----------------------------------------------------------------------------
(* So does everything else that happens to the cache *)

LEMMA CrashKeeps ==
  ASSUME CacheInv, NEW c \in Clients, Crash(c) PROVE CacheInv'
<1> USE DEF CacheInv
<1>1. /\ Step(c, NoCall) /\ upset' = TRUE
      /\ UNCHANGED <<source, disk, images, docs, total, answer, admin, calls>>
  BY DEF Crash
<1>2. NoCall \in Calling /\ NoCall.pc = "idle"
  BY DEF NoCall, Calling, PCs
<1>3. CallSound(c)'
  BY <1>1, <1>2, StepTakes DEF CallsOK, CallSound
<1>4. CallsOK' /\ AnswersOK'
  BY <1>1, <1>2, <1>3, StepsOn
<1> QED
  BY <1>1, <1>4 DEF StoreOK

LEMMA AdminKeeps == ASSUME CacheInv, Admin PROVE CacheInv'
<1> USE DEF CacheInv
<1>1. call' = Disturb({}) /\ UNCHANGED <<source, images, answer, calls>>
  BY DEF Admin, PruneRecords, PruneFiles, ResetRecords, ResetFiles
<1>2. CallsOK'
  <2>1. call' \in [Clients -> Calling] /\ \A d \in Clients : Disturbed(d)
    BY <1>1, AllDisturbed DEF CallsOK
  <2>2. ASSUME NEW d \in Clients PROVE CallSound(d)'
    <3>1. Disturbed(d) /\ CallSound(d)
      BY <2>1 DEF CallsOK
    <3> QED
      BY <1>1, <3>1 DEF Disturbed, CallSound
  <2> QED
    BY <2>1, <2>2 DEF CallsOK
<1>3. AnswersOK'
  BY <1>1 DEF AnswersOK, ServedAlone, AnswersFaithful
<1>4. docs' \in Seq(Keys)
  <2>1. docs' \in {docs, <<>>, Kept(docs, OnDisk)}
    BY DEF Admin, PruneRecords, PruneFiles, ResetRecords, ResetFiles
  <2>2. docs \in Seq(Keys) /\ <<>> \in Seq(Keys) /\ Kept(docs, OnDisk) \in Seq(Keys)
    BY KeptType DEF StoreOK
  <2> QED
    BY <2>1, <2>2
<1>5. admin' \in [pc : {"idle", "prune", "reset"}, files : SUBSET Keys]
  <2>1. /\ Orphans \in SUBSET Keys
        /\ [pc |-> "prune", files |-> Orphans] \in [pc : {"idle", "prune", "reset"},
                                                   files : SUBSET Keys]
    BY DEF Orphans, OnDisk
  <2>2. /\ NoAdmin \in [pc : {"idle", "prune", "reset"}, files : SUBSET Keys]
        /\ [pc |-> "reset", files |-> {}] \in [pc : {"idle", "prune", "reset"},
                                              files : SUBSET Keys]
    BY DEF NoAdmin
  <2>3. admin' \in {[pc |-> "prune", files |-> Orphans], NoAdmin, [pc |-> "reset", files |-> {}]}
    BY DEF Admin, PruneRecords, PruneFiles, ResetRecords, ResetFiles
  <2> HIDE DEF NoAdmin, Orphans
  <2> QED
    BY <2>1, <2>2, <2>3
<1>6. upset' \in BOOLEAN
  BY DEF Admin, PruneRecords, PruneFiles, ResetRecords, ResetFiles, StoreOK
<1>7. total' \in Int
  BY DEF Admin, PruneRecords, PruneFiles, ResetRecords, ResetFiles, StoreOK
<1>8. \/ UNCHANGED disk
      \/ \E T : disk' = [k \in Keys |-> IF k \in T THEN NoContent ELSE disk[k]]
  <2>1. CASE PruneRecords \/ ResetRecords
    BY <2>1 DEF PruneRecords, ResetRecords
  <2>2. CASE PruneFiles
    BY <2>2 DEF PruneFiles
  <2>3. CASE ResetFiles
    <3> DEFINE T == {k \in Keys : Ext(k) \in {"md", "txt"}}
    <3>1. disk' = [k \in Keys |-> IF k \in T THEN NoContent ELSE disk[k]]
      BY <2>3 DEF ResetFiles
    <3> QED
      BY <3>1
  <2> QED
    BY <2>1, <2>2, <2>3 DEF Admin
<1>9. /\ disk' \in [Keys -> Contents \cup {NoContent}]
      /\ \A k \in Keys : disk'[k] \in {disk[k], NoContent}
  BY <1>8 DEF StoreOK
<1>10. StoreOK'
  BY <1>1, <1>4, <1>5, <1>6, <1>7, <1>9 DEF StoreOK, Steady
<1> QED
  BY <1>2, <1>3, <1>10

\* Without "edit_during" the source changes under no call that has yet to read it.
LEMMA EditKeeps == ASSUME CacheInv, Edit PROVE CacheInv'
<1> USE DEF CacheInv
<1>1. source' \in Contents
      /\ UNCHANGED <<disk, images, docs, total, call, answer, admin, calls, upset>>
  BY DEF Edit
<1>2. ASSUME NEW c \in Clients PROVE CallSound(c)'
  <2>1. Steady => call[c].pc \in {"idle", "fetch", "read"}
    BY DEF Edit, Busy, Steady
  <2> QED
    BY <1>1, <2>1 DEF CallsOK, CallSound, Recorded, Exists, Steady
<1>3. CallsOK'
  BY <1>1, <1>2 DEF CallsOK
<1> QED
  BY <1>1, <1>3 DEF StoreOK, AnswersOK, ServedAlone, AnswersFaithful, Steady

LEMMA SameKeeps ==
  ASSUME CacheInv, images' \subseteq images,
         UNCHANGED <<source, disk, docs, total, call, answer, admin, calls, upset>>
  PROVE  CacheInv'
<1> USE DEF CacheInv
<1>1. CallsOK'
  BY DEF CallsOK, CallSound, Recorded, Exists, Steady
<1>2. StoreOK'
  BY DEF StoreOK, Steady
<1> QED
  BY <1>1, <1>2 DEF AnswersOK, ServedAlone, AnswersFaithful, Steady

LEMMA NextKeeps == ASSUME CacheInv, [Next]_vars PROVE CacheInv'
<1>1. ASSUME NEW c \in Clients, GetContent(c) PROVE CacheInv'
  BY <1>1, BeginKeeps, FindKeeps, StaleKeeps, EvictKeeps, TransformKeeps, FetchKeeps, DiffKeeps
     DEF GetContent
<1>2. ASSUME NEW c \in Clients, Crash(c) PROVE CacheInv'
  BY <1>2, CrashKeeps
<1>3. CASE ImagesVanish
  BY <1>3, SameKeeps DEF ImagesVanish
<1>4. CASE UNCHANGED vars
  BY <1>4, SameKeeps DEF vars
<1> QED
  BY <1>1, <1>2, <1>3, <1>4, AdminKeeps, EditKeeps DEF Next

LEMMA InitHolds == ASSUME Init PROVE CacheInv
<1>1. StoreOK
  <2>1. admin \in [pc : {"idle", "prune", "reset"}, files : SUBSET Keys]
    BY DEF Init, NoAdmin
  <2>2. \A k \in Keys : disk[k] = NoContent
    BY DEF Init
  <2>3. images \subseteq Keys /\ docs \in Seq(Keys)
    BY DEF Init
  <2>4. disk \in [Keys -> Contents \cup {NoContent}]
    BY DEF Init
  <2>5. source \in Contents /\ total \in Int /\ calls \in Nat
    BY DEF Init
  <2>6. upset \in BOOLEAN
    <3>1. upset = FALSE
      BY Zenon DEF Init
    <3> QED
      BY <3>1
  <2> QED
    BY <2>1, <2>2, <2>3, <2>4, <2>5, <2>6 DEF StoreOK
<1>2. NoCall \in Calling /\ NoCall.pc = "idle"
  BY DEF NoCall, Calling, PCs
<1>3. CallsOK
  BY <1>2 DEF Init, CallsOK, CallSound
<1>4. NoAnswer \in Answer /\ NoAnswer.what = "none"
  BY DEF NoAnswer, Answer
<1>5. AnswersOK
  BY <1>4 DEF Init, AnswersOK, ServedAlone, AnswersFaithful
<1> QED
  BY <1>1, <1>3, <1>5 DEF CacheInv

-----------------------------------------------------------------------------
(* What one key weighs in a sequence *)

\* What the entries of s that are k weigh, if each weighs w.
Weights(s, k, w) == [i \in 1..Len(s) |-> IF s[i] = k THEN w ELSE 0]
Amount(s, k, w)  == SumTo(Weights(s, k, w), Len(s))

LEMMA WeightsType ==
  ASSUME NEW s \in Seq(Keys), NEW k, NEW w \in Nat
  PROVE  /\ Len(s) \in Nat /\ Summable(Weights(s, k, w), Len(s))
         /\ \A i \in 1..Len(s) : Weights(s, k, w)[i] = IF s[i] = k THEN w ELSE 0
  BY DEF Weights, Summable

LEMMA AmountType ==
  ASSUME NEW s \in Seq(Keys), NEW k, NEW w \in Nat PROVE Amount(s, k, w) \in Nat
  BY WeightsType, SumType DEF Amount

LEMMA AmountOfConcat ==
  ASSUME NEW s \in Seq(Keys), NEW t \in Seq(Keys), NEW k, NEW w \in Nat
  PROVE  Amount(s \o t, k, w) = Amount(s, k, w) + Amount(t, k, w)
<1> DEFINE u == s \o t
<1>1. /\ u \in Seq(Keys) /\ Len(u) = Len(s) + Len(t) /\ Len(s) \in Nat /\ Len(t) \in Nat
      /\ \A i \in 1..Len(s) : u[i] = s[i]
      /\ \A i \in 1..Len(t) : u[Len(s) + i] = t[i]
  BY ConcatProperties
<1> HIDE DEF u
<1>2. /\ Summable(Weights(s, k, w), Len(s)) /\ Summable(Weights(t, k, w), Len(t))
      /\ \A i \in 1..Len(s) : Weights(s, k, w)[i] = IF s[i] = k THEN w ELSE 0
      /\ \A i \in 1..Len(t) : Weights(t, k, w)[i] = IF t[i] = k THEN w ELSE 0
      /\ \A i \in 1..Len(u) : Weights(u, k, w)[i] = IF u[i] = k THEN w ELSE 0
  BY <1>1, WeightsType
<1>3. \A i \in 1..Len(s) : Weights(u, k, w)[i] = Weights(s, k, w)[i]
  BY <1>1, <1>2
<1>4. ASSUME NEW i \in 1..Len(t)
      PROVE  Weights(u, k, w)[Len(s) + i] = Weights(t, k, w)[i]
  <2>1. Len(s) + i \in 1..Len(u)
    BY <1>1
  <2> QED
    BY <1>1, <1>2, <2>1
<1> DEFINE f == Weights(s, k, w)
           g == Weights(t, k, w)
           h == Weights(u, k, w)
<1>5. SumTo(h, Len(s) + Len(t)) = SumTo(f, Len(s)) + SumTo(g, Len(t))
  <2>1. /\ Len(s) \in Nat /\ Len(t) \in Nat /\ Summable(f, Len(s)) /\ Summable(g, Len(t))
        /\ \A i \in 1..Len(s) : h[i] = f[i]
        /\ \A i \in 1..Len(t) : h[Len(s) + i] = g[i]
    BY <1>1, <1>2, <1>3, <1>4
  <2> HIDE DEF f, g, h
  <2> QED
    BY <2>1, SumJoins
<1> QED
  BY <1>1, <1>5 DEF Amount, u

LEMMA AmountOfNone == ASSUME NEW k, NEW w \in Nat PROVE Amount(<<>>, k, w) = 0
  BY SumOfNone, EmptySeq DEF Amount

LEMMA AmountOfOne ==
  ASSUME NEW x \in Keys, NEW k, NEW w \in Nat
  PROVE  Amount(<<x>>, k, w) = IF x = k THEN w ELSE 0
<1> DEFINE s == <<x>>
<1>1. s \in Seq(Keys) /\ Len(s) = 1 /\ s[1] = x
  OBVIOUS
<1> HIDE DEF s
<1>2. Summable(Weights(s, k, w), 1) /\ Weights(s, k, w)[1] = IF x = k THEN w ELSE 0
  BY <1>1, WeightsType
<1>3. SumTo(Weights(s, k, w), 1) = SumTo(Weights(s, k, w), 1 - 1) + Weights(s, k, w)[1]
  BY <1>2, SumStep
<1>4. SumTo(Weights(s, k, w), 1 - 1) = 0
  BY SumOfNone
<1> QED
  BY <1>1, <1>2, <1>3, <1>4 DEF Amount, s

LEMMA AmountOfAppend ==
  ASSUME NEW s \in Seq(Keys), NEW x \in Keys, NEW k, NEW w \in Nat
  PROVE  Amount(Append(s, x), k, w) = Amount(s, k, w) + (IF x = k THEN w ELSE 0)
<1>1. Append(s, x) = s \o <<x>> /\ <<x>> \in Seq(Keys)
  BY AppendIsConcat
<1>2. Amount(s \o <<x>>, k, w) = Amount(s, k, w) + Amount(<<x>>, k, w)
  BY <1>1, AmountOfConcat
<1> QED
  BY <1>1, <1>2, AmountOfOne

LEMMA AmountOfPrefix ==
  ASSUME NEW s \in Seq(Keys), NEW n \in 0..Len(s), NEW k, NEW w \in Nat
  PROVE  Amount(SubSeq(s, 1, n), k, w) <= Amount(s, k, w)
<1> DEFINE a == SubSeq(s, 1, n)
           b == SubSeq(s, n + 1, Len(s))
<1>1. Len(s) \in Nat /\ \A i \in 1..Len(s) : s[i] \in Keys
  OBVIOUS
<1>2. a \in Seq(Keys) /\ b \in Seq(Keys)
  BY <1>1, SubSeqProperties
<1>3. a \o b = s
  <2>1. 1 \in 1..Len(s) + 1 /\ n \in 1 - 1..Len(s) /\ Len(s) \in n..Len(s)
    BY <1>1
  <2>2. a \o b = SubSeq(s, 1, Len(s))
    BY <2>1, ConcatAdjacentSubSeq
  <2> QED
    BY <2>2, SubSeqFull
<1> HIDE DEF a, b
<1>4. Amount(a \o b, k, w) = Amount(a, k, w) + Amount(b, k, w)
  BY <1>2, AmountOfConcat
<1>5. Amount(s, k, w) = Amount(a, k, w) + Amount(b, k, w)
  BY <1>3, <1>4, Zenon
<1>6. Amount(a, k, w) \in Nat /\ Amount(b, k, w) \in Nat
  BY <1>2, AmountType
<1>7. Amount(a, k, w) <= Amount(s, k, w)
  BY <1>5, <1>6
<1> QED
  BY <1>7 DEF a

LEMMA AmountOfTail ==
  ASSUME NEW s \in Seq(Keys), s # <<>>, NEW k, NEW w \in Nat
  PROVE  Amount(s, k, w) = Amount(Tail(s), k, w) + (IF Head(s) = k THEN w ELSE 0)
<1>1. Head(s) \in Keys /\ Tail(s) \in Seq(Keys) /\ <<Head(s)>> \in Seq(Keys)
  BY HeadTailProperties
<1>2. s = <<Head(s)>> \o Tail(s)
  BY <1>1
<1>3. Amount(<<Head(s)>> \o Tail(s), k, w) = Amount(<<Head(s)>>, k, w) + Amount(Tail(s), k, w)
  BY <1>1, AmountOfConcat
<1>4. Amount(<<Head(s)>>, k, w) = IF Head(s) = k THEN w ELSE 0
  BY <1>1, AmountOfOne
<1>5. Amount(Tail(s), k, w) \in Nat /\ Amount(<<Head(s)>>, k, w) \in Nat
  BY <1>1, AmountType
<1>6. Amount(s, k, w) = Amount(<<Head(s)>>, k, w) + Amount(Tail(s), k, w)
  BY <1>2, <1>3, Zenon
<1> QED
  BY <1>4, <1>5, <1>6

\* An entry that is there weighs, one that is not does not, and two weigh twice.
LEMMA AmountListed ==
  ASSUME NEW s \in Seq(Keys), NEW k, NEW w \in Nat
  PROVE  /\ Contains(s, k) => w <= Amount(s, k, w)
         /\ ~Contains(s, k) => Amount(s, k, w) = 0
<1>1. ASSUME Contains(s, k) PROVE w <= Amount(s, k, w)
  <2>1. PICK i \in 1..Len(s) : s[i] = k
    BY <1>1 DEF Contains
  <2>2. Weights(s, k, w)[i] = w
    BY <2>1, WeightsType
  <2>3. Weights(s, k, w)[i] <= SumTo(Weights(s, k, w), Len(s))
    BY <2>1, WeightsType, SumHolds
  <2> QED
    BY <2>2, <2>3 DEF Amount
<1>2. ASSUME ~Contains(s, k) PROVE Amount(s, k, w) = 0
  <2>1. \A i \in 1..Len(s) : Weights(s, k, w)[i] = 0
    BY <1>2, WeightsType DEF Contains
  <2> QED
    BY <2>1, WeightsType, SumOfZeros DEF Amount
<1> QED
  BY <1>1, <1>2

LEMMA AmountTwice ==
  ASSUME NEW s \in Seq(Keys), NEW w \in Nat, NEW i \in 1..Len(s), NEW j \in 1..Len(s),
         i # j, s[i] = s[j]
  PROVE  w + w <= Amount(s, s[i], w)
<1> DEFINE f == Weights(s, s[i], w)
           g == [m \in 1..Len(s) |-> IF m = i THEN 0 ELSE f[m]]
<1>1. Len(s) \in Nat /\ Summable(f, Len(s)) /\ f[i] = w /\ f[j] = w
  BY WeightsType
<1> HIDE DEF f
<1>2. /\ Summable(g, Len(s)) /\ g[i] = 0 /\ g[j] = w
      /\ \A m \in 1..Len(s) : m # i => f[m] = g[m]
  BY <1>1 DEF Summable
<1> HIDE DEF g
<1>3. SumTo(f, Len(s)) + g[i] = SumTo(g, Len(s)) + f[i]
  BY <1>1, <1>2, SumDiffers
<1>4. g[j] <= SumTo(g, Len(s))
  BY <1>1, <1>2, SumHolds
<1>5. SumTo(f, Len(s)) \in Nat /\ SumTo(g, Len(s)) \in Nat
  BY <1>1, <1>2, SumType
<1> QED
  BY <1>1, <1>2, <1>3, <1>4, <1>5 DEF Amount, f

\* Where every entry is there once, each weighs at most once.
LEMMA AmountOnce ==
  ASSUME NEW s \in Seq(Keys), NEW k, NEW w \in Nat,
         \A i, j \in 1..Len(s) : s[i] = s[j] => i = j
  PROVE  Amount(s, k, w) <= w
<1>1. CASE ~Contains(s, k)
  BY <1>1, AmountListed
<1>2. CASE Contains(s, k)
  <2>1. PICK i \in 1..Len(s) : s[i] = k
    BY <1>2 DEF Contains
  <2> DEFINE f == Weights(s, k, w)
             g == [m \in 1..Len(s) |-> 0]
  <2>2. Len(s) \in Nat /\ Summable(f, Len(s)) /\ f[i] = w
        /\ \A m \in 1..Len(s) : m # i => f[m] = 0
    BY <2>1, WeightsType
  <2> HIDE DEF f
  <2>3. /\ Summable(g, Len(s)) /\ g[i] = 0 /\ \A m \in 1..Len(s) : m # i => f[m] = g[m]
        /\ \A m \in 1..Len(s) : g[m] = 0
    BY <2>2 DEF Summable
  <2> HIDE DEF g
  <2>4. SumTo(f, Len(s)) + g[i] = SumTo(g, Len(s)) + f[i]
    BY <2>2, <2>3, SumDiffers
  <2>5. SumTo(g, Len(s)) = 0 /\ SumTo(f, Len(s)) \in Nat
    BY <2>2, <2>3, SumOfZeros, SumType
  <2> QED
    BY <2>2, <2>3, <2>4, <2>5 DEF Amount, f
<1> QED
  BY <1>1, <1>2

LEMMA AmountOfKept ==
  ASSUME NEW s \in Seq(Keys), NEW T, NEW k, NEW w \in Nat
  PROVE  Amount(Kept(s, T), k, w) = IF k \in T THEN Amount(s, k, w) ELSE 0
<1> DEFINE N == Len(s)
           f == Weights(s, k, w)
<1>1. PICK F : /\ F \in [0..N -> Seq(Keys)] /\ F[0] = <<>> /\ F[N] = Kept(s, T)
               /\ \A n \in 1..N : F[n] = IF s[n] \in T THEN Append(F[n - 1], s[n])
                                                       ELSE F[n - 1]
  <2>1. PICK F : Keeping(F, s, T)
    BY KeptGoes
  <2> QED
    BY <2>1 DEF Keeping
<1>2. /\ N \in Nat /\ Summable(f, N)
      /\ \A n \in 1..N : s[n] \in Keys /\ f[n] = IF s[n] = k THEN w ELSE 0
  BY WeightsType
<1> HIDE DEF N, f
<1> DEFINE S == {n \in 0..N : Amount(F[n], k, w) = IF k \in T THEN SumTo(f, n) ELSE 0}
<1>3. 0 \in S
  BY <1>1, <1>2, AmountOfNone, SumOfNone
<1>4. ASSUME NEW n \in 1..N, n - 1 \in S PROVE n \in S
  <2>1. n \in Nat /\ n # 0 /\ n - 1 \in 0..N /\ n - 1 \in Nat
        /\ Summable(f, n) /\ Summable(f, n - 1)
    BY <1>2 DEF Summable
  <2>2. SumTo(f, n) = SumTo(f, n - 1) + f[n] /\ SumTo(f, n - 1) \in Nat
    BY <2>1, SumStep, SumType
  <2>3. F[n - 1] \in Seq(Keys) /\ s[n] \in Keys
    BY <1>1, <1>2, <2>1
  <2>4. Amount(F[n - 1], k, w) = IF k \in T THEN SumTo(f, n - 1) ELSE 0
    BY <1>4
  <2>5. Amount(Append(F[n - 1], s[n]), k, w)
          = Amount(F[n - 1], k, w) + (IF s[n] = k THEN w ELSE 0)
    BY <2>3, AmountOfAppend
  <2>6. f[n] = IF s[n] = k THEN w ELSE 0
    BY <1>2
  <2>7. F[n] = IF s[n] \in T THEN Append(F[n - 1], s[n]) ELSE F[n - 1]
    BY <1>1
  <2>8. CASE s[n] \in T
    <3>1. Amount(F[n], k, w) = Amount(F[n - 1], k, w) + (IF s[n] = k THEN w ELSE 0)
      BY <2>5, <2>7, <2>8
    <3> QED
      BY <2>2, <2>4, <2>6, <2>8, <3>1
  <2>9. CASE s[n] \notin T
    <3>1. Amount(F[n], k, w) = Amount(F[n - 1], k, w)
      BY <2>7, <2>9
    <3> QED
      BY <2>2, <2>4, <2>6, <2>9, <3>1
  <2> QED
    BY <2>8, <2>9
<1>5. \A n \in 0..N : n \in S
  <2> HIDE DEF S
  <2> QED
    BY <1>2, <1>3, <1>4, Reaches
<1>6. Amount(F[N], k, w) = IF k \in T THEN SumTo(f, N) ELSE 0
  BY <1>2, <1>5
<1> QED
  BY <1>1, <1>6 DEF Amount, f, N

\* An entry is kept if it is in T.
LEMMA KeptListed ==
  ASSUME NEW s \in Seq(Keys), NEW T, NEW k
  PROVE  Contains(Kept(s, T), k) <=> Contains(s, k) /\ k \in T
<1>1. Kept(s, T) \in Seq(Keys)
  BY KeptType
<1>2. Contains(s, k) <=> Amount(s, k, 1) # 0
  BY AmountListed
<1>3. Contains(Kept(s, T), k) <=> Amount(Kept(s, T), k, 1) # 0
  BY <1>1, AmountListed
<1>4. Amount(Kept(s, T), k, 1) = IF k \in T THEN Amount(s, k, 1) ELSE 0
  BY AmountOfKept
<1> QED
  BY <1>2, <1>3, <1>4

\* A record that is used moves to the end and nothing else changes.
LEMMA AmountOfTouched ==
  ASSUME NEW s \in Seq(Keys), NEW x \in Keys, NEW k, NEW w \in Nat
  PROVE  Amount(Touched(s, x), k, w) = Amount(s, k, w)
<1>1. CASE ~Contains(s, x)
  BY <1>1 DEF Touched
<1>2. CASE Contains(s, x)
  <2> DEFINE I == {i \in 1..Len(s) : s[i] = x}
             i == Min(I)
             a == SubSeq(s, 1, i - 1)
             b == SubSeq(s, i + 1, Len(s))
             c == SubSeq(s, i, Len(s))
  <2>1. I \in SUBSET Nat /\ I # {}
    BY <1>2 DEF Contains
  <2>2. i \in I
    <3> HIDE DEF I
    <3> QED
      BY <2>1, MinIn
  <2>3. i \in 1..Len(s) /\ s[i] = x /\ Len(s) \in Nat /\ \A j \in 1..Len(s) : s[j] \in Keys
    BY <2>2
  <2>4. RemoveFirst(s, x) = a \o b
    BY <1>2, <2>1 DEF RemoveFirst, RemoveAt, SelectInSeq, Contains
  <2>5. Touched(s, x) = Append(a \o b, x)
    BY <1>2, <2>4 DEF Touched
  <2> HIDE DEF i
  <2>6. a \in Seq(Keys) /\ b \in Seq(Keys) /\ c \in Seq(Keys)
    BY <2>3, SubSeqProperties
  <2>7. a \o c = s
    <3>1. 1 \in 1..Len(s) + 1 /\ i - 1 \in 1 - 1..Len(s) /\ Len(s) \in i - 1..Len(s)
          /\ (i - 1) + 1 = i
      BY <2>3
    <3>2. SubSeq(s, 1, i - 1) \o SubSeq(s, (i - 1) + 1, Len(s)) = SubSeq(s, 1, Len(s))
      BY <3>1, ConcatAdjacentSubSeq
    <3> QED
      BY <3>1, <3>2, SubSeqFull
  <2>8. c = <<x>> \o b
    <3>1. Len(s) \in i..Len(s)
      BY <2>3
    <3> QED
      BY <2>3, <3>1, SubSeqRecursiveFirst
  <2> HIDE DEF a, b, c
  <2> DEFINE rest == a \o b
             one  == <<x>>
  <2>9. rest \in Seq(Keys) /\ one \in Seq(Keys)
    BY <2>6, ConcatProperties
  <2>10. Amount(a \o c, k, w) = Amount(a, k, w) + Amount(c, k, w)
    BY <2>6, AmountOfConcat
  <2>11. Amount(rest, k, w) = Amount(a, k, w) + Amount(b, k, w)
    BY <2>6, AmountOfConcat
  <2>12. Amount(one, k, w) = IF x = k THEN w ELSE 0
    BY AmountOfOne
  <2> HIDE DEF rest, one
  <2>13. Amount(one \o b, k, w) = Amount(one, k, w) + Amount(b, k, w)
    BY <2>6, <2>9, AmountOfConcat
  <2>14. Amount(Append(rest, x), k, w) = Amount(rest, k, w) + (IF x = k THEN w ELSE 0)
    BY <2>9, AmountOfAppend
  <2>15. Amount(a, k, w) \in Nat /\ Amount(b, k, w) \in Nat
    BY <2>6, AmountType
  <2>16. Amount(s, k, w) = Amount(a, k, w) + Amount(c, k, w)
    BY <2>7, <2>10, Zenon
  <2>17. Amount(c, k, w) = Amount(one, k, w) + Amount(b, k, w)
    BY <2>8, <2>13, Zenon DEF one
  <2>18. Amount(Touched(s, x), k, w) = Amount(rest, k, w) + (IF x = k THEN w ELSE 0)
    BY <2>5, <2>14, Zenon DEF rest
  <2> HIDE DEF I
  <2> QED
    BY <2>11, <2>12, <2>15, <2>16, <2>17, <2>18
<1> QED
  BY <1>1, <1>2

LEMMA TouchedListed ==
  ASSUME NEW s \in Seq(Keys), NEW x \in Keys, NEW k
  PROVE  Contains(Touched(s, x), k) <=> Contains(s, k)
<1>1. Touched(s, x) \in Seq(Keys)
  BY TouchedType
<1>2. Contains(s, k) <=> Amount(s, k, 1) # 0
  BY AmountListed
<1>3. Contains(Touched(s, x), k) <=> Amount(Touched(s, x), k, 1) # 0
  BY <1>1, AmountListed
<1> QED
  BY <1>2, <1>3, AmountOfTouched

\* What is evicted has been recorded.
LEMMA AmountOfVictims ==
  ASSUME docs \in Seq(Keys), NEW needed \in Int, NEW k \in Keys, NEW w \in Nat
  PROVE  Amount(LruEntries(needed), k, w) <= Amount(docs, k, w)
<1> DEFINE Of(ext) == Kept(docs, {x \in Keys : Ext(x) = ext})
           L == LruOrder
           enough == {n \in 0..Len(L) : n = Len(L) \/ SizeOf(SubSeq(L, 1, n)) >= needed}
<1>1. \A ext : Of(ext) \in Seq(Keys)
  BY KeptType
<1>2. ASSUME NEW ext PROVE Amount(Of(ext), k, w) = IF Ext(k) = ext THEN Amount(docs, k, w) ELSE 0
  <2>1. k \in {x \in Keys : Ext(x) = ext} <=> Ext(k) = ext
    OBVIOUS
  <2> QED
    BY <2>1, AmountOfKept
<1>3. L = Of("bin") \o Of("txt") \o Of("md")
  BY DEF LruOrder
<1> HIDE DEF Of
<1>4. PICK b \in Seq(Keys), t \in Seq(Keys), m \in Seq(Keys) :
        b = Of("bin") /\ t = Of("txt") /\ m = Of("md")
  BY <1>1
<1>5. PICK bt \in Seq(Keys) : bt = b \o t
  BY ConcatProperties
<1>6. L = bt \o m
  BY <1>3, <1>4, <1>5, Zenon
<1>7. Amount(bt \o m, k, w) = Amount(bt, k, w) + Amount(m, k, w)
  BY AmountOfConcat
<1>8. Amount(bt, k, w) = Amount(b, k, w) + Amount(t, k, w)
  BY <1>5, AmountOfConcat
<1>9. /\ Amount(b, k, w) = IF Ext(k) = "bin" THEN Amount(docs, k, w) ELSE 0
      /\ Amount(t, k, w) = IF Ext(k) = "txt" THEN Amount(docs, k, w) ELSE 0
      /\ Amount(m, k, w) = IF Ext(k) = "md" THEN Amount(docs, k, w) ELSE 0
  BY <1>2, <1>4
<1>10. Ext(k) \in {"bin", "txt", "md"} /\ Amount(docs, k, w) \in Nat
  BY ConstantsAssumption, AmountType DEF Ext, Keys
<1>11. Amount(bt \o m, k, w) = Amount(docs, k, w)
  BY <1>7, <1>8, <1>9, <1>10
<1>12. Amount(L, k, w) = Amount(docs, k, w)
  BY <1>6, <1>11, Zenon
<1>13. L \in Seq(Keys)
  <2>1. bt \o m \in Seq(Keys)
    BY ConcatProperties
  <2> QED
    BY <1>6, <2>1, Zenon
<1>14. Min(enough) \in 0..Len(L)
  <2>1. Len(L) \in Nat
    <3> HIDE DEF L
    <3> QED
      BY <1>13
  <2>2. enough \in SUBSET Nat /\ Len(L) \in enough /\ enough \subseteq 0..Len(L)
    <3> HIDE DEF L
    <3> QED
      BY <2>1
  <2> HIDE DEF enough
  <2> QED
    BY <2>2, MinIn
<1>15. LruEntries(needed) = SubSeq(L, 1, Min(enough))
  BY DEF LruEntries
<1>16. Amount(SubSeq(L, 1, Min(enough)), k, w) <= Amount(L, k, w)
  <2> HIDE DEF L, enough
  <2> QED
    BY <1>13, <1>14, AmountOfPrefix
<1> HIDE DEF L, enough
<1> QED
  BY <1>12, <1>15, <1>16

-----------------------------------------------------------------------------
(* Sums over all keys *)

\* A finite set as a sequence: each of its elements once.
LEMMA SetListed ==
  ASSUME NEW S, IsFiniteSet(S)
  PROVE  /\ Cardinality(S) \in Nat
         /\ SetToSeq(S) \in [1..Cardinality(S) -> S]
         /\ \A i, j \in 1..Cardinality(S) : SetToSeq(S)[i] = SetToSeq(S)[j] => i = j
         /\ \A x \in S : \E i \in 1..Cardinality(S) : SetToSeq(S)[i] = x
<1> DEFINE n == Cardinality(S)
           f == SetToSeq(S)
<1>1. n \in Nat /\ ExistsBijection(1..n, S)
  BY FS_CardinalityType
<1>2. \E g \in [1..n -> S] : IsInjective(g)
  BY <1>1 DEF ExistsBijection, Bijection, Injection
<1>3. f \in [1..n -> S] /\ IsInjective(f)
  BY <1>2 DEF SetToSeq
<1> HIDE DEF f
<1>4. \A i, j \in 1..n : f[i] = f[j] => i = j
  BY <1>3 DEF IsInjective
<1>5. f \in Injection(1..n, S)
  BY <1>3 DEF Injection
<1>6. IsFiniteSet(1..n) /\ Cardinality(1..n) = n
  BY <1>1, FS_Interval
<1> HIDE DEF n
<1>7. f \in Surjection(1..n, S)
  BY <1>5, <1>6, FS_Injection DEF n
<1>8. \A x \in S : \E i \in 1..n : f[i] = x
  BY <1>7 DEF Surjection
<1> QED
  BY <1>1, <1>3, <1>4, <1>8 DEF f, n

LEMMA KeysFinite == IsFiniteSet(Keys)
  BY ConstantsAssumption, FS_Product DEF Keys

\* g[k], summed over all keys.
Listed(g) == [i \in 1..Cardinality(Keys) |-> g[SetToSeq(Keys)[i]]]
Total(g)  == SumTo(Listed(g), Cardinality(Keys))

Numbers(g) == \A k \in Keys : g[k] \in Nat

LEMMA ListedType ==
  ASSUME NEW g, Numbers(g)
  PROVE  /\ Cardinality(Keys) \in Nat /\ Summable(Listed(g), Cardinality(Keys))
         /\ \A i \in 1..Cardinality(Keys) :
              SetToSeq(Keys)[i] \in Keys /\ Listed(g)[i] = g[SetToSeq(Keys)[i]]
  BY KeysFinite, SetListed DEF Listed, Summable, Numbers

LEMMA TotalType == ASSUME NEW g, Numbers(g) PROVE Total(g) \in Nat
  BY ListedType, SumType DEF Total

LEMMA TotalAdds ==
  ASSUME NEW f, NEW g, NEW h, Numbers(f), Numbers(g), \A k \in Keys : h[k] = f[k] + g[k]
  PROVE  Total(h) = Total(f) + Total(g)
<1>1. Numbers(h)
  BY DEF Numbers
<1> DEFINE n == Cardinality(Keys)
           lf == Listed(f)
           lg == Listed(g)
           lh == Listed(h)
<1>2. n \in Nat /\ Summable(lf, n) /\ Summable(lg, n) /\ \A i \in 1..n : lh[i] = lf[i] + lg[i]
  BY <1>1, ListedType
<1>3. SumTo(lh, n) = SumTo(lf, n) + SumTo(lg, n)
  <2> HIDE DEF n, lf, lg, lh
  <2> QED
    BY <1>2, SumAdds
<1> QED
  BY <1>3 DEF Total

LEMMA TotalGrows ==
  ASSUME NEW f, NEW g, Numbers(f), Numbers(g), \A k \in Keys : f[k] <= g[k]
  PROVE  Total(f) <= Total(g)
<1> DEFINE n == Cardinality(Keys)
           lf == Listed(f)
           lg == Listed(g)
<1>1. n \in Nat /\ Summable(lf, n) /\ Summable(lg, n) /\ \A i \in 1..n : lf[i] <= lg[i]
  BY ListedType
<1>2. SumTo(lf, n) <= SumTo(lg, n)
  <2> HIDE DEF n, lf, lg
  <2> QED
    BY <1>1, SumGrows
<1> QED
  BY <1>2 DEF Total

LEMMA TotalDiffers ==
  ASSUME NEW f, NEW g, Numbers(f), Numbers(g), NEW k \in Keys,
         \A x \in Keys : x # k => f[x] = g[x]
  PROVE  Total(f) + g[k] = Total(g) + f[k]
<1> DEFINE n == Cardinality(Keys)
           lf == Listed(f)
           lg == Listed(g)
<1>1. PICK j \in 1..n : SetToSeq(Keys)[j] = k
  BY KeysFinite, SetListed
<1>2. \A i \in 1..n : i # j => SetToSeq(Keys)[i] # k
  BY <1>1, KeysFinite, SetListed
<1>3. n \in Nat /\ Summable(lf, n) /\ Summable(lg, n) /\ lf[j] = f[k] /\ lg[j] = g[k]
      /\ \A i \in 1..n : i # j => lf[i] = lg[i]
  BY <1>1, <1>2, ListedType
<1>4. SumTo(lf, n) + lg[j] = SumTo(lg, n) + lf[j]
  <2> HIDE DEF n, lf, lg
  <2> QED
    BY <1>3, SumDiffers
<1> QED
  BY <1>3, <1>4 DEF Total

LEMMA TotalOfZeros == ASSUME NEW g, \A k \in Keys : g[k] = 0 PROVE Total(g) = 0
<1>1. Numbers(g)
  BY DEF Numbers
<1> DEFINE n == Cardinality(Keys)
           l == Listed(g)
<1>2. n \in Nat /\ \A i \in 1..n : l[i] = 0
  BY <1>1, ListedType
<1>3. SumTo(l, n) = 0
  <2> HIDE DEF n, l
  <2> QED
    BY <1>2, SumOfZeros
<1> QED
  BY <1>3 DEF Total

\* What is in s, key by key.
Ledger(s) == [k \in Keys |-> Amount(s, k, Size(k))]

LEMMA SizeType == ASSUME NEW k \in Keys PROVE Size(k) \in Nat
  BY ConstantsAssumption DEF Size, Keys

LEMMA LedgerType ==
  ASSUME NEW s \in Seq(Keys)
  PROVE  Numbers(Ledger(s)) /\ \A k \in Keys : Ledger(s)[k] = Amount(s, k, Size(k))
  BY SizeType, AmountType DEF Ledger, Numbers

\* The sizes of s together: the same by entry and by key.
LEMMA SizeOfTotals == ASSUME NEW s \in Seq(Keys) PROVE SizeOf(s) = Total(Ledger(s))
<1> DEFINE N == Len(s)
           W(k) == Weights(s, k, Size(k))
           L(n) == [k \in Keys |-> SumTo(W(k), n)]
           z == SizesOf(s)
<1>1. N \in Nat /\ Summable(z, N) /\ SizeOf(s) = SumTo(z, N)
  BY SizeOfSums
<1>2. \A n \in 1..N : s[n] \in Keys /\ z[n] = Size(s[n])
  BY DEF SizesOf
<1>3. \A k \in Keys : /\ Summable(W(k), N)
                      /\ \A n \in 1..N : W(k)[n] = IF s[n] = k THEN Size(k) ELSE 0
  BY SizeType, WeightsType
<1> HIDE DEF W, z, N
<1>4. \A n \in 0..N, k \in Keys : Summable(W(k), n)
  BY <1>1, <1>3 DEF Summable
<1>5. \A n \in 0..N : Numbers(L(n)) /\ \A k \in Keys : L(n)[k] = SumTo(W(k), n)
  BY <1>1, <1>4, SumType DEF Numbers
<1> DEFINE T == {n \in 0..N : Total(L(n)) = SumTo(z, n)}
<1>6. 0 \in T
  <2>1. \A k \in Keys : L(0)[k] = 0
    BY <1>1, <1>5, SumOfNone
  <2> HIDE DEF L
  <2> QED
    BY <1>1, <2>1, TotalOfZeros, SumOfNone
<1>7. ASSUME NEW n \in 1..N, n - 1 \in T PROVE n \in T
  <2>1. n \in 0..N /\ n - 1 \in 0..N /\ n \in Nat /\ n # 0 /\ Summable(z, n) /\ s[n] \in Keys
    BY <1>1, <1>2 DEF Summable
  <2>2. SumTo(z, n) = SumTo(z, n - 1) + Size(s[n])
    BY <1>2, <2>1, SumStep
  <2>3. \A k \in Keys : SumTo(W(k), n) = SumTo(W(k), n - 1) + W(k)[n]
    BY <1>4, <2>1, SumStep
  <2>4. \A k \in Keys : k # s[n] => L(n - 1)[k] = L(n)[k]
    <3> SUFFICES ASSUME NEW k \in Keys, k # s[n] PROVE L(n - 1)[k] = L(n)[k]
      OBVIOUS
    <3>1. W(k)[n] = 0
      BY <1>3
    <3>2. SumTo(W(k), n - 1) \in Nat
      BY <1>5, <2>1 DEF Numbers
    <3>3. SumTo(W(k), n) = SumTo(W(k), n - 1)
      BY <2>3, <3>1, <3>2
    <3> QED
      BY <3>3
  <2>5. L(n)[s[n]] = L(n - 1)[s[n]] + Size(s[n])
    BY <1>3, <2>1, <2>3
  <2>6. Numbers(L(n)) /\ Numbers(L(n - 1)) /\ Total(L(n - 1)) = SumTo(z, n - 1)
    BY <1>5, <1>7, <2>1
  <2> HIDE DEF L
  <2>7. Total(L(n - 1)) + L(n)[s[n]] = Total(L(n)) + L(n - 1)[s[n]]
    BY <2>1, <2>4, <2>6, TotalDiffers
  <2>8. /\ Total(L(n)) \in Nat /\ Total(L(n - 1)) \in Nat /\ L(n - 1)[s[n]] \in Nat
        /\ Size(s[n]) \in Nat
    BY <2>1, <2>6, TotalType, SizeType DEF Numbers
  <2> QED
    BY <2>1, <2>2, <2>5, <2>6, <2>7, <2>8
<1>8. \A n \in 0..N : n \in T
  <2> HIDE DEF T
  <2> QED
    BY <1>1, <1>6, <1>7, Reaches
<1>9. Total(L(N)) = SumTo(z, N)
  BY <1>1, <1>8
<1>10. L(N) = Ledger(s)
  BY DEF Ledger, Amount, W, N
<1> QED
  BY <1>1, <1>9, <1>10, Zenon

-----------------------------------------------------------------------------
(* The books: d the cached outputs, s the records, t the total, r the one call there *)
(* is                                                                               *)

Disks == [Keys -> Contents \cup {NoContent}]
Here(d, k) == d[k] # NoContent

\* What the total holds of each key: once for each of its records, and at least once if
\* its file is there.
Counted(d, s) ==
    [k \in Keys |-> IF Here(d, k) /\ Ledger(s)[k] < Size(k) THEN Size(k) ELSE Ledger(s)[k]]

Evicting == {"evict_file", "evict_record", "evict_save"}
Adding   == {"add_load", "add_save"}
Dropped  == {"stale_images", "stale_delete"}
Dropping == {"stale_unlink"} \cup Dropped
Plain    == PCs \ (Evicting \cup Adding \cup Dropping \cup {"diff_insert"})

\* What will be left of that when the call has done what it has begun, and what the total
\* will be.
Left(d, s, r) ==
    [k \in Keys |->
       IF r.pc \in Evicting
         THEN IF Counted(d, s)[k] <= Ledger(r.victims)[k] THEN 0
              ELSE Counted(d, s)[k] - Ledger(r.victims)[k]
       ELSE IF r.pc \in Dropping /\ k = r.key THEN 0
       ELSE IF r.pc = "diff_insert" /\ k = r.key THEN Ledger(s)[k]
       ELSE Counted(d, s)[k]]
Funds(t, r) ==
    IF r.pc \in Evicting THEN t - r.freed
    ELSE IF r.pc \in Adding THEN t + Size(r.key) ELSE t

Balanced(d, s, t, r) == Total(Left(d, s, r)) <= Funds(t, r)

\* A record without its file is the one the call is about to delete.
Gone(r, k) ==
    \/ r.pc = "evict_record" /\ k = Head(r.victims)
    \/ r.pc \in Dropped /\ k = r.key
Filled(d, s, r) == \A k \in Keys : Contains(s, k) => Here(d, k) \/ Gone(r, k)

\* Only diffs are recorded twice.
Single(s) == \A k \in Keys : k[2] \notin Diffs => Amount(s, k, 1) <= 1

\* What the call relies on.
Poised(d, s, t, r) ==
    /\ r.pc \in {"stale_save", "add_save"} \cup Evicting => r.seen = t
    /\ r.pc \in {"stale_load", "stale_save", "stale_unlink", "insert", "diff_insert"} \cup Adding =>
         Here(d, r.key)
    /\ r.pc \in Dropped => ~Here(d, r.key)
    /\ r.pc = "evict_record" => ~Here(d, Head(r.victims))
    /\ r.pc \in {"evict_file", "evict_record"} => r.victims # <<>>
    /\ r.pc = "evict_save" => r.victims = <<>>
    /\ r.pc \in {"space", "make", "insert"} \cup Evicting => ~Contains(s, r.key)
    /\ r.pc \in Adding => r.key[2] \in Diffs \/ ~Contains(s, r.key)
    /\ r.pc \in {"diff", "diff_insert"} => r.key[2] \in Diffs

Settled(d, s, t, r) == Balanced(d, s, t, r) /\ Filled(d, s, r) /\ Single(s) /\ Poised(d, s, t, r)

\* What these are.
Books(d, s, t, r) ==
    /\ d \in Disks /\ s \in Seq(Keys) /\ t \in Int /\ r \in Calling
    /\ r.pc # "idle" => r.key \in Keys

LEMMA CountedType ==
  ASSUME NEW d, NEW s \in Seq(Keys)
  PROVE  /\ Numbers(Counted(d, s))
         /\ \A k \in Keys : /\ Counted(d, s)[k] = IF Here(d, k) /\ Ledger(s)[k] < Size(k)
                                                    THEN Size(k) ELSE Ledger(s)[k]
                            /\ Ledger(s)[k] <= Counted(d, s)[k]
                            /\ Here(d, k) => Size(k) <= Counted(d, s)[k]
<1>1. ASSUME NEW k \in Keys
      PROVE  Size(k) \in Nat /\ Ledger(s)[k] \in Nat
  BY SizeType, LedgerType DEF Numbers
<1>2. \A k \in Keys : Counted(d, s)[k] = IF Here(d, k) /\ Ledger(s)[k] < Size(k)
                                           THEN Size(k) ELSE Ledger(s)[k]
  BY DEF Counted
<1> QED
  BY <1>1, <1>2 DEF Numbers

\* Fewer files and fewer records count for less.
LEMMA CountedGrows ==
  ASSUME NEW d, NEW e, NEW s \in Seq(Keys), NEW u \in Seq(Keys), NEW k \in Keys,
         Here(e, k) => Here(d, k), Ledger(u)[k] <= Ledger(s)[k]
  PROVE  Counted(e, u)[k] <= Counted(d, s)[k]
<1>1. Size(k) \in Nat /\ Ledger(s)[k] \in Nat /\ Ledger(u)[k] \in Nat
  BY SizeType, LedgerType DEF Numbers
<1> QED
  BY <1>1, CountedType

LEMMA LeftType ==
  ASSUME NEW d, NEW s \in Seq(Keys), NEW r \in Calling
  PROVE  /\ Numbers(Left(d, s, r))
         /\ r.pc \in Plain \cup Adding => Left(d, s, r) = Counted(d, s)
         /\ r.pc \in Evicting =>
              \A k \in Keys : Left(d, s, r)[k] =
                IF Counted(d, s)[k] <= Ledger(r.victims)[k] THEN 0
                ELSE Counted(d, s)[k] - Ledger(r.victims)[k]
         /\ r.pc \in Dropping =>
              \A k \in Keys : Left(d, s, r)[k] = IF k = r.key THEN 0 ELSE Counted(d, s)[k]
         /\ r.pc = "diff_insert" =>
              \A k \in Keys : Left(d, s, r)[k] = IF k = r.key THEN Ledger(s)[k]
                                                 ELSE Counted(d, s)[k]
<1>1. ASSUME NEW k \in Keys
      PROVE  Counted(d, s)[k] \in Nat /\ Ledger(s)[k] \in Nat /\ Ledger(r.victims)[k] \in Nat
  <2>1. r.victims \in Seq(Keys)
    BY DEF Calling
  <2> QED
    BY <2>1, CountedType, LedgerType DEF Numbers
<1>2. ASSUME NEW k \in Keys
      PROVE  Left(d, s, r)[k] =
               IF r.pc \in Evicting
                 THEN IF Counted(d, s)[k] <= Ledger(r.victims)[k] THEN 0
                      ELSE Counted(d, s)[k] - Ledger(r.victims)[k]
               ELSE IF r.pc \in Dropping /\ k = r.key THEN 0
               ELSE IF r.pc = "diff_insert" /\ k = r.key THEN Ledger(s)[k]
               ELSE Counted(d, s)[k]
  BY DEF Left
<1>3. Numbers(Left(d, s, r))
  BY <1>1, <1>2 DEF Numbers
<1>4. r.pc \in Evicting => r.pc \notin Dropping \cup {"diff_insert"}
  BY DEF Evicting, Dropping, Dropped
<1>5. ASSUME r.pc \in Plain \cup Adding PROVE Left(d, s, r) = Counted(d, s)
  <2>1. r.pc \notin Evicting \cup Dropping \cup {"diff_insert"}
    BY <1>5 DEF Plain, Adding, Evicting, Dropping, Dropped
  <2>2. \A k \in Keys : Left(d, s, r)[k] = Counted(d, s)[k]
    BY <1>2, <2>1
  <2>3. Left(d, s, r) = [k \in Keys |-> Left(d, s, r)[k]]
        /\ Counted(d, s) = [k \in Keys |-> Counted(d, s)[k]]
    BY DEF Left, Counted
  <2> QED
    BY <2>2, <2>3
<1>6. r.pc \in Dropping => r.pc \notin Evicting
  BY DEF Evicting, Dropping, Dropped
<1>7. r.pc = "diff_insert" => r.pc \notin Evicting \cup Dropping
  BY DEF Evicting, Dropping, Dropped
<1> QED
  BY <1>2, <1>3, <1>5, <1>6, <1>7

LEMMA FundsType ==
  ASSUME NEW t \in Int, NEW r \in Calling, r.pc # "idle" => r.key \in Keys
  PROVE  /\ Funds(t, r) \in Int
         /\ r.pc \in Evicting => Funds(t, r) = t - r.freed
         /\ r.pc \in Adding => Funds(t, r) = t + Size(r.key)
         /\ r.pc \in PCs \ (Evicting \cup Adding) => Funds(t, r) = t
<1>1. r.freed \in Int
  BY DEF Calling
<1>2. r.pc \in Adding => Size(r.key) \in Nat /\ r.pc \notin Evicting
  BY SizeType DEF Adding, Evicting
<1> QED
  BY <1>1, <1>2 DEF Funds

-----------------------------------------------------------------------------
(* How the books stay balanced *)

\* What is left is less, key by key, and the funds are not.
LEMMA LessIsLeft ==
  ASSUME NEW d, NEW s, NEW t, NEW r, Books(d, s, t, r), Balanced(d, s, t, r),
         NEW e, NEW u, NEW v, NEW q, Books(e, u, v, q),
         \A k \in Keys : Left(e, u, q)[k] <= Left(d, s, r)[k],
         Funds(t, r) <= Funds(v, q)
  PROVE  Balanced(e, u, v, q)
<1>1. Numbers(Left(d, s, r)) /\ Numbers(Left(e, u, q)) /\ Funds(t, r) \in Int /\ Funds(v, q) \in Int
  BY LeftType, FundsType DEF Books
<1>2. Total(Left(e, u, q)) <= Total(Left(d, s, r))
  BY <1>1, TotalGrows
<1>3. Total(Left(e, u, q)) \in Nat /\ Total(Left(d, s, r)) \in Nat
  BY <1>1, TotalType
<1> QED
  BY <1>1, <1>2, <1>3 DEF Balanced

\* What is left of one key, and the funds, change by as much.
LEMMA OneIsLeft ==
  ASSUME NEW d, NEW s, NEW t, NEW r, Books(d, s, t, r), Balanced(d, s, t, r),
         NEW e, NEW u, NEW v, NEW q, Books(e, u, v, q), NEW k \in Keys, NEW x \in Int,
         \A y \in Keys : y # k => Left(e, u, q)[y] = Left(d, s, r)[y],
         Left(e, u, q)[k] <= Left(d, s, r)[k] + x,
         Funds(t, r) + x <= Funds(v, q)
  PROVE  Balanced(e, u, v, q)
<1>1. Numbers(Left(d, s, r)) /\ Numbers(Left(e, u, q)) /\ Funds(t, r) \in Int /\ Funds(v, q) \in Int
  BY LeftType, FundsType DEF Books
<1>2. Total(Left(e, u, q)) + Left(d, s, r)[k] = Total(Left(d, s, r)) + Left(e, u, q)[k]
  BY <1>1, TotalDiffers
<1>3. /\ Total(Left(e, u, q)) \in Nat /\ Total(Left(d, s, r)) \in Nat
      /\ Left(e, u, q)[k] \in Nat /\ Left(d, s, r)[k] \in Nat
  BY <1>1, TotalType DEF Numbers
<1> QED
  BY <1>1, <1>2, <1>3 DEF Balanced

-----------------------------------------------------------------------------
(* Every step of the one call settles the books anew *)

\* Where one output is written, or unlinked; where only the records in T stay.
Put(e, d, k, x)   == e = [d EXCEPT ![k] = x]
Trim(u, s, T)     == u = Kept(s, T)

LEMMA PutGives ==
  ASSUME NEW d \in Disks, NEW k \in Keys, NEW x \in Contents \cup {NoContent}, NEW e, Put(e, d, k, x)
  PROVE  /\ e \in Disks
         /\ Here(e, k) <=> x # NoContent
         /\ \A y \in Keys : y # k => (Here(e, y) <=> Here(d, y))
  BY DEF Disks, Here, Put

\* The call only goes on.
LEMMA MoveSettles ==
  ASSUME NEW d, NEW s, NEW t, NEW r, Books(d, s, t, r), Settled(d, s, t, r), r.pc \in Plain,
         NEW q, Books(d, s, t, q), q.pc \in Plain, Poised(d, s, t, q)
  PROVE  Settled(d, s, t, q)
<1>1. Left(d, s, r) = Counted(d, s) /\ Left(d, s, q) = Counted(d, s)
  BY LeftType DEF Books
<1>2. Funds(t, r) = t /\ Funds(t, q) = t
  BY FundsType DEF Books, Plain
<1>3. Balanced(d, s, t, q)
  BY <1>1, <1>2 DEF Settled, Balanced
<1>4. Filled(d, s, q)
  BY DEF Settled, Filled, Gone, Plain, Evicting, Dropping, Dropped
<1> QED
  BY <1>3, <1>4 DEF Settled

\* Records are moved, or deleted.
LEMMA RecordsSettle ==
  ASSUME NEW d, NEW s, NEW t, NEW r, Books(d, s, t, r), Settled(d, s, t, r), r.pc \in Plain,
         NEW u, NEW q, Books(d, u, t, q), q.pc \in Plain, Poised(d, u, t, q),
         \A k \in Keys, w \in Nat : Amount(u, k, w) <= Amount(s, k, w),
         \A k \in Keys : Contains(u, k) => Contains(s, k)
  PROVE  Settled(d, u, t, q)
<1>1. \A k \in Keys : Ledger(u)[k] <= Ledger(s)[k]
  BY SizeType, LedgerType DEF Books
<1>2. \A k \in Keys : Counted(d, u)[k] <= Counted(d, s)[k]
  BY <1>1, CountedGrows DEF Books
<1>3. Left(d, s, r) = Counted(d, s) /\ Left(d, u, q) = Counted(d, u)
  BY LeftType DEF Books
<1>4. Funds(t, r) = t /\ Funds(t, q) = t /\ t \in Int
  BY FundsType DEF Books, Plain
<1>5. \A k \in Keys : Left(d, u, q)[k] <= Left(d, s, r)[k]
  BY <1>2, <1>3
<1>6. Balanced(d, u, t, q)
  BY <1>4, <1>5, LessIsLeft DEF Settled
<1>7. Filled(d, u, q)
  BY DEF Settled, Filled, Gone, Plain, Evicting, Dropping, Dropped
<1>8. Single(u)
  <2> SUFFICES ASSUME NEW k \in Keys, k[2] \notin Diffs PROVE Amount(u, k, 1) <= 1
    BY DEF Single
  <2>1. Amount(s, k, 1) <= 1 /\ Amount(u, k, 1) <= Amount(s, k, 1)
    BY DEF Settled, Single
  <2>2. Amount(s, k, 1) \in Nat /\ Amount(u, k, 1) \in Nat
    BY AmountType DEF Books
  <2> QED
    BY <2>1, <2>2
<1> QED
  BY <1>6, <1>7, <1>8 DEF Settled

\* _prune_stale_cached_transform: the size goes first, then the file, the record last.
LEMMA StaleSaveSettles ==
  ASSUME NEW d, NEW s, NEW t, NEW r, Books(d, s, t, r), Settled(d, s, t, r),
         r.pc = "stale_save", NEW q, q \in Calling, q.pc = "stale_unlink", q.key = r.key,
         NEW v, v = IF r.seen - Size(r.key) < 0 THEN 0 ELSE r.seen - Size(r.key)
  PROVE  Books(d, s, v, q) /\ Settled(d, s, v, q)
<1>1. /\ r.key \in Keys /\ r.seen = t /\ t \in Int /\ Size(r.key) \in Nat
      /\ Here(d, r.key) /\ s \in Seq(Keys) /\ r \in Calling
  BY SizeType DEF Books, Settled, Poised
<1>2. v \in Int /\ t - Size(r.key) <= v
  BY <1>1
<1>3. Books(d, s, v, q)
  BY <1>1, <1>2 DEF Books
<1>4. r.pc \in Plain /\ q.pc \in Dropping
  BY DEF Plain, PCs, Evicting, Adding, Dropping, Dropped
<1>5. Left(d, s, r) = Counted(d, s)
      /\ \A k \in Keys : Left(d, s, q)[k] = IF k = r.key THEN 0 ELSE Counted(d, s)[k]
  BY <1>1, <1>4, LeftType
<1>6. Funds(t, r) = t /\ Funds(v, q) = v
  BY <1>1, <1>2, <1>4, FundsType DEF PCs, Plain, Evicting, Adding, Dropping, Dropped
<1>7. Counted(d, s)[r.key] \in Nat /\ Size(r.key) <= Counted(d, s)[r.key]
  BY <1>1, CountedType DEF Numbers
<1>8. Balanced(d, s, v, q)
  <2> DEFINE x == 0 - Size(r.key)
  <2>1. x \in Int /\ Funds(t, r) + x <= Funds(v, q) /\ Left(d, s, q)[r.key] <= Left(d, s, r)[r.key] + x
    BY <1>1, <1>2, <1>5, <1>6, <1>7
  <2>2. \A y \in Keys : y # r.key => Left(d, s, q)[y] = Left(d, s, r)[y]
    BY <1>5
  <2> HIDE DEF x
  <2> QED
    BY <1>1, <1>3, <2>1, <2>2, OneIsLeft DEF Settled
<1>9. Filled(d, s, q)
  BY DEF Settled, Filled, Gone, Dropped
<1>10. Poised(d, s, v, q)
  BY <1>1 DEF Poised, Evicting, Adding, Dropped
<1> QED
  BY <1>3, <1>8, <1>9, <1>10 DEF Settled

LEMMA StaleUnlinkSettles ==
  ASSUME NEW d, NEW s, NEW t, NEW r, Books(d, s, t, r), Settled(d, s, t, r),
         r.pc = "stale_unlink", NEW q, q \in Calling, q.pc = "stale_images", q.key = r.key,
         NEW e, Put(e, d, r.key, NoContent)
  PROVE  Books(e, s, t, q) /\ Settled(e, s, t, q)
<1>1. r.key \in Keys /\ t \in Int /\ s \in Seq(Keys) /\ r \in Calling
  BY DEF Books
<1>2. /\ e \in Disks /\ ~Here(e, r.key)
      /\ \A k \in Keys : k # r.key => (Here(e, k) <=> Here(d, k))
  BY <1>1, PutGives DEF Books
<1>3. Books(e, s, t, q)
  BY <1>1, <1>2 DEF Books
<1>4. r.pc \in Dropping /\ q.pc \in Dropping
  BY DEF Dropping, Dropped
<1>5. \A k \in Keys : Left(d, s, r)[k] = IF k = r.key THEN 0 ELSE Counted(d, s)[k]
  BY <1>1, <1>4, LeftType
<1>6. \A k \in Keys : Left(e, s, q)[k] = IF k = q.key THEN 0 ELSE Counted(e, s)[k]
  BY <1>1, <1>4, LeftType
<1>7. \A k \in Keys : Counted(e, s)[k] <= Counted(d, s)[k]
  <2> SUFFICES ASSUME NEW k \in Keys PROVE Counted(e, s)[k] <= Counted(d, s)[k]
    OBVIOUS
  <2>1. Ledger(s)[k] <= Ledger(s)[k]
    BY <1>1, LedgerType DEF Numbers
  <2> QED
    BY <1>1, <1>2, <2>1, CountedGrows
<1>8. \A k \in Keys : Left(e, s, q)[k] <= Left(d, s, r)[k]
  <2> SUFFICES ASSUME NEW k \in Keys PROVE Left(e, s, q)[k] <= Left(d, s, r)[k]
    OBVIOUS
  <2> QED
    BY <1>5, <1>6, <1>7
<1>9. Funds(t, r) = t /\ Funds(t, q) = t
  BY <1>1, FundsType DEF PCs, Evicting, Adding
<1>10. Balanced(e, s, t, q)
  <2>1. Balanced(d, s, t, r) /\ Funds(t, r) <= Funds(t, q)
    BY <1>1, <1>9 DEF Settled
  <2> QED
    BY <1>3, <1>8, <2>1, LessIsLeft, Zenon
<1>11. Filled(e, s, q)
  BY <1>2 DEF Settled, Filled, Gone, Dropped
<1>12. Poised(e, s, t, q)
  BY <1>2 DEF Poised, Evicting, Adding, Dropped
<1> QED
  BY <1>3, <1>10, <1>11, <1>12 DEF Settled

LEMMA StaleImagesSettles ==
  ASSUME NEW d, NEW s, NEW t, NEW r, Books(d, s, t, r), Settled(d, s, t, r),
         r.pc = "stale_images", NEW q, q \in Calling, q.pc = "stale_delete", q.key = r.key
  PROVE  Books(d, s, t, q) /\ Settled(d, s, t, q)
<1>1. r.key \in Keys /\ t \in Int /\ s \in Seq(Keys) /\ r \in Calling
  BY DEF Books
<1>2. Books(d, s, t, q)
  BY <1>1 DEF Books
<1>3. r.pc \in Dropping /\ q.pc \in Dropping
  BY DEF Dropping, Dropped
<1>4. \A k \in Keys : Left(d, s, r)[k] = IF k = r.key THEN 0 ELSE Counted(d, s)[k]
  BY <1>1, <1>3, LeftType
<1>5. \A k \in Keys : Left(d, s, q)[k] = IF k = q.key THEN 0 ELSE Counted(d, s)[k]
  BY <1>1, <1>3, LeftType
<1>6. \A k \in Keys : Left(d, s, q)[k] <= Left(d, s, r)[k]
  <2> SUFFICES ASSUME NEW k \in Keys PROVE Left(d, s, q)[k] <= Left(d, s, r)[k]
    OBVIOUS
  <2>1. Counted(d, s)[k] \in Nat
    BY <1>1, CountedType DEF Numbers
  <2> QED
    BY <1>4, <1>5, <2>1
<1>7. Funds(t, r) = t /\ Funds(t, q) = t
  BY <1>1, FundsType DEF PCs, Evicting, Adding
<1>8. Balanced(d, s, t, q)
  BY <1>1, <1>2, <1>6, <1>7, LessIsLeft DEF Settled
<1>9. Filled(d, s, q)
  BY DEF Settled, Filled, Gone, Dropped
<1>10. Poised(d, s, t, q)
  BY DEF Settled, Poised, Evicting, Adding, Dropped
<1> QED
  BY <1>2, <1>8, <1>9, <1>10 DEF Settled

\* What filtering the records does to the books.
LEMMA KeptBooks ==
  ASSUME NEW s \in Seq(Keys), NEW T, NEW u, Trim(u, s, T)
  PROVE  /\ u \in Seq(Keys)
         /\ \A k \in Keys : Ledger(u)[k] = IF k \in T THEN Ledger(s)[k] ELSE 0
         /\ \A k \in Keys : Ledger(u)[k] <= Ledger(s)[k]
         /\ \A k \in Keys, w \in Nat : Amount(u, k, w) <= Amount(s, k, w)
         /\ \A k \in Keys : Contains(u, k) <=> Contains(s, k) /\ k \in T
         /\ Single(s) => Single(u)
<1>1. u \in Seq(Keys)
  BY KeptType DEF Trim
<1>2. \A k \in Keys, w \in Nat : /\ Amount(u, k, w) = IF k \in T THEN Amount(s, k, w) ELSE 0
                                 /\ Amount(s, k, w) \in Nat
  BY AmountOfKept, AmountType DEF Trim
<1>3. \A k \in Keys : Ledger(u)[k] = IF k \in T THEN Ledger(s)[k] ELSE 0
  BY <1>1, <1>2, SizeType, LedgerType
<1>4. \A k \in Keys : Ledger(u)[k] <= Ledger(s)[k]
  BY <1>3, LedgerType DEF Numbers
<1>5. \A k \in Keys, w \in Nat : Amount(u, k, w) <= Amount(s, k, w)
  <2> SUFFICES ASSUME NEW k \in Keys, NEW w \in Nat PROVE Amount(u, k, w) <= Amount(s, k, w)
    OBVIOUS
  <2>1. /\ Amount(u, k, w) = IF k \in T THEN Amount(s, k, w) ELSE 0
        /\ Amount(s, k, w) \in Nat
    BY <1>2
  <2> QED
    BY <2>1
<1>6. \A k \in Keys : Contains(u, k) <=> Contains(s, k) /\ k \in T
  BY KeptListed DEF Trim
<1>7. ASSUME Single(s) PROVE Single(u)
  <2> SUFFICES ASSUME NEW k \in Keys, k[2] \notin Diffs PROVE Amount(u, k, 1) <= 1
    BY DEF Single
  <2>1. Amount(s, k, 1) <= 1 /\ Amount(s, k, 1) \in Nat
    BY <1>7, AmountType DEF Single
  <2>2. Amount(u, k, 1) = IF k \in T THEN Amount(s, k, 1) ELSE 0
    BY <1>2
  <2> QED
    BY <2>1, <2>2
<1> QED
  BY <1>1, <1>3, <1>4, <1>5, <1>6, <1>7

LEMMA StaleDeleteSettles ==
  ASSUME NEW d, NEW s, NEW t, NEW r, Books(d, s, t, r), Settled(d, s, t, r),
         r.pc = "stale_delete", NEW q, q \in Calling, q.pc = "space", q.key = r.key,
         NEW u, Trim(u, s, Keys \ {r.key})
  PROVE  Books(d, u, t, q) /\ Settled(d, u, t, q)
<1>1. r.key \in Keys /\ t \in Int /\ s \in Seq(Keys) /\ r \in Calling
  BY DEF Books
<1>2. /\ u \in Seq(Keys)
      /\ \A k \in Keys : Ledger(u)[k] = IF k \in Keys \ {r.key} THEN Ledger(s)[k] ELSE 0
      /\ \A k \in Keys : Ledger(u)[k] <= Ledger(s)[k]
      /\ \A k \in Keys : Contains(u, k) <=> Contains(s, k) /\ k \in Keys \ {r.key}
      /\ Single(u)
  BY <1>1, KeptBooks DEF Settled
<1>3. Books(d, u, t, q)
  BY <1>1, <1>2 DEF Books
<1>4. r.pc \in Dropping /\ q.pc \in Plain
  BY DEF Dropping, Dropped, Plain, PCs, Evicting, Adding
<1>5. \A k \in Keys : Left(d, s, r)[k] = IF k = r.key THEN 0 ELSE Counted(d, s)[k]
  BY <1>1, <1>4, LeftType
<1>6. Left(d, u, q) = Counted(d, u)
  BY <1>2, <1>4, LeftType
<1>7. \A k \in Keys : Counted(d, u)[k] <= Counted(d, s)[k]
  BY <1>1, <1>2, CountedGrows
<1>8. Counted(d, u)[r.key] = 0
  <2>1. ~Here(d, r.key)
    BY DEF Settled, Poised, Dropped
  <2>2. Ledger(u)[r.key] = 0
    BY <1>1, <1>2
  <2>3. Counted(d, u)[r.key] = IF Here(d, r.key) /\ Ledger(u)[r.key] < Size(r.key)
                                 THEN Size(r.key) ELSE Ledger(u)[r.key]
    BY <1>1, <1>2, CountedType
  <2> QED
    BY <2>1, <2>2, <2>3
<1>9. \A k \in Keys : Left(d, u, q)[k] <= Left(d, s, r)[k]
  BY <1>5, <1>6, <1>7, <1>8
<1>10. Funds(t, r) = t /\ Funds(t, q) = t
  BY <1>1, FundsType DEF PCs, Evicting, Adding
<1>11. Balanced(d, u, t, q)
  <2>1. Balanced(d, s, t, r) /\ Funds(t, r) <= Funds(t, q)
    BY <1>1, <1>10 DEF Settled
  <2> QED
    BY <1>3, <1>9, <2>1, LessIsLeft, Zenon
<1>12. Filled(d, u, q)
  BY <1>2 DEF Settled, Filled, Gone, Dropped
<1>13. Poised(d, u, t, q)
  BY <1>1, <1>2 DEF Poised, Evicting, Adding, Dropped
<1> QED
  BY <1>2, <1>3, <1>11, <1>12, <1>13 DEF Settled

\* ensure_space: what is freed is what the victims weigh, each of which is recorded.
LEMMA SpaceSettles ==
  ASSUME NEW d, NEW s, NEW t, NEW r, Books(d, s, t, r), Settled(d, s, t, r), r.pc = "space",
         NEW q, q \in Calling, q.pc = "evict_file", q.key = r.key, q.seen = t,
         q.victims # <<>>, q.freed = SizeOf(q.victims),
         \A k \in Keys : Ledger(q.victims)[k] <= Ledger(s)[k]
  PROVE  Books(d, s, t, q) /\ Settled(d, s, t, q)
<1>1. r.key \in Keys /\ t \in Int /\ s \in Seq(Keys) /\ r \in Calling /\ q.victims \in Seq(Keys)
  BY DEF Books, Calling
<1>2. Books(d, s, t, q)
  BY <1>1 DEF Books
<1>3. r.pc \in Plain /\ q.pc \in Evicting
  BY DEF Plain, PCs, Evicting, Adding, Dropping, Dropped
<1>4. Left(d, s, r) = Counted(d, s)
  BY <1>1, <1>3, LeftType
<1> DEFINE c == Counted(d, s)
           l == Left(d, s, q)
           z == Ledger(q.victims)
<1>5. Numbers(c) /\ Numbers(l) /\ Numbers(z)
  BY <1>1, CountedType, LeftType, LedgerType
<1>6. \A k \in Keys : l[k] = IF c[k] <= z[k] THEN 0 ELSE c[k] - z[k]
  BY <1>1, <1>3, LeftType
<1>7. \A k \in Keys : z[k] <= c[k]
  <2> SUFFICES ASSUME NEW k \in Keys PROVE z[k] <= c[k]
    OBVIOUS
  <2>1. z[k] <= Ledger(s)[k] /\ Ledger(s)[k] <= c[k]
    BY <1>1, CountedType
  <2>2. z[k] \in Nat /\ c[k] \in Nat /\ Ledger(s)[k] \in Nat
    BY <1>1, <1>5, LedgerType DEF Numbers
  <2> HIDE DEF z, c
  <2> QED
    BY <2>1, <2>2
<1> HIDE DEF c, l, z
<1>8. \A k \in Keys : c[k] = l[k] + z[k]
  BY <1>5, <1>6, <1>7 DEF Numbers
<1>9. Total(c) = Total(l) + Total(z)
  BY <1>5, <1>8, TotalAdds
<1>10. q.freed = Total(z)
  BY <1>1, SizeOfTotals DEF z
<1>11. Funds(t, r) = t /\ Funds(t, q) = t - q.freed
  BY <1>1, <1>2, <1>3, FundsType DEF Books, Plain
<1>12. Total(c) \in Nat /\ Total(l) \in Nat /\ Total(z) \in Nat
  BY <1>5, TotalType
<1>13. Total(c) <= t
  BY <1>4, <1>11 DEF Settled, Balanced, c
<1>14. Total(l) <= t - Total(z)
  BY <1>1, <1>9, <1>12, <1>13
<1>15. Balanced(d, s, t, q)
  BY <1>10, <1>11, <1>14 DEF Balanced, l
<1>16. Filled(d, s, q)
  BY <1>3 DEF Settled, Filled, Gone, Plain, Dropped
<1>17. Poised(d, s, t, q)
  BY DEF Settled, Poised, Evicting, Adding, Dropped
<1> QED
  BY <1>2, <1>15, <1>16, <1>17 DEF Settled

LEMMA EvictFileSettles ==
  ASSUME NEW d, NEW s, NEW t, NEW r, Books(d, s, t, r), Settled(d, s, t, r),
         r.pc = "evict_file", NEW q, q \in Calling, q.pc = "evict_record", q.key = r.key,
         q.seen = r.seen, q.victims = r.victims, q.freed = r.freed,
         NEW e, Put(e, d, Head(r.victims), NoContent)
  PROVE  Books(e, s, t, q) /\ Settled(e, s, t, q)
<1> DEFINE v == Head(r.victims)
<1>1. r.key \in Keys /\ t \in Int /\ s \in Seq(Keys) /\ r \in Calling /\ r.victims \in Seq(Keys)
      /\ r.victims # <<>> /\ d \in Disks
  BY DEF Books, Calling, Settled, Poised
<1>2. v \in Keys
  BY <1>1, HeadTailProperties
<1> HIDE DEF v
<1>3. e \in Disks /\ ~Here(e, v) /\ \A k \in Keys : k # v => (Here(e, k) <=> Here(d, k))
  BY <1>1, <1>2, PutGives DEF v
<1>4. Books(e, s, t, q)
  BY <1>1, <1>3 DEF Books
<1>5. r.pc \in Evicting /\ q.pc \in Evicting
  BY DEF Evicting
<1>6. /\ \A k \in Keys : Left(d, s, r)[k] =
             IF Counted(d, s)[k] <= Ledger(r.victims)[k] THEN 0
             ELSE Counted(d, s)[k] - Ledger(r.victims)[k]
      /\ \A k \in Keys : Left(e, s, q)[k] =
             IF Counted(e, s)[k] <= Ledger(q.victims)[k] THEN 0
             ELSE Counted(e, s)[k] - Ledger(q.victims)[k]
  BY <1>1, <1>5, LeftType
<1>7. \A k \in Keys : Left(e, s, q)[k] <= Left(d, s, r)[k]
  <2> SUFFICES ASSUME NEW k \in Keys PROVE Left(e, s, q)[k] <= Left(d, s, r)[k]
    OBVIOUS
  <2>1. Ledger(s)[k] <= Ledger(s)[k]
    BY <1>1, LedgerType DEF Numbers
  <2>2. Counted(e, s)[k] <= Counted(d, s)[k]
    BY <1>1, <1>3, <2>1, CountedGrows
  <2>3. /\ Counted(e, s)[k] \in Nat /\ Counted(d, s)[k] \in Nat
        /\ Ledger(r.victims)[k] \in Nat
    BY <1>1, CountedType, LedgerType DEF Numbers
  <2> QED
    BY <1>6, <2>2, <2>3
<1>8. Funds(t, r) <= Funds(t, q) /\ Balanced(d, s, t, r)
  <2>1. Funds(t, r) = t - r.freed /\ Funds(t, q) = t - q.freed /\ Funds(t, r) \in Int
    BY <1>1, <1>5, FundsType
  <2> QED
    BY <2>1 DEF Settled
<1>9. Balanced(e, s, t, q)
  BY <1>4, <1>7, <1>8, LessIsLeft, Zenon
<1>10. Filled(e, s, q)
  BY <1>3 DEF Settled, Filled, Gone, Dropped, v
<1>11. Poised(e, s, t, q)
  <2>1. ~Here(e, Head(q.victims))
    BY <1>3 DEF v
  <2> QED
    BY <2>1 DEF Settled, Poised, Evicting, Adding, Dropped
<1> QED
  BY <1>4, <1>9, <1>10, <1>11 DEF Settled

LEMMA EvictRecordSettles ==
  ASSUME NEW d, NEW s, NEW t, NEW r, Books(d, s, t, r), Settled(d, s, t, r),
         r.pc = "evict_record", NEW q, q \in Calling, q.key = r.key, q.seen = r.seen,
         q.freed = r.freed, q.victims = Tail(r.victims),
         q.pc = IF Tail(r.victims) = <<>> THEN "evict_save" ELSE "evict_file",
         NEW T, Head(r.victims) \notin T, NEW u, Trim(u, s, T)
  PROVE  Books(d, u, t, q) /\ Settled(d, u, t, q)
<1> DEFINE v == Head(r.victims)
<1>1. r.key \in Keys /\ t \in Int /\ s \in Seq(Keys) /\ r \in Calling /\ r.victims \in Seq(Keys)
      /\ r.victims # <<>>
  BY DEF Books, Calling, Settled, Poised
<1>2. v \in Keys /\ q.victims \in Seq(Keys)
  BY <1>1, HeadTailProperties
<1>3. \A k \in Keys : Amount(r.victims, k, Size(k))
                        = Amount(q.victims, k, Size(k)) + (IF v = k THEN Size(k) ELSE 0)
  BY <1>1, SizeType, AmountOfTail
<1>4. ~Here(d, v)
  BY DEF Settled, Poised
<1>5. /\ u \in Seq(Keys)
      /\ \A k \in Keys : Ledger(u)[k] = IF k \in T THEN Ledger(s)[k] ELSE 0
      /\ \A k \in Keys : Ledger(u)[k] <= Ledger(s)[k]
      /\ \A k \in Keys : Contains(u, k) <=> Contains(s, k) /\ k \in T
      /\ Single(u)
  BY <1>1, KeptBooks DEF Settled
<1>6. v \notin T /\ q.pc \in {"evict_save", "evict_file"}
      /\ (q.pc = "evict_save" => q.victims = <<>>) /\ (q.pc = "evict_file" => q.victims # <<>>)
  OBVIOUS
<1>7. Gone(r, v) /\ \A k \in Keys : k # v => ~Gone(r, k)
  BY DEF Gone, Dropped
<1> HIDE DEF v
<1>8. Books(d, u, t, q)
  BY <1>1, <1>5 DEF Books
<1>9. r.pc \in Evicting /\ q.pc \in Evicting
  BY <1>6 DEF Evicting
<1>10. /\ \A k \in Keys : Left(d, s, r)[k] =
              IF Counted(d, s)[k] <= Ledger(r.victims)[k] THEN 0
              ELSE Counted(d, s)[k] - Ledger(r.victims)[k]
       /\ \A k \in Keys : Left(d, u, q)[k] =
              IF Counted(d, u)[k] <= Ledger(q.victims)[k] THEN 0
              ELSE Counted(d, u)[k] - Ledger(q.victims)[k]
  BY <1>1, <1>5, <1>9, LeftType
<1>11. \A k \in Keys : Left(d, u, q)[k] <= Left(d, s, r)[k]
  <2> SUFFICES ASSUME NEW k \in Keys PROVE Left(d, u, q)[k] <= Left(d, s, r)[k]
    OBVIOUS
  <2>1. Counted(d, u)[k] <= Counted(d, s)[k]
    BY <1>1, <1>5, CountedGrows
  <2>2. /\ Counted(d, u)[k] \in Nat /\ Counted(d, s)[k] \in Nat
        /\ Ledger(r.victims)[k] \in Nat /\ Ledger(q.victims)[k] \in Nat
    BY <1>1, <1>2, <1>5, CountedType, LedgerType DEF Numbers
  <2>3. CASE k = v
    <3>1. Ledger(u)[k] = 0 /\ ~Here(d, k)
      BY <1>4, <1>5, <1>6, <2>3
    <3>2. Counted(d, u)[k] = 0
      <4>1. Counted(d, u)[k] = IF Here(d, k) /\ Ledger(u)[k] < Size(k) THEN Size(k)
                               ELSE Ledger(u)[k]
        BY <1>5, CountedType
      <4> QED
        BY <3>1, <4>1
    <3> QED
      BY <1>10, <2>2, <3>2
  <2>4. CASE k # v
    <3>1. Ledger(r.victims)[k] = Ledger(q.victims)[k]
      <4>1. Ledger(r.victims)[k] = Amount(r.victims, k, Size(k))
            /\ Ledger(q.victims)[k] = Amount(q.victims, k, Size(k))
        BY <1>1, <1>2, LedgerType
      <4> QED
        BY <1>3, <2>2, <2>4, <4>1
    <3> QED
      BY <1>10, <2>1, <2>2, <3>1
  <2> QED
    BY <2>3, <2>4
<1>12. Funds(t, r) <= Funds(t, q) /\ Balanced(d, s, t, r)
  <2>1. Funds(t, r) = t - r.freed /\ Funds(t, q) = t - q.freed /\ Funds(t, r) \in Int
    BY <1>1, <1>9, FundsType
  <2> QED
    BY <2>1 DEF Settled
<1>13. Balanced(d, u, t, q)
  BY <1>8, <1>11, <1>12, LessIsLeft, Zenon
<1>14. Filled(d, u, q)
  <2> SUFFICES ASSUME NEW k \in Keys, Contains(u, k) PROVE Here(d, k)
    BY DEF Filled
  <2>1. Contains(s, k) /\ k # v
    BY <1>5, <1>6
  <2> QED
    BY <1>7, <2>1 DEF Settled, Filled
<1>15. Poised(d, u, t, q)
  <2>1. ~Contains(u, q.key) /\ q.seen = t
    BY <1>1, <1>5, <1>9 DEF Settled, Poised
  <2> QED
    BY <1>6, <2>1 DEF Poised, Evicting, Adding, Dropped
<1> QED
  BY <1>5, <1>8, <1>13, <1>14, <1>15 DEF Settled

LEMMA EvictSaveSettles ==
  ASSUME NEW d, NEW s, NEW t, NEW r, Books(d, s, t, r), Settled(d, s, t, r),
         r.pc = "evict_save", NEW q, q \in Calling, q.pc = "make", q.key = r.key,
         NEW v, v = r.seen - r.freed
  PROVE  Books(d, s, v, q) /\ Settled(d, s, v, q)
<1>1. r.key \in Keys /\ t \in Int /\ s \in Seq(Keys) /\ r \in Calling /\ r.seen = t
      /\ r.freed \in Nat /\ r.victims = <<>> /\ r.victims \in Seq(Keys)
  BY DEF Books, Calling, Settled, Poised, Evicting
<1>2. v \in Int /\ v = t - r.freed
  BY <1>1
<1>3. Books(d, s, v, q)
  BY <1>1, <1>2 DEF Books
<1>4. r.pc \in Evicting /\ q.pc \in Plain
  BY DEF Plain, PCs, Evicting, Adding, Dropping, Dropped
<1>5. \A k \in Keys : Left(d, s, r)[k] =
          IF Counted(d, s)[k] <= Ledger(r.victims)[k] THEN 0
          ELSE Counted(d, s)[k] - Ledger(r.victims)[k]
  BY <1>1, <1>4, LeftType
<1>6. Left(d, s, q) = Counted(d, s)
  BY <1>1, <1>4, LeftType
<1>7. \A k \in Keys : Left(d, s, q)[k] <= Left(d, s, r)[k]
  <2> SUFFICES ASSUME NEW k \in Keys PROVE Left(d, s, q)[k] <= Left(d, s, r)[k]
    OBVIOUS
  <2>1. Ledger(r.victims)[k] = 0
    <3>1. Ledger(r.victims)[k] = Amount(r.victims, k, Size(k)) /\ Size(k) \in Nat
      BY <1>1, LedgerType, SizeType
    <3>2. Amount(<<>>, k, Size(k)) = 0
      BY <3>1, AmountOfNone
    <3> QED
      BY <1>1, <3>1, <3>2
  <2>2. Counted(d, s)[k] \in Nat
    BY <1>1, CountedType DEF Numbers
  <2> QED
    BY <1>5, <1>6, <2>1, <2>2
<1>8. Funds(t, r) <= Funds(v, q) /\ Balanced(d, s, t, r)
  <2>1. Funds(t, r) = t - r.freed /\ Funds(v, q) = v
    BY <1>1, <1>2, <1>3, <1>4, FundsType DEF Books, Plain
  <2> QED
    BY <1>2, <2>1 DEF Settled
<1>9. Balanced(d, s, v, q)
  BY <1>3, <1>7, <1>8, LessIsLeft, Zenon
<1>10. Filled(d, s, q)
  BY DEF Settled, Filled, Gone, Dropped
<1>11. Poised(d, s, v, q)
  BY <1>4 DEF Settled, Poised, Evicting, Adding, Dropped
<1> QED
  BY <1>3, <1>9, <1>10, <1>11 DEF Settled

\* _perform_new_transform: the output is written before its size is added.
LEMMA MakeSettles ==
  ASSUME NEW d, NEW s, NEW t, NEW r, Books(d, s, t, r), Settled(d, s, t, r), r.pc = "make",
         NEW q, q \in Calling, q.pc = "add_load", q.key = r.key,
         NEW x \in Contents, NEW e, Put(e, d, r.key, x)
  PROVE  Books(e, s, t, q) /\ Settled(e, s, t, q)
<1> DEFINE k == r.key
           z == Size(k)
<1>1. k \in Keys /\ t \in Int /\ s \in Seq(Keys) /\ r \in Calling /\ d \in Disks /\ z \in Nat
      /\ ~Contains(s, k) /\ x # NoContent
  BY SizeType, ConstantsAssumption DEF Books, Settled, Poised
<1>2. e \in Disks /\ Here(e, k) /\ \A y \in Keys : y # k => (Here(e, y) <=> Here(d, y))
  BY <1>1, PutGives
<1>3. Books(e, s, t, q)
  BY <1>1, <1>2 DEF Books
<1>4. r.pc \in Plain \cup Adding /\ q.pc \in Plain \cup Adding /\ q.pc \in Adding /\ r.pc \in Plain
  BY DEF Plain, PCs, Evicting, Adding, Dropping, Dropped
<1>5. Left(d, s, r) = Counted(d, s) /\ Left(e, s, q) = Counted(e, s)
  BY <1>1, <1>4, LeftType
<1>6. Funds(t, r) = t /\ Funds(t, q) = t + z
  BY <1>1, <1>3, <1>4, FundsType DEF Books, Plain
<1>7. Ledger(s)[k] = 0
  BY <1>1, LedgerType, AmountListed
<1>8. \A y \in Keys : y # k => Left(e, s, q)[y] = Left(d, s, r)[y]
  <2> SUFFICES ASSUME NEW y \in Keys, y # k PROVE Counted(e, s)[y] = Counted(d, s)[y]
    BY <1>5
  <2>1. Here(e, y) <=> Here(d, y)
    BY <1>2
  <2> QED
    BY <1>1, <2>1, CountedType
<1>9. Left(e, s, q)[k] <= Left(d, s, r)[k] + z
  <2>1. Counted(e, s)[k] = IF Here(e, k) /\ Ledger(s)[k] < z THEN z ELSE Ledger(s)[k]
    BY <1>1, CountedType
  <2>2. Counted(d, s)[k] \in Nat
    BY <1>1, CountedType DEF Numbers
  <2> HIDE DEF k, z
  <2> QED
    BY <1>1, <1>5, <1>7, <2>1, <2>2
<1>10. Balanced(e, s, t, q)
  <2>1. Balanced(d, s, t, r) /\ Funds(t, r) + z <= Funds(t, q) /\ z \in Int /\ k \in Keys
    BY <1>1, <1>6 DEF Settled
  <2> HIDE DEF k, z
  <2> QED
    BY <1>3, <1>8, <1>9, <2>1, OneIsLeft
<1>11. Filled(e, s, q)
  BY <1>2 DEF Settled, Filled, Gone, Dropped
<1>12. Poised(e, s, t, q)
  BY <1>1, <1>2 DEF Poised, Evicting, Adding, Dropped
<1> QED
  BY <1>3, <1>10, <1>11, <1>12 DEF Settled

LEMMA AddLoadSettles ==
  ASSUME NEW d, NEW s, NEW t, NEW r, Books(d, s, t, r), Settled(d, s, t, r), r.pc = "add_load",
         NEW q, q \in Calling, q.pc = "add_save", q.key = r.key, q.seen = t
  PROVE  Books(d, s, t, q) /\ Settled(d, s, t, q)
<1>1. r.key \in Keys /\ t \in Int /\ s \in Seq(Keys) /\ r \in Calling
  BY DEF Books
<1>2. Books(d, s, t, q)
  BY <1>1 DEF Books
<1>3. r.pc \in Adding /\ q.pc \in Adding
  BY DEF Adding
<1>4. Left(d, s, r) = Counted(d, s) /\ Left(d, s, q) = Counted(d, s)
  BY <1>1, <1>3, LeftType
<1>5. Funds(t, r) = t + Size(r.key) /\ Funds(t, q) = t + Size(q.key)
  BY <1>1, <1>3, FundsType
<1>6. Balanced(d, s, t, q)
  BY <1>4, <1>5 DEF Settled, Balanced
<1>7. Filled(d, s, q)
  BY DEF Settled, Filled, Gone, Dropped
<1>8. Poised(d, s, t, q)
  BY <1>3 DEF Settled, Poised, Evicting, Adding, Dropped
<1> QED
  BY <1>2, <1>6, <1>7, <1>8 DEF Settled

LEMMA AddSaveSettles ==
  ASSUME NEW d, NEW s, NEW t, NEW r, Books(d, s, t, r), Settled(d, s, t, r), r.pc = "add_save",
         NEW v, v = r.seen + Size(r.key), NEW q, q \in Calling,
         \/ q.pc = "idle"
         \/ q.pc = "insert" /\ q.key = r.key /\ r.key[2] \notin Diffs
  PROVE  Books(d, s, v, q) /\ Settled(d, s, v, q)
<1>1. r.key \in Keys /\ t \in Int /\ s \in Seq(Keys) /\ r \in Calling /\ r.seen = t
      /\ Size(r.key) \in Nat
  BY SizeType DEF Books, Settled, Poised
<1>2. v \in Int /\ v = t + Size(r.key)
  BY <1>1
<1>3. Books(d, s, v, q)
  BY <1>1, <1>2 DEF Books
<1>4. r.pc \in Adding /\ q.pc \in Plain
  BY DEF Plain, PCs, Evicting, Adding, Dropping, Dropped
<1>5. Left(d, s, r) = Counted(d, s) /\ Left(d, s, q) = Counted(d, s)
  BY <1>1, <1>4, LeftType
<1>6. Funds(t, r) = t + Size(r.key) /\ Funds(v, q) = v
  BY <1>1, <1>2, <1>3, <1>4, FundsType DEF Books, Plain
<1>7. Balanced(d, s, v, q)
  BY <1>2, <1>5, <1>6 DEF Settled, Balanced
<1>8. Filled(d, s, q)
  BY DEF Settled, Filled, Gone, Dropped
<1>9. Poised(d, s, v, q)
  BY <1>4 DEF Settled, Poised, Evicting, Adding, Dropped
<1> QED
  BY <1>3, <1>7, <1>8, <1>9 DEF Settled

\* What one more record does to the books.
Record(u, s, k) == u = Append(s, k)

LEMMA RecordBooks ==
  ASSUME NEW s \in Seq(Keys), NEW k \in Keys, NEW u, Record(u, s, k)
  PROVE  /\ u \in Seq(Keys)
         /\ Ledger(u)[k] = Ledger(s)[k] + Size(k)
         /\ \A y \in Keys : y # k => Ledger(u)[y] = Ledger(s)[y]
         /\ \A y \in Keys : Contains(u, y) <=> Contains(s, y) \/ y = k
         /\ Single(s) /\ (k[2] \in Diffs \/ ~Contains(s, k)) => Single(u)
<1>1. u \in Seq(Keys)
  BY DEF Record
<1>2. \A y \in Keys, w \in Nat : Amount(u, y, w) = Amount(s, y, w) + (IF k = y THEN w ELSE 0)
  BY AmountOfAppend DEF Record
<1>3. \A y \in Keys, w \in Nat : Amount(s, y, w) \in Nat
  BY AmountType
<1>4. ASSUME NEW y \in Keys
      PROVE  Ledger(u)[y] = Amount(u, y, Size(y)) /\ Ledger(s)[y] = Amount(s, y, Size(y))
             /\ Size(y) \in Nat
  BY <1>1, LedgerType, SizeType
<1>5. Ledger(u)[k] = Ledger(s)[k] + Size(k)
  BY <1>2, <1>4
<1>6. \A y \in Keys : y # k => Ledger(u)[y] = Ledger(s)[y]
  <2> SUFFICES ASSUME NEW y \in Keys, y # k PROVE Ledger(u)[y] = Ledger(s)[y]
    OBVIOUS
  <2>1. Amount(u, y, Size(y)) = Amount(s, y, Size(y)) + 0 /\ Amount(s, y, Size(y)) \in Nat
    BY <1>2, <1>3, <1>4
  <2> QED
    BY <1>4, <2>1
<1>7. \A y \in Keys : Contains(u, y) <=> Contains(s, y) \/ y = k
  BY DEF Contains, Record
<1>8. ASSUME Single(s), k[2] \in Diffs \/ ~Contains(s, k) PROVE Single(u)
  <2> SUFFICES ASSUME NEW y \in Keys, y[2] \notin Diffs PROVE Amount(u, y, 1) <= 1
    BY DEF Single
  <2>1. Amount(u, y, 1) = Amount(s, y, 1) + (IF k = y THEN 1 ELSE 0)
    BY <1>2
  <2>2. Amount(s, y, 1) <= 1 /\ Amount(s, y, 1) \in Nat
    BY <1>3, <1>8 DEF Single
  <2>3. k = y => Amount(s, y, 1) = 0
    BY <1>8, AmountListed
  <2> QED
    BY <2>1, <2>2, <2>3
<1> QED
  BY <1>1, <1>5, <1>6, <1>7, <1>8

LEMMA InsertSettles ==
  ASSUME NEW d, NEW s, NEW t, NEW r, Books(d, s, t, r), Settled(d, s, t, r), r.pc = "insert",
         NEW q, q \in Calling, q.pc = "fetch", q.key = r.key, NEW u, Record(u, s, r.key)
  PROVE  Books(d, u, t, q) /\ Settled(d, u, t, q)
<1> DEFINE k == r.key
           z == Size(k)
<1>1. k \in Keys /\ t \in Int /\ s \in Seq(Keys) /\ r \in Calling /\ z \in Nat
      /\ ~Contains(s, k) /\ Here(d, k)
  BY SizeType DEF Books, Settled, Poised
<1>2. /\ u \in Seq(Keys)
      /\ Ledger(u)[k] = Ledger(s)[k] + z
      /\ \A y \in Keys : y # k => Ledger(u)[y] = Ledger(s)[y]
      /\ \A y \in Keys : Contains(u, y) <=> Contains(s, y) \/ y = k
      /\ Single(u)
  BY <1>1, RecordBooks DEF Settled
<1>3. Books(d, u, t, q)
  BY <1>1, <1>2 DEF Books
<1>4. r.pc \in Plain /\ q.pc \in Plain
  BY DEF Plain, PCs, Evicting, Adding, Dropping, Dropped
<1>5. Left(d, s, r) = Counted(d, s) /\ Left(d, u, q) = Counted(d, u)
  BY <1>1, <1>2, <1>4, LeftType
<1>6. Funds(t, r) = t /\ Funds(t, q) = t
  BY <1>1, <1>3, <1>4, FundsType DEF Books, Plain
<1>7. \A y \in Keys : Left(d, u, q)[y] <= Left(d, s, r)[y]
  <2> SUFFICES ASSUME NEW y \in Keys PROVE Counted(d, u)[y] <= Counted(d, s)[y]
    BY <1>5
  <2>1. CASE y = k
    <3>1. Ledger(s)[k] = 0
      BY <1>1, LedgerType, AmountListed
    <3>2. Ledger(u)[k] = z
      BY <1>1, <1>2, <3>1
    <3>3. Counted(d, u)[k] = IF Here(d, k) /\ Ledger(u)[k] < z THEN z ELSE Ledger(u)[k]
      BY <1>1, <1>2, CountedType
    <3>4. z <= Counted(d, s)[k]
      BY <1>1, CountedType
    <3> HIDE DEF k, z
    <3> QED
      BY <1>1, <2>1, <3>2, <3>3, <3>4
  <2>2. CASE y # k
    <3>1. Ledger(u)[y] <= Ledger(s)[y]
      BY <1>1, <1>2, <2>2, LedgerType DEF Numbers
    <3> QED
      BY <1>1, <1>2, <3>1, CountedGrows
  <2> QED
    BY <2>1, <2>2
<1>8. Balanced(d, s, t, r) /\ Funds(t, r) <= Funds(t, q)
  BY <1>1, <1>6 DEF Settled
<1>9. Balanced(d, u, t, q)
  BY <1>3, <1>7, <1>8, LessIsLeft, Zenon
<1>10. Filled(d, u, q)
  BY <1>1, <1>2 DEF Settled, Filled, Gone, Dropped
<1>11. Poised(d, u, t, q)
  BY DEF Poised, Evicting, Adding, Dropped
<1> QED
  BY <1>2, <1>3, <1>9, <1>10, <1>11 DEF Settled

\* cmd_diff: the outcome is written and recorded, whatever is there, and then added.
LEMMA DiffWriteSettles ==
  ASSUME NEW d, NEW s, NEW t, NEW r, Books(d, s, t, r), Settled(d, s, t, r), r.pc = "diff",
         NEW q, q \in Calling, q.pc = "diff_insert", q.key \in Keys, q.key[2] \in Diffs,
         NEW x \in Contents, NEW e, Put(e, d, q.key, x)
  PROVE  Books(e, s, t, q) /\ Settled(e, s, t, q)
<1> DEFINE k == q.key
<1>1. k \in Keys /\ t \in Int /\ s \in Seq(Keys) /\ r \in Calling /\ d \in Disks /\ x # NoContent
  BY ConstantsAssumption DEF Books
<1>2. e \in Disks /\ Here(e, k) /\ \A y \in Keys : y # k => (Here(e, y) <=> Here(d, y))
  BY <1>1, PutGives
<1>3. Books(e, s, t, q)
  BY <1>1, <1>2 DEF Books
<1>4. r.pc \in Plain
  BY DEF Plain, PCs, Evicting, Adding, Dropping, Dropped
<1>5. Left(d, s, r) = Counted(d, s)
      /\ \A y \in Keys : Left(e, s, q)[y] = IF y = q.key THEN Ledger(s)[y] ELSE Counted(e, s)[y]
  BY <1>1, <1>4, LeftType
<1>6. Funds(t, r) = t /\ Funds(t, q) = t
  BY <1>1, <1>3, <1>4, FundsType DEF Books, Plain, PCs, Evicting, Adding
<1>7. \A y \in Keys : Left(e, s, q)[y] <= Left(d, s, r)[y]
  <2> SUFFICES ASSUME NEW y \in Keys PROVE Left(e, s, q)[y] <= Counted(d, s)[y]
    BY <1>5
  <2>1. CASE y = k
    BY <1>1, <1>5, <2>1, CountedType
  <2>2. CASE y # k
    <3>1. (Here(e, y) => Here(d, y)) /\ Ledger(s)[y] <= Ledger(s)[y]
      BY <1>1, <1>2, <2>2, LedgerType DEF Numbers
    <3>2. Counted(e, s)[y] <= Counted(d, s)[y]
      BY <1>1, <3>1, CountedGrows
    <3> QED
      BY <1>5, <2>2, <3>2
  <2> QED
    BY <2>1, <2>2
<1>8. Balanced(d, s, t, r) /\ Funds(t, r) <= Funds(t, q)
  BY <1>1, <1>6 DEF Settled
<1>9. Balanced(e, s, t, q)
  BY <1>3, <1>7, <1>8, LessIsLeft, Zenon
<1>10. Filled(e, s, q)
  BY <1>2 DEF Settled, Filled, Gone, Dropped
<1>11. Poised(e, s, t, q)
  BY <1>2 DEF Poised, Evicting, Adding, Dropped
<1> QED
  BY <1>3, <1>9, <1>10, <1>11 DEF Settled

LEMMA DiffInsertSettles ==
  ASSUME NEW d, NEW s, NEW t, NEW r, Books(d, s, t, r), Settled(d, s, t, r),
         r.pc = "diff_insert", NEW q, q \in Calling, q.pc = "add_load", q.key = r.key,
         NEW u, Record(u, s, r.key)
  PROVE  Books(d, u, t, q) /\ Settled(d, u, t, q)
<1> DEFINE k == r.key
           z == Size(k)
<1>1. k \in Keys /\ t \in Int /\ s \in Seq(Keys) /\ r \in Calling /\ z \in Nat
      /\ Here(d, k) /\ k[2] \in Diffs
  BY SizeType DEF Books, Settled, Poised
<1>2. /\ u \in Seq(Keys)
      /\ Ledger(u)[k] = Ledger(s)[k] + z
      /\ \A y \in Keys : y # k => Ledger(u)[y] = Ledger(s)[y]
      /\ \A y \in Keys : Contains(u, y) <=> Contains(s, y) \/ y = k
      /\ Single(u)
  BY <1>1, RecordBooks DEF Settled
<1>3. Books(d, u, t, q)
  BY <1>1, <1>2 DEF Books
<1>4. q.pc \in Adding /\ r.pc \in PCs \ (Evicting \cup Adding)
  BY DEF PCs, Evicting, Adding
<1>5. Left(d, u, q) = Counted(d, u)
      /\ \A y \in Keys : Left(d, s, r)[y] = IF y = r.key THEN Ledger(s)[y] ELSE Counted(d, s)[y]
  <2>1. Left(d, u, q) = Counted(d, u)
    BY <1>2, <1>4, LeftType
  <2>2. \A y \in Keys : Left(d, s, r)[y] = IF y = r.key THEN Ledger(s)[y] ELSE Counted(d, s)[y]
    BY <1>1, LeftType, Zenon
  <2> QED
    BY <2>1, <2>2
<1>6. Funds(t, r) = t /\ Funds(t, q) = t + z
  BY <1>1, <1>3, <1>4, FundsType DEF Books
<1>7. \A y \in Keys : y # k => Left(d, u, q)[y] = Left(d, s, r)[y]
  <2> SUFFICES ASSUME NEW y \in Keys, y # k PROVE Counted(d, u)[y] = Counted(d, s)[y]
    BY <1>5
  <2> QED
    BY <1>1, <1>2, CountedType
<1>8. Left(d, u, q)[k] <= Left(d, s, r)[k] + z
  <2>1. Counted(d, u)[k] = IF Here(d, k) /\ Ledger(u)[k] < z THEN z ELSE Ledger(u)[k]
    BY <1>1, <1>2, CountedType
  <2>2. Ledger(s)[k] \in Nat /\ Left(d, s, r)[k] = Ledger(s)[k]
        /\ Left(d, u, q)[k] = Counted(d, u)[k]
    BY <1>1, <1>5, LedgerType DEF Numbers
  <2> HIDE DEF k, z
  <2> QED
    BY <1>1, <1>2, <2>1, <2>2
<1>9. Balanced(d, u, t, q)
  <2>1. Balanced(d, s, t, r) /\ Funds(t, r) + z <= Funds(t, q) /\ z \in Int /\ k \in Keys
    BY <1>1, <1>6 DEF Settled
  <2> HIDE DEF k, z
  <2> QED
    BY <1>3, <1>7, <1>8, <2>1, OneIsLeft
<1>10. Filled(d, u, q)
  BY <1>1, <1>2 DEF Settled, Filled, Gone, Dropped
<1>11. Poised(d, u, t, q)
  BY <1>1 DEF Poised, Evicting, Adding, Dropped
<1> QED
  BY <1>2, <1>3, <1>9, <1>10, <1>11 DEF Settled

-----------------------------------------------------------------------------
(* The books of the cache *)

\* As long as nothing has upset it, the cache is settled but for the one call there is.
BooksOK ==
    /\ admin.pc = "prune" => upset
    /\ ~upset /\ admin = NoAdmin =>
         \/ Busy = {} /\ Settled(disk, docs, total, NoCall)
         \/ \E c \in Clients : Busy = {c} /\ Settled(disk, docs, total, call[c])

LEMMA NoCallType == NoCall \in Calling /\ NoCall.pc = "idle"
  BY DEF NoCall, Calling, PCs

LEMMA CallBooks ==
  ASSUME CacheInv, NEW c \in Clients
  PROVE  Books(disk, docs, total, call[c]) /\ call[c] \in Calling
  BY DEF CacheInv, StoreOK, CallsOK, CallSound, Books, Disks

\* A step of the one call there is.
LEMMA StepBooks ==
  ASSUME CallsOK, BooksOK, NEW c \in Clients, call[c].pc # "idle", UNCHANGED <<admin, upset>>,
         NEW q \in Calling, Step(c, q), q.pc = "idle" => q = NoCall,
         Settled(disk, docs, total, call[c]) => Settled(disk', docs', total', q)
  PROVE  BooksOK'
<1>1. /\ call' \in [Clients -> Calling] /\ call'[c] = q
      /\ \A x \in Clients \ {c} : call'[x].pc = call[x].pc
  BY StepTakes DEF CallsOK, Disturbed
<1>2. (admin.pc = "prune" => upset)'
  BY DEF BooksOK
<1>3. ASSUME ~upset', (admin = NoAdmin)'
      PROVE  \/ Busy' = {} /\ Settled(disk', docs', total', NoCall)
             \/ \E x \in Clients : Busy' = {x} /\ Settled(disk', docs', total', call'[x])
  <2>1. ~upset /\ admin = NoAdmin
    BY <1>3
  <2>2. c \in Busy
    BY DEF Busy
  <2>3. Busy = {c} /\ Settled(disk, docs, total, call[c])
    BY <2>1, <2>2 DEF BooksOK
  <2>4. Busy' = IF q.pc = "idle" THEN {} ELSE {c}
    BY <1>1, <2>3 DEF Busy
  <2>5. Settled(disk', docs', total', q)
    BY <2>3
  <2>6. CASE q.pc = "idle"
    BY <2>4, <2>5, <2>6
  <2>7. CASE q.pc # "idle"
    BY <1>1, <2>4, <2>5, <2>7
  <2> QED
    BY <2>6, <2>7
<1> QED
  BY <1>2, <1>3 DEF BooksOK

LEMMA GotoGives ==
  ASSUME CallsOK, NEW c \in Clients, NEW pc \in PCs, Goto(c, pc)
  PROVE  \E q \in Calling : /\ Step(c, q) /\ q.pc = pc /\ q.key = call[c].key
                            /\ q.seen = call[c].seen /\ q.victims = call[c].victims
                            /\ q.freed = call[c].freed
<1> DEFINE q == [call[c] EXCEPT !.pc = pc]
<1>1. /\ q \in Calling /\ q.pc = pc /\ q.key = call[c].key /\ q.seen = call[c].seen
      /\ q.victims = call[c].victims /\ q.freed = call[c].freed
  BY DEF CallsOK, Calling
<1>2. Step(c, q)
  BY DEF Goto
<1> QED
  BY <1>1, <1>2

\* A call that ends leaves the books as they are, whatever records it has deleted.
LEMMA FinishBooks ==
  ASSUME CacheInv, BooksOK, NEW c \in Clients, call[c].pc \in Plain \ {"idle"},
         NEW what, NEW made, Finish(c, what, made), UNCHANGED <<disk, total, admin, upset>>,
         \/ UNCHANGED docs
         \/ \E T : docs' = Kept(docs, T)
  PROVE  BooksOK'
<1>1. Step(c, NoCall)
  BY DEF Finish
<1>2. CallsOK /\ docs \in Seq(Keys) /\ total \in Int /\ disk \in Disks
  BY DEF CacheInv, StoreOK, Disks
<1>3. /\ docs' \in Seq(Keys)
      /\ \A k \in Keys, w \in Nat : Amount(docs', k, w) <= Amount(docs, k, w)
      /\ \A k \in Keys : Contains(docs', k) => Contains(docs, k)
  <2>1. CASE UNCHANGED docs
    <3>1. \A k \in Keys, w \in Nat : Amount(docs, k, w) \in Int
      BY <1>2, AmountType
    <3> QED
      BY <1>2, <2>1, <3>1
  <2>2. CASE \E T : docs' = Kept(docs, T)
    BY <1>2, <2>2, KeptBooks DEF Trim
  <2> QED
    BY <2>1, <2>2
<1>4. NoCall \in Calling /\ NoCall.pc = "idle" /\ "idle" \in Plain
  BY NoCallType DEF Plain, PCs, Evicting, Adding, Dropping, Dropped
<1>5. Books(disk, docs', total, NoCall) /\ Books(disk, docs, total, call[c])
  BY <1>2, <1>3, <1>4, CallBooks DEF Books
<1>6. Poised(disk, docs', total, NoCall)
  BY <1>4 DEF Poised, Evicting, Adding, Dropped
<1>7. Settled(disk, docs, total, call[c]) => Settled(disk, docs', total, NoCall)
  BY <1>3, <1>4, <1>5, <1>6, RecordsSettle
<1> QED
  BY <1>1, <1>2, <1>4, <1>7, StepBooks

LEMMA BeginBooks ==
  ASSUME CacheInv, BooksOK, NEW c \in Clients, NEW e \in Engines, Begin(c, e) PROVE BooksOK'
<1>1. /\ call[c].pc = "idle" /\ upset' = (upset \/ ~Calm)
      /\ UNCHANGED <<disk, docs, total, admin>>
  BY DEF Begin
<1> DEFINE first == IF e \in Diffs THEN "diff" ELSE "find"
           k == <<source, e>>
<1>2. k \in Keys /\ first \in {"diff", "find"} /\ (first = "diff" => k[2] \in Diffs)
  BY DEF CacheInv, StoreOK, Keys
<1>3. PICK b \in BOOLEAN : b = Calm
  BY DEF Calm
<1> DEFINE q == [NoCall EXCEPT !.key = k, !.alone = b, !.pc = first]
<1>4. q \in Calling /\ q.pc = first /\ q.key = k
  <2>1. PICK old \in Calling : old = NoCall
    BY NoCallType
  <2>2. q = [old EXCEPT !.key = k, !.alone = b, !.pc = first]
    BY <2>1
  <2>3. first \in PCs /\ b \in BOOLEAN
    BY <1>2, <1>3 DEF PCs
  <2> HIDE DEF q, first, k
  <2>4. q.pc = first /\ q.key = k
    BY <2>2 DEF Calling
  <2>5. q \in Calling
    BY <1>2, <2>2, <2>3 DEF Calling
  <2> QED
    BY <2>4, <2>5
<1>5. Step(c, q)
  <2>1. Step(c, [NoCall EXCEPT !.key = k, !.alone = Calm, !.pc = first])
    BY DEF Begin
  <2> QED
    BY <1>3, <2>1, Zenon
<1> HIDE DEF q, first, k
<1>6. /\ call' \in [Clients -> Calling] /\ call'[c] = q
      /\ \A x \in Clients \ {c} : call'[x].pc = call[x].pc
  BY <1>4, <1>5, StepTakes DEF CacheInv, CallsOK, Disturbed
<1>7. (admin.pc = "prune" => upset)'
  BY <1>1 DEF BooksOK
<1>8. ASSUME ~upset' PROVE Busy' = {c} /\ Settled(disk', docs', total', call'[c])
  <2>1. ~upset /\ Busy = {} /\ admin = NoAdmin
    BY <1>1, <1>8 DEF Calm
  <2>2. Settled(disk, docs, total, NoCall)
    BY <2>1 DEF BooksOK
  <2>3. Busy' = {c}
    BY <1>2, <1>4, <1>6, <2>1 DEF Busy
  <2>4. docs \in Seq(Keys) /\ total \in Int /\ disk \in Disks
    BY DEF CacheInv, StoreOK, Disks
  <2>5. NoCall.pc \in Plain /\ q.pc \in Plain
    BY <1>2, <1>4, NoCallType DEF Plain, PCs, Evicting, Adding, Dropping, Dropped
  <2>6. Books(disk, docs, total, NoCall) /\ Books(disk, docs, total, q)
    BY <1>2, <1>4, <2>4, NoCallType DEF Books
  <2>7. Poised(disk, docs, total, q)
    BY <1>2, <1>4 DEF Poised, Evicting, Adding, Dropped
  <2>8. Settled(disk, docs, total, q)
    BY <2>2, <2>5, <2>6, <2>7, MoveSettles
  <2> QED
    BY <1>1, <1>6, <2>3, <2>8
<1> QED
  BY <1>7, <1>8 DEF BooksOK

\* u holds of each key no more than s.
NoMore(u, s) ==
    /\ u \in Seq(Keys)
    /\ \A k \in Keys, w \in Nat : Amount(u, k, w) <= Amount(s, k, w)
    /\ \A k \in Keys : Contains(u, k) => Contains(s, k)

LEMMA TouchGives ==
  ASSUME NEW s \in Seq(Keys), NEW x \in Keys, NEW u, u = Touched(s, x)
  PROVE  NoMore(u, s)
<1>1. Touched(s, x) \in Seq(Keys)
  BY TouchedType
<1>2. ASSUME NEW k \in Keys, NEW w \in Nat PROVE Amount(Touched(s, x), k, w) <= Amount(s, k, w)
  BY AmountOfTouched, AmountType
<1>3. ASSUME NEW k \in Keys PROVE Contains(Touched(s, x), k) => Contains(s, k)
  BY TouchedListed
<1> QED
  BY <1>1, <1>2, <1>3 DEF NoMore

-----------------------------------------------------------------------------
(* Every step of get_content keeps the books *)

\* A step between two quiet places, which at most moves or deletes records.
LEMMA QuietBooks ==
  ASSUME CacheInv, BooksOK, NEW c \in Clients, call[c].pc \in Plain \ {"idle"},
         NEW q \in Calling, Step(c, q), q.pc \in Plain \ {"idle"}, q.key = call[c].key,
         UNCHANGED <<disk, total, admin, upset>>, docs' \in Seq(Keys),
         \A k \in Keys, w \in Nat : Amount(docs', k, w) <= Amount(docs, k, w),
         \A k \in Keys : Contains(docs', k) => Contains(docs, k),
         Settled(disk, docs, total, call[c]) => Poised(disk, docs', total, q)
  PROVE  BooksOK'
<1>1. Books(disk, docs, total, call[c])
  BY CallBooks
<1>2. Books(disk, docs', total, q)
  BY <1>1 DEF Books
<1>3. Settled(disk, docs, total, call[c]) => Settled(disk, docs', total, q)
  BY <1>1, <1>2, RecordsSettle
<1> QED
  BY <1>3, StepBooks DEF CacheInv

\* One that leaves the records alone.
LEMMA GoesOnBooks ==
  ASSUME CacheInv, BooksOK, NEW c \in Clients, call[c].pc \in Plain \ {"idle"},
         NEW q \in Calling, Step(c, q), q.pc \in Plain \ {"idle"}, q.key = call[c].key,
         UNCHANGED <<disk, docs, total, admin, upset>>,
         Settled(disk, docs, total, call[c]) => Poised(disk, docs, total, q)
  PROVE  BooksOK'
<1>1. Books(disk, docs, total, call[c])
  BY CallBooks
<1>2. Books(disk, docs, total, q)
  BY <1>1 DEF Books
<1>3. Settled(disk, docs, total, call[c]) => Settled(disk, docs, total, q)
  BY <1>1, <1>2, MoveSettles
<1> QED
  BY <1>3, StepBooks DEF CacheInv

LEMMA FindBooks ==
  ASSUME CacheInv, BooksOK, NEW c \in Clients, Find(c) \/ Touch(c) PROVE BooksOK'
<1>1. CallsOK /\ docs \in Seq(Keys) /\ UNCHANGED <<disk, total, admin, upset>>
  BY DEF Find, Touch, CacheInv, StoreOK
<1>2. call[c].pc \in {"find", "touch"} /\ call[c].pc \in Plain \ {"idle"} /\ call[c].key \in Keys
  BY <1>1 DEF Find, Touch, Plain, PCs, Evicting, Adding, Dropping, Dropped, CallsOK, CallSound
<1>3. CASE Find(c)
  <2> DEFINE k == call[c].key
  <2>1. PICK pc \in {"space", "stale_load", "touch"} :
            /\ Goto(c, pc)
            /\ pc = "space" => ~Recorded(k) \/ ~Exists(k)
            /\ pc = "stale_load" => Exists(k)
    BY <1>3 DEF Find
  <2>2. PICK q \in Calling : Step(c, q) /\ q.pc = pc /\ q.key = k
    BY <1>1, <2>1, GotoGives DEF PCs
  <2>3. q.pc \in Plain \ {"idle"}
    BY <2>1, <2>2 DEF Plain, PCs, Evicting, Adding, Dropping, Dropped
  <2>4. ASSUME Settled(disk, docs, total, call[c]) PROVE Poised(disk, docs, total, q)
    <3>1. Contains(docs, k) => Here(disk, k)
      BY <1>2, <1>3, <2>4 DEF Settled, Filled, Gone, Dropped, Find
    <3>2. pc = "space" => ~Contains(docs, k)
      BY <2>1, <3>1 DEF Recorded, Exists, Here
    <3>3. pc = "stale_load" => Here(disk, k)
      BY <2>1 DEF Exists, Here
    <3> QED
      BY <2>1, <2>2, <3>2, <3>3 DEF Poised, Evicting, Adding, Dropped
  <2> QED
    BY <1>1, <1>2, <1>3, <2>2, <2>3, <2>4, GoesOnBooks DEF Find
<1>4. CASE Touch(c)
  <2>1. PICK q \in Calling : Step(c, q) /\ q.pc = "fetch" /\ q.key = call[c].key
    BY <1>1, <1>4, GotoGives DEF Touch, PCs
  <2>2. q.pc \in Plain \ {"idle"}
    BY <2>1 DEF Plain, PCs, Evicting, Adding, Dropping, Dropped
  <2>3. docs' = Touched(docs, call[c].key)
    BY <1>4 DEF Touch
  <2>4. Poised(disk, docs', total, q)
    BY <2>1 DEF Poised, Evicting, Adding, Dropped
  <2>5. NoMore(docs', docs)
    BY <1>1, <1>2, <2>3, TouchGives
  <2> QED
    BY <1>1, <1>2, <2>1, <2>2, <2>4, <2>5, QuietBooks DEF NoMore
<1> QED
  BY <1>3, <1>4

LEMMA FetchBooks ==
  ASSUME CacheInv, BooksOK, NEW c \in Clients, Fetch(c) \/ Read(c) PROVE BooksOK'
<1>1. CallsOK /\ docs \in Seq(Keys) /\ UNCHANGED <<disk, total, admin, upset>>
  BY DEF Fetch, Read, CacheInv, StoreOK
<1>2. call[c].pc \in {"fetch", "read"} /\ call[c].pc \in Plain \ {"idle"} /\ call[c].key \in Keys
  BY <1>1 DEF Fetch, Read, Plain, PCs, Evicting, Adding, Dropping, Dropped, CallsOK, CallSound
<1>3. CASE Goto(c, "read") /\ docs' = Touched(docs, call[c].key)
  <2>1. PICK q \in Calling : Step(c, q) /\ q.pc = "read" /\ q.key = call[c].key
    BY <1>1, <1>3, GotoGives DEF PCs
  <2>2. q.pc \in Plain \ {"idle"}
    BY <2>1 DEF Plain, PCs, Evicting, Adding, Dropping, Dropped
  <2>3. Poised(disk, docs', total, q)
    BY <2>1 DEF Poised, Evicting, Adding, Dropped
  <2>4. NoMore(docs', docs)
    BY <1>1, <1>2, <1>3, TouchGives
  <2> QED
    BY <1>1, <1>2, <2>1, <2>2, <2>3, <2>4, QuietBooks DEF NoMore
<1>4. CASE Finish(c, "lost", NoContent) /\ docs' = Kept(docs, Keys \ {call[c].key})
  BY <1>1, <1>2, <1>4, FinishBooks
<1>5. CASE Read(c)
  <2>1. /\ UNCHANGED docs
        /\ \E what, made : Finish(c, what, made)
    BY <1>5 DEF Read
  <2> QED
    BY <1>1, <1>2, <2>1, FinishBooks
<1> QED
  BY <1>3, <1>4, <1>5 DEF Fetch

LEMMA StaleBooks ==
  ASSUME CacheInv, BooksOK, NEW c \in Clients, Stale(c) PROVE BooksOK'
<1>1. CallsOK /\ docs \in Seq(Keys) /\ total \in Int /\ UNCHANGED <<admin, upset>>
  BY DEF Stale, StaleLoad, StaleSave, StaleUnlink, StaleImages, StaleDelete, CacheInv, StoreOK
<1>2. /\ call[c].pc \in {"stale_load", "stale_save"} \cup Dropping
      /\ call[c].pc # "idle" /\ call[c].key \in Keys /\ call[c] \in Calling
  BY <1>1 DEF Stale, StaleLoad, StaleSave, StaleUnlink, StaleImages, StaleDelete, Dropping, Dropped,
              CallsOK, CallSound
<1>3. Books(disk, docs, total, call[c])
  BY CallBooks
<1>4. CASE StaleLoad(c)
  <2>1. call[c].pc = "stale_load" /\ UNCHANGED <<disk, docs, total>>
    BY <1>4 DEF StaleLoad
  <2> DEFINE r1 == [call[c] EXCEPT !.pc = "stale_save", !.seen = total]
             r2 == [call[c] EXCEPT !.pc = "stale_images"]
  <2>2. r1 \in Calling /\ r1.pc = "stale_save" /\ r1.key = call[c].key /\ r1.seen = total
    BY <1>1, <1>2 DEF Calling, PCs
  <2>3. r2 \in Calling /\ r2.pc = "stale_images" /\ r2.key = call[c].key
    BY <1>2 DEF Calling, PCs
  <2>4. IF Exists(call[c].key) THEN Step(c, r1) ELSE Step(c, r2)
    BY <1>4 DEF StaleLoad
  <2> HIDE DEF r1, r2
  <2>5. CASE Exists(call[c].key)
    <3>1. call[c].pc \in Plain \ {"idle"} /\ r1.pc \in Plain \ {"idle"}
      BY <2>1, <2>2 DEF Plain, PCs, Evicting, Adding, Dropping, Dropped
    <3>2. Poised(disk, docs, total, r1)
      BY <2>2, <2>5 DEF Poised, Evicting, Adding, Dropped, Exists, Here
    <3> QED
      BY <1>1, <2>1, <2>2, <2>4, <2>5, <3>1, <3>2, GoesOnBooks
  <2>6. CASE ~Exists(call[c].key)
    <3>1. ~Settled(disk, docs, total, call[c])
      BY <2>1, <2>6 DEF Settled, Poised, Exists, Here
    <3>2. Step(c, r2)
      BY <2>4, <2>6
    <3> QED
      BY <1>1, <1>2, <2>3, <3>1, <3>2, StepBooks
  <2> QED
    BY <2>5, <2>6
<1>5. CASE StaleSave(c)
  <2>1. /\ call[c].pc = "stale_save" /\ Goto(c, "stale_unlink") /\ UNCHANGED <<disk, docs>>
        /\ total' = IF call[c].seen - Size(call[c].key) < 0 THEN 0
                    ELSE call[c].seen - Size(call[c].key)
    BY <1>5 DEF StaleSave
  <2>2. PICK q \in Calling : Step(c, q) /\ q.pc = "stale_unlink" /\ q.key = call[c].key
    BY <1>1, <2>1, GotoGives DEF PCs
  <2>3. Settled(disk, docs, total, call[c]) => Settled(disk, docs, total', q)
    BY <1>3, <2>1, <2>2, StaleSaveSettles
  <2> QED
    BY <1>1, <1>2, <2>1, <2>2, <2>3, StepBooks
<1>6. CASE StaleUnlink(c)
  <2>1. call[c].pc = "stale_unlink" /\ UNCHANGED <<docs, total>>
    BY <1>6 DEF StaleUnlink
  <2>2. Put(disk', disk, call[c].key, NoContent)
    BY <1>6 DEF StaleUnlink, Put
  <2>3. CASE Goto(c, "stale_images")
    <3>1. PICK q \in Calling : Step(c, q) /\ q.pc = "stale_images" /\ q.key = call[c].key
      BY <1>1, <2>3, GotoGives DEF PCs
    <3>2. Settled(disk, docs, total, call[c]) => Settled(disk', docs, total, q)
      BY <1>3, <2>1, <2>2, <3>1, StaleUnlinkSettles
    <3> QED
      BY <1>1, <1>2, <2>1, <3>1, <3>2, StepBooks
  <2>4. CASE ~Exists(call[c].key) /\ Finish(c, "lost", NoContent)
    <3>1. ~Settled(disk, docs, total, call[c])
      BY <2>1, <2>4 DEF Settled, Poised, Exists, Here
    <3>2. Step(c, NoCall)
      BY <2>4 DEF Finish
    <3> QED
      BY <1>1, <1>2, <3>1, <3>2, NoCallType, StepBooks
  <2> QED
    BY <1>6, <2>3, <2>4 DEF StaleUnlink
<1>7. CASE StaleImages(c)
  <2>1. call[c].pc = "stale_images" /\ Goto(c, "stale_delete") /\ UNCHANGED <<disk, docs, total>>
    BY <1>7 DEF StaleImages
  <2>2. PICK q \in Calling : Step(c, q) /\ q.pc = "stale_delete" /\ q.key = call[c].key
    BY <1>1, <2>1, GotoGives DEF PCs
  <2>3. Settled(disk, docs, total, call[c]) => Settled(disk, docs, total, q)
    BY <1>3, <2>1, <2>2, StaleImagesSettles
  <2> QED
    BY <1>1, <1>2, <2>1, <2>2, <2>3, StepBooks
<1>8. CASE StaleDelete(c)
  <2>1. call[c].pc = "stale_delete" /\ Goto(c, "space") /\ UNCHANGED <<disk, total>>
    BY <1>8 DEF StaleDelete
  <2>2. Trim(docs', docs, Keys \ {call[c].key})
    BY <1>8 DEF StaleDelete, Trim
  <2>3. PICK q \in Calling : Step(c, q) /\ q.pc = "space" /\ q.key = call[c].key
    BY <1>1, <2>1, GotoGives DEF PCs
  <2>4. Settled(disk, docs, total, call[c]) => Settled(disk, docs', total, q)
    BY <1>3, <2>1, <2>2, <2>3, StaleDeleteSettles
  <2> QED
    BY <1>1, <1>2, <2>1, <2>3, <2>4, StepBooks
<1> QED
  BY <1>4, <1>5, <1>6, <1>7, <1>8 DEF Stale

LEMMA EvictBooks ==
  ASSUME CacheInv, BooksOK, NEW c \in Clients, Evict(c) PROVE BooksOK'
<1>1. CallsOK /\ docs \in Seq(Keys) /\ total \in Int /\ UNCHANGED <<admin, upset>>
  BY DEF Evict, EnsureSpace, EvictFile, EvictRecord, EvictSave, CacheInv, StoreOK
<1>2. call[c].pc # "idle" /\ call[c].key \in Keys /\ call[c] \in Calling
  BY <1>1 DEF Evict, EnsureSpace, EvictFile, EvictRecord, EvictSave, CallsOK, CallSound
<1>3. Books(disk, docs, total, call[c])
  BY CallBooks
<1>4. CASE EnsureSpace(c)
  <2> DEFINE needed  == total + InSize - MaxSize
             victims == LruEntries(needed)
             r1 == [call[c] EXCEPT !.pc = "make"]
             r2 == [call[c] EXCEPT !.pc = "evict_file", !.seen = total, !.victims = victims,
                                   !.freed = SizeOf(victims)]
  <2>1. call[c].pc = "space" /\ UNCHANGED <<disk, docs, total>>
    BY <1>4 DEF EnsureSpace
  <2>2. Step(c, r1) \/ (Step(c, r2) /\ victims # <<>>)
    BY <1>4 DEF EnsureSpace
  <2>3. needed \in Int
    BY <1>1, ConstantsAssumption
  <2> HIDE DEF needed
  <2>4. victims \in Seq(Keys) /\ SizeOf(victims) \in Nat
    BY <1>1, <2>3, LruEntriesType, SizeOfType
  <2>5. ASSUME NEW k \in Keys PROVE Ledger(victims)[k] <= Ledger(docs)[k]
    <3>1. Ledger(victims)[k] = Amount(victims, k, Size(k))
          /\ Ledger(docs)[k] = Amount(docs, k, Size(k)) /\ Size(k) \in Nat
      BY <1>1, <2>4, LedgerType, SizeType
    <3>2. Amount(victims, k, Size(k)) <= Amount(docs, k, Size(k))
      BY <1>1, <2>3, <3>1, AmountOfVictims
    <3> QED
      BY <3>1, <3>2
  <2> HIDE DEF victims
  <2>6. r1 \in Calling /\ r1.pc = "make" /\ r1.key = call[c].key
    BY <1>2 DEF Calling, PCs
  <2>7. /\ r2 \in Calling /\ r2.pc = "evict_file" /\ r2.key = call[c].key /\ r2.seen = total
        /\ r2.victims = victims /\ r2.freed = SizeOf(victims)
    BY <1>1, <1>2, <2>4 DEF Calling, PCs
  <2> HIDE DEF r1, r2
  <2>8. CASE Step(c, r1)
    <3>1. call[c].pc \in Plain \ {"idle"} /\ r1.pc \in Plain \ {"idle"}
      BY <2>1, <2>6 DEF Plain, PCs, Evicting, Adding, Dropping, Dropped
    <3>2. Settled(disk, docs, total, call[c]) => Poised(disk, docs, total, r1)
      BY <2>1, <2>6 DEF Settled, Poised, Evicting, Adding, Dropped
    <3> QED
      BY <1>1, <2>1, <2>6, <2>8, <3>1, <3>2, GoesOnBooks
  <2>9. CASE Step(c, r2) /\ victims # <<>>
    <3>1. r2.victims # <<>> /\ r2.freed = SizeOf(r2.victims)
          /\ \A k \in Keys : Ledger(r2.victims)[k] <= Ledger(docs)[k]
      BY <2>5, <2>7, <2>9
    <3>2. Settled(disk, docs, total, call[c]) => Settled(disk, docs, total, r2)
      BY <1>3, <2>1, <2>7, <3>1, SpaceSettles
    <3> QED
      BY <1>1, <1>2, <2>1, <2>7, <2>9, <3>2, StepBooks
  <2> QED
    BY <2>2, <2>8, <2>9
<1>5. CASE EvictFile(c)
  <2>1. call[c].pc = "evict_file" /\ Goto(c, "evict_record") /\ UNCHANGED <<docs, total>>
    BY <1>5 DEF EvictFile
  <2>2. Put(disk', disk, Head(call[c].victims), NoContent)
    BY <1>5 DEF EvictFile, Put
  <2>3. PICK q \in Calling : /\ Step(c, q) /\ q.pc = "evict_record" /\ q.key = call[c].key
                             /\ q.seen = call[c].seen /\ q.victims = call[c].victims
                             /\ q.freed = call[c].freed
    BY <1>1, <2>1, GotoGives DEF PCs
  <2>4. Settled(disk, docs, total, call[c]) => Settled(disk', docs, total, q)
    BY <1>3, <2>1, <2>2, <2>3, EvictFileSettles
  <2> QED
    BY <1>1, <1>2, <2>1, <2>3, <2>4, StepBooks
<1>6. CASE EvictRecord(c)
  <2> DEFINE v    == Head(call[c].victims)
             T    == {k \in Keys : Filed(k) # Filed(v)}
             rest == Tail(call[c].victims)
             pc   == IF rest = <<>> THEN "evict_save" ELSE "evict_file"
             r    == [call[c] EXCEPT !.victims = rest, !.pc = pc]
  <2>1. call[c].pc = "evict_record" /\ Step(c, r) /\ UNCHANGED <<disk, total>>
    BY <1>6 DEF EvictRecord
  <2>2. Trim(docs', docs, T)
    BY <1>6 DEF EvictRecord, Trim
  <2>3. v \notin T
    OBVIOUS
  <2>4. call[c].victims \in Seq(Keys) /\ call[c].victims # <<>>
    BY <1>1, <2>1 DEF Calling, CallsOK, CallSound
  <2>5. rest \in Seq(Keys) /\ pc \in {"evict_save", "evict_file"}
    BY <2>4
  <2> HIDE DEF rest, pc
  <2>6. /\ r \in Calling /\ r.pc = pc /\ r.key = call[c].key /\ r.victims = rest
        /\ r.seen = call[c].seen /\ r.freed = call[c].freed
    BY <1>2, <2>5 DEF Calling, PCs
  <2>7. r.victims = Tail(call[c].victims)
        /\ r.pc = IF Tail(call[c].victims) = <<>> THEN "evict_save" ELSE "evict_file"
    BY <2>6 DEF rest, pc
  <2> HIDE DEF r, T
  <2>8. Settled(disk, docs, total, call[c]) => Settled(disk, docs', total, r)
    BY <1>3, <2>1, <2>2, <2>3, <2>6, <2>7, EvictRecordSettles
  <2> QED
    BY <1>1, <1>2, <2>1, <2>5, <2>6, <2>8, StepBooks
<1>7. CASE EvictSave(c)
  <2> DEFINE r == [call[c] EXCEPT !.pc = "make", !.freed = 0]
  <2>1. /\ call[c].pc = "evict_save" /\ Step(c, r) /\ UNCHANGED <<disk, docs>>
        /\ total' = call[c].seen - call[c].freed
    BY <1>7 DEF EvictSave
  <2>2. r \in Calling /\ r.pc = "make" /\ r.key = call[c].key
    BY <1>2 DEF Calling, PCs
  <2> HIDE DEF r
  <2>3. Settled(disk, docs, total, call[c]) => Settled(disk, docs, total', r)
    BY <1>3, <2>1, <2>2, EvictSaveSettles
  <2> QED
    BY <1>1, <1>2, <2>1, <2>2, <2>3, StepBooks
<1> QED
  BY <1>4, <1>5, <1>6, <1>7 DEF Evict

\* A call that ends once its diff is in the cache, or because its file has gone.
LEMMA EndBooks ==
  ASSUME CacheInv, BooksOK, NEW c \in Clients, call[c].pc # "idle", NEW what, NEW made,
         Finish(c, what, made), UNCHANGED <<admin, upset>>,
         Settled(disk, docs, total, call[c]) => Settled(disk', docs', total', NoCall)
  PROVE  BooksOK'
<1>1. Step(c, NoCall)
  BY DEF Finish
<1> QED
  BY <1>1, NoCallType, StepBooks DEF CacheInv

LEMMA TransformBooks ==
  ASSUME CacheInv, BooksOK, NEW c \in Clients, Transform(c) PROVE BooksOK'
<1>1. CallsOK /\ total \in Int /\ source \in Contents /\ UNCHANGED <<admin, upset>>
  BY DEF Transform, Make, EngineFails, AddLoad, AddSave, Insert, CacheInv, StoreOK
<1>2. call[c].pc # "idle" /\ call[c].key \in Keys /\ call[c] \in Calling
  BY <1>1 DEF Transform, Make, EngineFails, AddLoad, AddSave, Insert, CallsOK, CallSound
<1>3. Books(disk, docs, total, call[c])
  BY CallBooks
<1>4. CASE Make(c)
  <2>1. call[c].pc = "make" /\ Goto(c, "add_load") /\ UNCHANGED <<docs, total>>
    BY <1>4 DEF Make
  <2>2. Put(disk', disk, call[c].key, source)
    BY <1>4 DEF Make, Put
  <2>3. PICK q \in Calling : Step(c, q) /\ q.pc = "add_load" /\ q.key = call[c].key
    BY <1>1, <2>1, GotoGives DEF PCs
  <2>4. Settled(disk, docs, total, call[c]) => Settled(disk', docs, total, q)
    BY <1>1, <1>3, <2>1, <2>2, <2>3, MakeSettles
  <2> QED
    BY <1>1, <1>2, <2>1, <2>3, <2>4, StepBooks
<1>5. CASE EngineFails(c)
  <2>1. call[c].pc = "make" /\ Finish(c, "failed", NoContent) /\ UNCHANGED <<disk, docs, total>>
    BY <1>5 DEF EngineFails
  <2>2. call[c].pc \in Plain \ {"idle"}
    BY <2>1 DEF Plain, PCs, Evicting, Adding, Dropping, Dropped
  <2> QED
    BY <1>1, <2>1, <2>2, FinishBooks
<1>6. CASE AddLoad(c)
  <2>1. call[c].pc = "add_load" /\ UNCHANGED <<disk, docs, total>>
    BY <1>6 DEF AddLoad
  <2>2. CASE Exists(call[c].key)
    <3> DEFINE r == [call[c] EXCEPT !.pc = "add_save", !.seen = total]
    <3>1. Step(c, r)
      BY <1>6, <2>2 DEF AddLoad
    <3>2. r \in Calling /\ r.pc = "add_save" /\ r.key = call[c].key /\ r.seen = total
      BY <1>1, <1>2 DEF Calling, PCs
    <3> HIDE DEF r
    <3>3. Settled(disk, docs, total, call[c]) => Settled(disk, docs, total, r)
      BY <1>3, <2>1, <3>2, AddLoadSettles
    <3> QED
      BY <1>1, <1>2, <2>1, <3>1, <3>2, <3>3, StepBooks
  <2>3. CASE ~Exists(call[c].key)
    <3>1. ~Settled(disk, docs, total, call[c])
      BY <2>1, <2>3 DEF Settled, Poised, Adding, Exists, Here
    <3>2. \E what, made : Finish(c, what, made)
      BY <1>6, <2>3 DEF AddLoad, DiffDone
    <3> QED
      BY <1>1, <1>2, <3>1, <3>2, EndBooks
  <2> QED
    BY <2>2, <2>3
<1>7. CASE AddSave(c)
  <2>1. call[c].pc = "add_save" /\ total' = call[c].seen + Size(call[c].key)
        /\ UNCHANGED <<disk, docs>>
    BY <1>7 DEF AddSave
  <2>2. CASE Diffing(c)
    <3>1. \E what, made : Finish(c, what, made)
      BY <1>7, <2>2 DEF AddSave, DiffDone
    <3>2. Settled(disk, docs, total, call[c]) => Settled(disk, docs, total', NoCall)
      BY <1>3, <2>1, NoCallType, AddSaveSettles
    <3> QED
      BY <1>1, <1>2, <2>1, <3>1, <3>2, EndBooks
  <2>3. CASE ~Diffing(c)
    <3>1. Goto(c, "insert") /\ call[c].key[2] \notin Diffs
      BY <1>7, <2>3 DEF AddSave, Diffing
    <3>2. PICK q \in Calling : Step(c, q) /\ q.pc = "insert" /\ q.key = call[c].key
      BY <1>1, <3>1, GotoGives DEF PCs
    <3>3. Settled(disk, docs, total, call[c]) => Settled(disk, docs, total', q)
      BY <1>3, <2>1, <3>1, <3>2, AddSaveSettles
    <3> QED
      BY <1>1, <1>2, <2>1, <3>2, <3>3, StepBooks
  <2> QED
    BY <2>2, <2>3
<1>8. CASE Insert(c)
  <2>1. call[c].pc = "insert" /\ Goto(c, "fetch") /\ UNCHANGED <<disk, total>>
    BY <1>8 DEF Insert
  <2>2. Record(docs', docs, call[c].key)
    BY <1>8 DEF Insert, Record
  <2>3. PICK q \in Calling : Step(c, q) /\ q.pc = "fetch" /\ q.key = call[c].key
    BY <1>1, <2>1, GotoGives DEF PCs
  <2>4. Settled(disk, docs, total, call[c]) => Settled(disk, docs', total, q)
    BY <1>3, <2>1, <2>2, <2>3, InsertSettles
  <2> QED
    BY <1>1, <1>2, <2>1, <2>3, <2>4, StepBooks
<1> QED
  BY <1>4, <1>5, <1>6, <1>7, <1>8 DEF Transform

LEMMA DiffBooks ==
  ASSUME CacheInv, BooksOK, NEW c \in Clients, Diff(c) PROVE BooksOK'
<1>1. CallsOK /\ total \in Int /\ source \in Contents /\ UNCHANGED <<admin, upset>>
  BY DEF Diff, DiffFails, DiffWrite, DiffInsert, CacheInv, StoreOK
<1>2. call[c].pc # "idle" /\ call[c].key \in Keys /\ call[c] \in Calling
  BY <1>1 DEF Diff, DiffFails, DiffWrite, DiffInsert, CallsOK, CallSound
<1>3. Books(disk, docs, total, call[c])
  BY CallBooks
<1>4. CASE DiffFails(c)
  <2>1. call[c].pc = "diff" /\ Finish(c, "failed", NoContent) /\ UNCHANGED <<disk, docs, total>>
    BY <1>4 DEF DiffFails
  <2>2. call[c].pc \in Plain \ {"idle"}
    BY <2>1 DEF Plain, PCs, Evicting, Adding, Dropping, Dropped
  <2> QED
    BY <1>1, <2>1, <2>2, FinishBooks
<1>5. CASE DiffWrite(c)
  <2> DEFINE k == <<source, call[c].key[2]>>
             r == [call[c] EXCEPT !.pc = "diff_insert", !.key = k]
  <2>1. call[c].pc = "diff" /\ Step(c, r) /\ UNCHANGED <<docs, total>>
    BY <1>5 DEF DiffWrite
  <2>2. Put(disk', disk, k, source)
    BY <1>5 DEF DiffWrite, Put
  <2>3. k \in Keys /\ k[2] = call[c].key[2]
    BY <1>1, <1>2 DEF Keys
  <2> HIDE DEF k
  <2>4. r \in Calling /\ r.pc = "diff_insert" /\ r.key = k
    BY <1>2, <2>3 DEF Calling, PCs
  <2> HIDE DEF r
  <2>5. Settled(disk, docs, total, call[c]) => r.key[2] \in Diffs
    BY <2>1, <2>3, <2>4 DEF Settled, Poised
  <2>6. r.key \in Keys /\ Put(disk', disk, r.key, source)
    BY <2>2, <2>3, <2>4
  <2>7. Settled(disk, docs, total, call[c]) => Settled(disk', docs, total, r)
    BY <1>1, <1>3, <2>1, <2>4, <2>5, <2>6, DiffWriteSettles
  <2> QED
    BY <1>1, <1>2, <2>1, <2>4, <2>7, StepBooks
<1>6. CASE DiffInsert(c)
  <2>1. call[c].pc = "diff_insert" /\ UNCHANGED <<disk, total>>
    BY <1>6 DEF DiffInsert
  <2>2. CASE Exists(call[c].key)
    <3>1. Record(docs', docs, call[c].key) /\ Goto(c, "add_load")
      BY <1>6, <2>2 DEF DiffInsert, Record
    <3>2. PICK q \in Calling : Step(c, q) /\ q.pc = "add_load" /\ q.key = call[c].key
      BY <1>1, <3>1, GotoGives DEF PCs
    <3>3. Settled(disk, docs, total, call[c]) => Settled(disk, docs', total, q)
      BY <1>3, <2>1, <3>1, <3>2, DiffInsertSettles
    <3> QED
      BY <1>1, <1>2, <2>1, <3>2, <3>3, StepBooks
  <2>3. CASE ~Exists(call[c].key)
    <3>1. ~Settled(disk, docs, total, call[c])
      BY <2>1, <2>3 DEF Settled, Poised, Exists, Here
    <3>2. \E what, made : Finish(c, what, made)
      BY <1>6, <2>3 DEF DiffInsert, DiffDone
    <3> QED
      BY <1>1, <1>2, <3>1, <3>2, EndBooks
  <2> QED
    BY <2>2, <2>3
<1> QED
  BY <1>4, <1>5, <1>6 DEF Diff

-----------------------------------------------------------------------------
(* So does everything else, or it upsets them *)

\* Nothing on disk, nothing recorded, nothing counted.
LEMMA EmptySettled ==
  ASSUME NEW d \in Disks, \A k \in Keys : ~Here(d, k) PROVE Settled(d, <<>>, 0, NoCall)
<1>1. <<>> \in Seq(Keys) /\ NoCall \in Calling /\ NoCall.pc = "idle"
  BY NoCallType
<1>2. ASSUME NEW k \in Keys, NEW w \in Nat PROVE Amount(<<>>, k, w) = 0
  BY AmountOfNone
<1>3. ASSUME NEW k \in Keys PROVE Left(d, <<>>, NoCall)[k] = 0
  <2>1. NoCall.pc \in Plain
    BY <1>1 DEF Plain, PCs, Evicting, Adding, Dropping, Dropped
  <2>2. Left(d, <<>>, NoCall) = Counted(d, <<>>)
    BY <1>1, <2>1, LeftType
  <2>3. Ledger(<<>>)[k] = Amount(<<>>, k, Size(k)) /\ Size(k) \in Nat
    BY <1>1, LedgerType, SizeType
  <2>4. Ledger(<<>>)[k] = 0
    BY <1>2, <2>3
  <2>5. Counted(d, <<>>)[k] = Ledger(<<>>)[k]
    BY <1>1, CountedType
  <2> QED
    BY <2>2, <2>4, <2>5
<1>4. Total(Left(d, <<>>, NoCall)) = 0
  BY <1>3, TotalOfZeros
<1>5. Funds(0, NoCall) = 0
  BY <1>1, FundsType DEF PCs, Evicting, Adding
<1>6. Balanced(d, <<>>, 0, NoCall)
  BY <1>4, <1>5 DEF Balanced
<1>7. \A k \in Keys : ~Contains(<<>>, k)
  BY DEF Contains
<1>8. Filled(d, <<>>, NoCall)
  BY <1>7 DEF Filled
<1>9. Single(<<>>)
  BY <1>2 DEF Single
<1>10. Poised(d, <<>>, 0, NoCall)
  BY <1>1 DEF Poised, Evicting, Adding, Dropped
<1> QED
  BY <1>6, <1>8, <1>9, <1>10 DEF Settled

LEMMA CrashBooks == ASSUME CacheInv, NEW c \in Clients, Crash(c) PROVE BooksOK'
<1>1. upset'
  BY DEF Crash
<1> QED
  BY <1>1 DEF BooksOK

\* A prune leaves them upset; a reset that has emptied the cache settles them.
LEMMA AdminBooks == ASSUME CacheInv, BooksOK, Admin PROVE BooksOK'
<1>1. CASE PruneRecords
  <2>1. upset'
    BY <1>1 DEF PruneRecords
  <2> QED
    BY <2>1 DEF BooksOK
<1>2. CASE PruneFiles
  <2>1. upset'
    BY <1>2 DEF PruneFiles, BooksOK
  <2> QED
    BY <2>1 DEF BooksOK
<1>3. CASE ResetRecords
  <2>1. (admin.pc = "reset" /\ admin # NoAdmin)'
    BY <1>3 DEF ResetRecords, NoAdmin
  <2> QED
    BY <2>1 DEF BooksOK
<1>4. CASE ResetFiles
  <2>1. (admin.pc # "prune")'
    BY <1>4 DEF ResetFiles, NoAdmin
  <2>2. /\ upset' <=> (Busy # {} \/ docs # <<>> \/ \E k \in OnDisk : Ext(k) = "bin")
        /\ UNCHANGED docs /\ total' = 0 /\ call' = Disturb({})
        /\ disk' = [k \in Keys |-> IF Ext(k) \in {"md", "txt"} THEN NoContent ELSE disk[k]]
    BY <1>4 DEF ResetFiles
  <2>3. ASSUME ~upset' PROVE Busy' = {} /\ Settled(disk', docs', total', NoCall)
    <3>1. Busy = {} /\ docs = <<>> /\ \A k \in OnDisk : Ext(k) # "bin"
      BY <2>2, <2>3
    <3>2. Busy' = {}
      <4>1. \A c \in Clients : call'[c].pc = call[c].pc
        BY <2>2, AllDisturbed DEF CacheInv, CallsOK, Disturbed
      <4> QED
        BY <3>1, <4>1 DEF Busy
    <3>3. disk' \in Disks
      BY <2>2 DEF CacheInv, StoreOK, Disks
    <3>4. ASSUME NEW k \in Keys PROVE ~Here(disk', k)
      <4>1. Ext(k) \in {"bin", "txt", "md"}
        BY ConstantsAssumption DEF Ext, Keys
      <4>2. Exists(k) => Ext(k) # "bin"
        BY <3>1 DEF OnDisk
      <4> QED
        BY <2>2, <4>1, <4>2 DEF Here, Exists
    <3>5. docs' = <<>> /\ total' = 0
      BY <2>2, <3>1
    <3> QED
      BY <3>2, <3>3, <3>4, <3>5, EmptySettled
  <2> QED
    BY <2>1, <2>3 DEF BooksOK
<1> QED
  BY <1>1, <1>2, <1>3, <1>4 DEF Admin

LEMMA SameBooks ==
  ASSUME BooksOK, UNCHANGED <<disk, docs, total, call, admin, upset>> PROVE BooksOK'
<1>1. UNCHANGED Busy
  BY DEF Busy
<1> QED
  BY <1>1 DEF BooksOK

LEMMA NextBooks == ASSUME CacheInv, BooksOK, [Next]_vars PROVE BooksOK'
<1>1. ASSUME NEW c \in Clients, GetContent(c) PROVE BooksOK'
  BY <1>1, BeginBooks, FindBooks, StaleBooks, EvictBooks, TransformBooks, FetchBooks, DiffBooks
     DEF GetContent
<1>2. ASSUME NEW c \in Clients, Crash(c) PROVE BooksOK'
  BY <1>2, CrashBooks
<1>3. CASE Edit \/ ImagesVanish
  BY <1>3, SameBooks DEF Edit, ImagesVanish
<1>4. CASE UNCHANGED vars
  BY <1>4, SameBooks DEF vars
<1> QED
  BY <1>1, <1>2, <1>3, <1>4, AdminBooks DEF Next

LEMMA InitBooks == ASSUME Init PROVE BooksOK
<1>1. admin.pc # "prune"
  BY DEF Init, NoAdmin
<1>2. Busy = {}
  BY NoCallType DEF Init, Busy
<1>3. disk \in Disks /\ \A k \in Keys : ~Here(disk, k)
  BY DEF Init, Disks, Here
<1>4. docs = <<>> /\ total = 0
  BY DEF Init
<1>5. Settled(disk, docs, total, NoCall)
  BY <1>3, <1>4, EmptySettled
<1> QED
  BY <1>1, <1>2, <1>5 DEF BooksOK

-----------------------------------------------------------------------------
(* Books that are settled match the disk *)

\* What is on disk, all together, is counted.
LEMMA DiskCounted ==
  ASSUME disk \in Disks, docs \in Seq(Keys) PROVE DiskSize <= Total(Counted(disk, docs))
<1> DEFINE s == SetToSeq(OnDisk)
           n == Cardinality(OnDisk)
<1>1. IsFiniteSet(OnDisk) /\ OnDisk \subseteq Keys
  BY KeysFinite, FS_Subset DEF OnDisk
<1>2. /\ n \in Nat /\ s \in [1..n -> OnDisk]
      /\ \A i, j \in 1..n : s[i] = s[j] => i = j
  BY <1>1, SetListed
<1>3. s \in Seq(Keys) /\ Len(s) = n
  BY <1>1, <1>2
<1>4. \A k : Contains(s, k) => k \in OnDisk
  BY <1>2, <1>3 DEF Contains
<1> HIDE DEF s, n
<1>5. ASSUME NEW k \in Keys PROVE Ledger(s)[k] <= Counted(disk, docs)[k]
  <2>1. Ledger(s)[k] = Amount(s, k, Size(k)) /\ Size(k) \in Nat
    BY <1>3, LedgerType, SizeType
  <2>2. Amount(s, k, Size(k)) <= Size(k)
    BY <1>2, <1>3, <2>1, AmountOnce
  <2>3. k \notin OnDisk => Amount(s, k, Size(k)) = 0
    BY <1>3, <1>4, <2>1, AmountListed
  <2>4. k \in OnDisk => Size(k) <= Counted(disk, docs)[k]
    BY CountedType DEF OnDisk, Exists, Here
  <2>5. Counted(disk, docs)[k] \in Nat /\ Ledger(s)[k] \in Nat
    BY <1>3, CountedType, LedgerType DEF Numbers
  <2> QED
    BY <2>1, <2>2, <2>3, <2>4, <2>5
<1>6. Total(Ledger(s)) <= Total(Counted(disk, docs))
  BY <1>3, <1>5, LedgerType, CountedType, TotalGrows
<1>7. DiskSize = Total(Ledger(s))
  BY <1>3, SizeOfTotals DEF DiskSize, s
<1> QED
  BY <1>6, <1>7

LEMMA BooksMatch == ASSUME CacheInv, BooksOK PROVE RecordsMatchDisk
<1> SUFFICES ASSUME Calm, ~upset
             PROVE  /\ total >= DiskSize
                    /\ \A i \in DOMAIN docs : Exists(docs[i])
                    /\ \A i, j \in DOMAIN docs :
                         docs[i] = docs[j] => i = j \/ docs[i][2] \in Diffs
  BY DEF RecordsMatchDisk
<1>1. disk \in Disks /\ docs \in Seq(Keys) /\ total \in Int
  BY DEF CacheInv, StoreOK, Disks
<1>2. Busy = {} /\ Settled(disk, docs, total, NoCall)
  BY DEF BooksOK, Calm
<1>3. NoCall \in Calling /\ NoCall.pc = "idle" /\ NoCall.pc \in Plain
  BY NoCallType DEF Plain, PCs, Evicting, Adding, Dropping, Dropped
<1>4. total >= DiskSize
  <2>1. Left(disk, docs, NoCall) = Counted(disk, docs)
    BY <1>1, <1>3, LeftType
  <2>2. Funds(total, NoCall) = total
    BY <1>1, <1>3, FundsType DEF PCs, Evicting, Adding
  <2>3. Total(Counted(disk, docs)) <= total
    BY <1>2, <2>1, <2>2 DEF Settled, Balanced
  <2>4. Total(Counted(disk, docs)) \in Nat
    BY <1>1, CountedType, TotalType
  <2>5. DiskSize <= Total(Counted(disk, docs))
    BY <1>1, DiskCounted
  <2>6. DiskSize \in Int
    <3>1. SetToSeq(OnDisk) \in Seq(Keys)
      <4>1. IsFiniteSet(OnDisk) /\ OnDisk \subseteq Keys
        BY KeysFinite, FS_Subset DEF OnDisk
      <4> QED
        BY <4>1, SetListed
    <3> QED
      BY <3>1, SizeOfType DEF DiskSize
  <2> QED
    BY <1>1, <2>3, <2>4, <2>5, <2>6
<1>5. ASSUME NEW i \in DOMAIN docs PROVE Exists(docs[i])
  <2>1. docs[i] \in Keys /\ Contains(docs, docs[i])
    BY <1>1, <1>5 DEF Contains
  <2>2. ~Gone(NoCall, docs[i])
    BY <1>3 DEF Gone, Dropped
  <2> QED
    BY <1>2, <2>1, <2>2 DEF Settled, Filled, Here, Exists
<1>6. ASSUME NEW i \in DOMAIN docs, NEW j \in DOMAIN docs, docs[i] = docs[j], i # j
      PROVE  docs[i][2] \in Diffs
  <2>1. i \in 1..Len(docs) /\ j \in 1..Len(docs) /\ docs[i] \in Keys
    BY <1>1, <1>6
  <2>2. 1 + 1 <= Amount(docs, docs[i], 1)
    BY <1>1, <1>6, <2>1, AmountTwice
  <2>3. Amount(docs, docs[i], 1) \in Nat
    BY <1>1, AmountType
  <2>4. docs[i][2] \notin Diffs => Amount(docs, docs[i], 1) <= 1
    BY <1>2, <2>1 DEF Settled, Single
  <2> QED
    BY <2>2, <2>3, <2>4
<1> QED
  BY <1>4, <1>5, <1>6

-----------------------------------------------------------------------------
(* The theorems *)

LEMMA Invariance == Spec => []CacheInv
  BY InitHolds, NextKeeps, PTL DEF Spec

LEMMA BooksKept == Spec => []BooksOK
<1>1. Init => CacheInv /\ BooksOK
  BY InitHolds, InitBooks
<1>2. CacheInv /\ BooksOK /\ [Next]_vars => CacheInv' /\ BooksOK'
  BY NextKeeps, NextBooks
<1> QED
  BY <1>1, <1>2, PTL DEF Spec

\* Type correctness: the running total stays a number, the records keys, the list of
\* what a call evicts a sequence of keys, whatever calls, crashes, prunes and resets
\* meet on the three stores.
THEOREM TypeCorrect == Spec => []TypeOK
<1>1. CacheInv => TypeOK
  BY DEF CacheInv, StoreOK, CallsOK, CallSound, AnswersOK, TypeOK, Calling, Answer, Busy
<1> QED
  BY <1>1, Invariance, PTL

\* get_content: a call that no other process disturbs never ends with a text lost, in
\* whatever state crashes, prunes and earlier overlaps have left the cache.
THEOREM LoneCallServed == Spec => []ServedAlone
<1>1. CacheInv => ServedAlone
  BY DEF CacheInv, AnswersOK
<1> QED
  BY <1>1, Invariance, PTL

\* get_content and cmd_diff: as long as the source is not edited between its checksum
\* and its transform, every text that is served was made from the content asked for.
THEOREM AnswersTrue == ASSUME Steady PROVE Spec => []AnswersFaithful
<1>1. CacheInv => AnswersFaithful
  BY DEF CacheInv, AnswersOK
<1> QED
  BY <1>1, Invariance, PTL

\* get_content, eviction, cmd_diff and reset: as long as calls do not overlap, crash or
\* meet a prune, and again once a reset has emptied the cache, the total in cache.json
\* never falls short of what is on disk; every record has its file; and no transform,
\* other than a diff, is recorded twice.
THEOREM RecordsKept == Spec => []RecordsMatchDisk
<1>1. CacheInv /\ BooksOK => RecordsMatchDisk
  BY BooksMatch
<1> QED
  BY <1>1, Invariance, BooksKept, PTL
=============================================================================
