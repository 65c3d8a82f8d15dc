----------------------------- MODULE SumsProofs -----------------------------
(***************************************************************************)
(* Facts about SumTo, about sums over sets, and about folds.  Induction on *)
(* the natural numbers is done on sets, from the least-element property of *)
(* <, because the induction theorems of the library take a predicate as a  *)
(* parameter.                                                              *)
(***************************************************************************)
EXTENDS Sums, FiniteSetsExt, FiniteSetTheorems, WellFoundedInduction, TLAPS

\* Every nonempty set of naturals has a least element.
LEMMA Least ==
  ASSUME NEW T \in SUBSET Nat, T # {}
  PROVE  \E n \in T : \A m \in T : n <= m
<1> DEFINE R == OpToRel(<, Nat)
<1>1. IsWellFoundedOn(R, Nat)
  BY NatLessThanWellFounded
<1>2. \A x, y \in Nat : <<x, y>> \in R <=> x < y
  BY DEF OpToRel
<1> HIDE DEF R
<1>3. \E x \in T : \A y \in T : ~ (<<y, x>> \in R)
  BY <1>1, WFMin
<1>4. PICK n \in T : \A m \in T : ~ (<<m, n>> \in R)
  BY <1>3
<1>5. \A m \in T : n <= m
  <2> TAKE m \in T
  <2>1. n \in Nat /\ m \in Nat
    OBVIOUS
  <2>2. ~ (m < n)
    BY <1>2, <1>4, <2>1
  <2> QED
    BY <2>1, <2>2
<1> QED
  BY <1>5

\* Induction: a set of naturals that holds 0 and the successor of each of its
\* members is Nat.
LEMMA SetInduction ==
  ASSUME NEW S \in SUBSET Nat, 0 \in S, \A n \in S : n + 1 \in S
  PROVE  S = Nat
<1>1. SUFFICES ASSUME Nat \ S # {} PROVE FALSE
  OBVIOUS
<1>2. PICK n \in Nat \ S : \A m \in Nat \ S : n <= m
  BY <1>1, Least
<1>3. n # 0 /\ n - 1 \in Nat /\ n - 1 \in S
  BY <1>2
<1> QED
  BY <1>2, <1>3

-----------------------------------------------------------------------------
(* PrefixSums is the function its recursive definition describes.          *)

Steps(f, g, k) ==
  /\ g \in [0 .. k -> Int]
  /\ g[0] = 0
  /\ \A n \in 1 .. k : g[n] = g[n - 1] + f[n]

\* Partial sums exist up to every k ...
LEMMA StepsExist ==
  ASSUME NEW f \in [Nat -> Int]
  PROVE  \A k \in Nat : \E g : Steps(f, g, k)
<1> DEFINE S == {k \in Nat : \E g : Steps(f, g, k)}
<1>1. 0 \in S
  <2>1. Steps(f, [n \in 0 .. 0 |-> 0], 0)
    BY DEF Steps
  <2> QED
    BY <2>1
<1>2. \A k \in S : k + 1 \in S
  <2> TAKE k \in S
  <2>1. PICK g : Steps(f, g, k)
    OBVIOUS
  <2> DEFINE h == [n \in 0 .. (k + 1) |-> IF n = k + 1 THEN g[k] + f[k + 1] ELSE g[n]]
  <2>2. Steps(f, h, k + 1)
    <3>1. k \in Nat
      OBVIOUS
    <3>2. h \in [0 .. (k + 1) -> Int]
      BY <2>1, <3>1 DEF Steps
    <3>3. h[0] = 0
      BY <2>1, <3>1 DEF Steps
    <3>4. \A n \in 1 .. (k + 1) : h[n] = h[n - 1] + f[n]
      BY <2>1, <3>1 DEF Steps
    <3> QED
      BY <3>2, <3>3, <3>4 DEF Steps
  <2> QED
    BY <2>2
<1> HIDE DEF S
<1>3. S = Nat
  <2>1. S \in SUBSET Nat
    BY DEF S
  <2> QED
    BY <1>1, <1>2, <2>1, SetInduction
<1> QED
  BY <1>3 DEF S

\* ... and agree where they are both defined.
LEMMA StepsAgree ==
  ASSUME NEW f \in [Nat -> Int], NEW j \in Nat, NEW k \in Nat, NEW g, NEW h,
         Steps(f, g, j), Steps(f, h, k)
  PROVE  \A n \in Nat : n <= j /\ n <= k => g[n] = h[n]
<1> DEFINE S == {n \in Nat : n <= j /\ n <= k => g[n] = h[n]}
<1>1. 0 \in S
  BY DEF Steps
<1>2. \A n \in S : n + 1 \in S
  BY DEF Steps
<1> HIDE DEF S
<1>3. S = Nat
  <2>1. S \in SUBSET Nat
    BY DEF S
  <2> QED
    BY <1>1, <1>2, <2>1, SetInduction
<1> QED
  BY <1>3 DEF S

\* The recursion equations of PrefixSums.
LEMMA PrefixSumsDef ==
  ASSUME NEW f \in [Nat -> Int]
  PROVE  /\ PrefixSums(f) \in [Nat -> Int]
         /\ PrefixSums(f)[0] = 0
         /\ \A n \in Nat : PrefixSums(f)[n + 1] = PrefixSums(f)[n] + f[n + 1]
<1> DEFINE w == [k \in Nat |-> CHOOSE g : Steps(f, g, k)]
           s == [k \in Nat |-> w[k][k]]
<1>1. \A k \in Nat : Steps(f, w[k], k)
  BY StepsExist
<1>2. s \in [Nat -> Int]
  BY <1>1 DEF Steps
<1>3. s[0] = 0
  BY <1>1 DEF Steps
<1>4. \A n \in Nat : s[n + 1] = s[n] + f[n + 1]
  <2> TAKE n \in Nat
  <2>1. w[n + 1][n + 1] = w[n + 1][n] + f[n + 1]
    <3>1. Steps(f, w[n + 1], n + 1)
      BY <1>1
    <3> HIDE DEF w
    <3> QED
      BY <3>1 DEF Steps
  <2>2. w[n + 1][n] = w[n][n]
    <3>1. Steps(f, w[n + 1], n + 1) /\ Steps(f, w[n], n)
      BY <1>1
    <3> HIDE DEF w
    <3> QED
      BY <3>1, StepsAgree
  <2> QED
    BY <2>1, <2>2
<1> HIDE DEF s
<1>5. s = [n \in Nat |-> IF n = 0 THEN 0 ELSE s[n - 1] + f[n]]
  <2>1. \A n \in Nat : s[n] = IF n = 0 THEN 0 ELSE s[n - 1] + f[n]
    <3> TAKE n \in Nat
    <3>1. CASE n = 0
      BY <1>3, <3>1
    <3>2. CASE n # 0
      <4>1. n - 1 \in Nat /\ (n - 1) + 1 = n
        BY <3>2
      <4> QED
        BY <1>4, <3>2, <4>1
    <3> QED
      BY <3>1, <3>2
  <2> QED
    BY <1>2, <2>1
<1> DEFINE r == PrefixSums(f)
<1>6. r = [n \in Nat |-> IF n = 0 THEN 0 ELSE r[n - 1] + f[n]]
  BY <1>5 DEF PrefixSums
<1>7. \A n \in Nat : r[n] = s[n]
  <2> HIDE DEF r
  <2> DEFINE S == {n \in Nat : r[n] = s[n]}
  <2>1. 0 \in S
    BY <1>3, <1>6
  <2>2. \A n \in S : n + 1 \in S
    <3> TAKE n \in S
    <3>1. n \in Nat /\ n + 1 # 0 /\ n + 1 \in Nat /\ (n + 1) - 1 = n
      OBVIOUS
    <3>2. r[n + 1] = r[n] + f[n + 1]
      BY <1>6, <3>1
    <3> QED
      BY <1>4, <3>1, <3>2
  <2> HIDE DEF S
  <2>3. S = Nat
    <3>1. S \in SUBSET Nat
      BY DEF S
    <3> QED
      BY <2>1, <2>2, <3>1, SetInduction
  <2> QED
    BY <2>3 DEF S
<1>8. r = s
  <2> HIDE DEF r
  <2>1. r = [n \in Nat |-> r[n]]
    BY <1>6
  <2> QED
    BY <1>2, <1>7, <2>1
<1> QED
  BY <1>2, <1>3, <1>4, <1>8

-----------------------------------------------------------------------------
(* The theorems about SumTo.                                               *)

LEMMA PaddedType ==
  ASSUME NEW n \in Nat, NEW f \in [1 .. n -> Int]
  PROVE  Padded(f, n) \in [Nat -> Int]
BY DEF Padded

\* P is the sequence of the partial sums of F.
IsPrefixOf(P, F) ==
  P \in [Nat -> Int] /\ P[0] = 0 /\ \A k \in Nat : P[k + 1] = P[k] + F[k + 1]

AgreeExcept(F, G, i) == \A j \in Nat : j # i => G[j] = F[j]

Jump(F, G, i, k) == IF i <= k THEN G[i] - F[i] ELSE 0

LEMMA PaddedPrefix ==
  ASSUME NEW n \in Nat, NEW f \in [1 .. n -> Int]
  PROVE  IsPrefixOf(PrefixSums(Padded(f, n)), Padded(f, n))
BY PaddedType, PrefixSumsDef DEF IsPrefixOf

\* Sequences that differ in one place have partial sums that differ by a constant
\* from there on.
LEMMA PrefixChange ==
  ASSUME NEW F \in [Nat -> Int], NEW G \in [Nat -> Int], NEW P, NEW Q,
         IsPrefixOf(P, F), IsPrefixOf(Q, G),
         NEW i \in Nat \ {0}, AgreeExcept(F, G, i)
  PROVE  \A k \in Nat : Q[k] = P[k] + Jump(F, G, i, k)
<1> USE DEF Jump
<1> DEFINE S == {k \in Nat : Q[k] = P[k] + (IF i <= k THEN G[i] - F[i] ELSE 0)}
<1>1. 0 \in S
  BY DEF IsPrefixOf
<1>2. \A k \in S : k + 1 \in S
  <2> TAKE k \in S
  <2>1. k \in Nat /\ k + 1 \in Nat /\ P[k] \in Int /\ Q[k] \in Int /\ F[k + 1] \in Int /\ G[k + 1] \in Int
    BY DEF IsPrefixOf
  <2>2. P[k + 1] = P[k] + F[k + 1] /\ Q[k + 1] = Q[k] + G[k + 1]
    BY <2>1 DEF IsPrefixOf
  <2>3. CASE k + 1 = i
    BY <2>1, <2>2, <2>3
  <2>4. CASE k + 1 # i
    <3>1. G[k + 1] = F[k + 1] /\ (i <= k + 1 <=> i <= k)
      BY <2>1, <2>4 DEF AgreeExcept
    <3> QED
      BY <2>1, <2>2, <3>1
  <2> QED
    BY <2>3, <2>4
<1> HIDE DEF S
<1>3. S = Nat
  <2>1. S \in SUBSET Nat
    BY DEF S
  <2> QED
    BY <1>1, <1>2, <2>1, SetInduction
<1> QED
  BY <1>3 DEF S

\* Larger terms have larger partial sums.
LEMMA PrefixMonotone ==
  ASSUME NEW F \in [Nat -> Int], NEW G \in [Nat -> Int], NEW P, NEW Q,
         IsPrefixOf(P, F), IsPrefixOf(Q, G), \A j \in Nat : F[j] <= G[j]
  PROVE  \A k \in Nat : P[k] <= Q[k]
<1> DEFINE S == {k \in Nat : P[k] <= Q[k]}
<1>1. 0 \in S
  BY DEF IsPrefixOf
<1>2. \A k \in S : k + 1 \in S
  <2> TAKE k \in S
  <2>1. k \in Nat /\ k + 1 \in Nat /\ P[k] \in Int /\ Q[k] \in Int /\ F[k + 1] \in Int /\ G[k + 1] \in Int
    BY DEF IsPrefixOf
  <2>2. P[k + 1] = P[k] + F[k + 1] /\ Q[k + 1] = Q[k] + G[k + 1]
    BY <2>1 DEF IsPrefixOf
  <2> QED
    BY <2>1, <2>2
<1> HIDE DEF S
<1>3. S = Nat
  <2>1. S \in SUBSET Nat
    BY DEF S
  <2> QED
    BY <1>1, <1>2, <2>1, SetInduction
<1> QED
  BY <1>3 DEF S

\* G is what F is from d on, for m places.
Shifted(F, G, d, m) == \A k \in 1 .. m : G[k] = F[d + k]

\* A stretch of a sequence has the sum of a sequence that starts there.
LEMMA PrefixShift ==
  ASSUME NEW F \in [Nat -> Int], NEW G \in [Nat -> Int], NEW P, NEW Q,
         IsPrefixOf(P, F), IsPrefixOf(Q, G),
         NEW d \in Nat, NEW m \in Nat, Shifted(F, G, d, m)
  PROVE  Q[m] = P[d + m] - P[d]
<1> DEFINE S == {k \in Nat : k <= m => Q[k] = P[d + k] - P[d]}
<1>1. 0 \in S
  BY DEF IsPrefixOf
<1>2. \A k \in S : k + 1 \in S
  <2> TAKE k \in S
  <2>1. Q[k + 1] = Q[k] + G[k + 1] /\ P[d + k + 1] = P[d + k] + F[d + k + 1] /\ d + k \in Nat
    BY DEF IsPrefixOf
  <2>2. k + 1 <= m => G[k + 1] = F[d + k + 1]
    BY <2>1 DEF Shifted
  <2>3. Q[k] \in Int /\ P[d + k] \in Int /\ P[d] \in Int /\ G[k + 1] \in Int
    BY <2>1 DEF IsPrefixOf
  <2> QED
    BY <2>1, <2>2, <2>3
<1> HIDE DEF S
<1>3. S \in SUBSET Nat
  BY DEF S
<1>4. S = Nat
  BY <1>1, <1>2, <1>3, SetInduction
<1> QED
  BY <1>4 DEF S

\* The partial sums of what is never negative grow, and stand still where it is 0.
LEMMA PrefixGrows ==
  ASSUME NEW F \in [Nat -> Nat], NEW P, IsPrefixOf(P, F)
  PROVE  \A j, k \in Nat : j <= k => P[j] <= P[k]
<1> SUFFICES ASSUME NEW j \in Nat PROVE \A k \in Nat : P[j] <= P[j + k]
  <2> SUFFICES ASSUME NEW i \in Nat, NEW k \in Nat, i <= k, \A x \in Nat : P[i] <= P[i + x]
               PROVE  P[i] <= P[k]
    OBVIOUS
  <2>1. k - i \in Nat /\ i + (k - i) = k
    OBVIOUS
  <2> QED
    BY <2>1
<1> DEFINE S == {k \in Nat : P[j] <= P[j + k]}
<1>1. 0 \in S
  BY DEF IsPrefixOf
<1>2. \A k \in S : k + 1 \in S
  <2> TAKE k \in S
  <2>1. P[j + k + 1] = P[j + k] + F[j + k + 1] /\ j + k \in Nat /\ F[j + k + 1] \in Nat
    BY DEF IsPrefixOf
  <2>2. P[j] \in Int /\ P[j + k] \in Int
    BY <2>1 DEF IsPrefixOf
  <2> QED
    BY <2>1, <2>2
<1> HIDE DEF S
<1>3. S \in SUBSET Nat
  BY DEF S
<1>4. S = Nat
  BY <1>1, <1>2, <1>3, SetInduction
<1> QED
  BY <1>4 DEF S

LEMMA PrefixStands ==
  ASSUME NEW F \in [Nat -> Int], NEW P, IsPrefixOf(P, F),
         NEW a \in Nat, \A k \in Nat : k > a => F[k] = 0
  PROVE  \A k \in Nat : k >= a => P[k] = P[a]
<1> DEFINE S == {k \in Nat : P[a + k] = P[a]}
<1>1. 0 \in S
  BY DEF IsPrefixOf
<1>2. \A k \in S : k + 1 \in S
  <2> TAKE k \in S
  <2>1. P[a + k + 1] = P[a + k] + F[a + k + 1] /\ a + k + 1 > a /\ a + k \in Nat
    BY DEF IsPrefixOf
  <2>2. F[a + k + 1] = 0
    BY <2>1
  <2>3. P[a + k] \in Int
    BY <2>1 DEF IsPrefixOf
  <2> QED
    BY <2>1, <2>2, <2>3
<1> HIDE DEF S
<1>3. S \in SUBSET Nat
  BY DEF S
<1>4. S = Nat
  BY <1>1, <1>2, <1>3, SetInduction
<1>5. \A k \in Nat : P[a + k] = P[a]
  BY <1>4 DEF S
<1> SUFFICES ASSUME NEW k \in Nat, k >= a PROVE P[k] = P[a]
  OBVIOUS
<1>6. k - a \in Nat /\ a + (k - a) = k
  OBVIOUS
<1> QED
  BY <1>5, <1>6

\* A sum of integers is an integer.
THEOREM SumToInt ==
  ASSUME NEW n \in Nat, NEW f \in [1 .. n -> Int]
  PROVE  SumTo(f, n) \in Int
BY PaddedType, PrefixSumsDef DEF SumTo

LEMMA PaddedChange ==
  ASSUME NEW f, NEW g, NEW n \in Nat, NEW i \in Nat \ {0},
         Padded(f, n) \in [Nat -> Int], Padded(g, n) \in [Nat -> Int],
         AgreeExcept(Padded(f, n), Padded(g, n), i)
  PROVE  \A k \in Nat : PrefixSums(Padded(g, n))[k]
                        = PrefixSums(Padded(f, n))[k] + Jump(Padded(f, n), Padded(g, n), i, k)
<1>1. IsPrefixOf(PrefixSums(Padded(f, n)), Padded(f, n))
  BY PrefixSumsDef DEF IsPrefixOf
<1>2. IsPrefixOf(PrefixSums(Padded(g, n)), Padded(g, n))
  BY PrefixSumsDef DEF IsPrefixOf
<1> QED
  BY <1>1, <1>2, PrefixChange

\* Changing one term changes the sum by the difference.
THEOREM SumToChange ==
  ASSUME NEW n \in Nat, NEW f \in [1 .. n -> Int], NEW g \in [1 .. n -> Int],
         NEW i \in 1 .. n, \A j \in (1 .. n) \ {i} : g[j] = f[j]
  PROVE  SumTo(g, n) = SumTo(f, n) - f[i] + g[i]
<1>1. AgreeExcept(Padded(f, n), Padded(g, n), i)
  BY DEF Padded, AgreeExcept
<1>2. Padded(g, n)[i] = g[i] /\ Padded(f, n)[i] = f[i]
  BY DEF Padded
<1>3. i \in Nat \ {0} /\ i <= n
  OBVIOUS
<1>4. PrefixSums(Padded(g, n))[n]
        = PrefixSums(Padded(f, n))[n] + Jump(Padded(f, n), Padded(g, n), i, n)
  BY <1>1, <1>3, PaddedType, PaddedChange
<1>5. SumTo(g, n) = SumTo(f, n) + (g[i] - f[i])
  BY <1>2, <1>3, <1>4 DEF SumTo, Jump
<1> QED
  BY <1>5, SumToInt

\* Terms that grow make the sum grow.
THEOREM SumToMonotone ==
  ASSUME NEW n \in Nat, NEW f \in [1 .. n -> Int], NEW g \in [1 .. n -> Int],
         \A j \in 1 .. n : f[j] <= g[j]
  PROVE  SumTo(f, n) <= SumTo(g, n)
<1>1. \A j \in Nat : Padded(f, n)[j] <= Padded(g, n)[j]
  BY DEF Padded
<1> QED
  BY <1>1, PaddedType, PaddedPrefix, PrefixMonotone DEF SumTo

\* A sum of zeros is zero.
THEOREM SumToZero ==
  ASSUME NEW n \in Nat, NEW f \in [1 .. n -> Int], \A j \in 1 .. n : f[j] = 0
  PROVE  SumTo(f, n) = 0
<1> DEFINE Z == [j \in Nat |-> 0]
<1>1. Z \in [Nat -> Int] /\ IsPrefixOf(Z, Z)
  BY DEF IsPrefixOf
<1>2. \A j \in Nat : Padded(f, n)[j] <= Z[j] /\ Z[j] <= Padded(f, n)[j]
  BY DEF Padded
<1> HIDE DEF Z
<1>3. \A k \in Nat : PrefixSums(Padded(f, n))[k] <= Z[k]
  BY <1>1, <1>2, PaddedType, PaddedPrefix, PrefixMonotone
<1>4. \A k \in Nat : Z[k] <= PrefixSums(Padded(f, n))[k]
  BY <1>1, <1>2, PaddedType, PaddedPrefix, PrefixMonotone
<1> QED
  BY <1>3, <1>4, SumToInt DEF SumTo, Z

-----------------------------------------------------------------------------
(* Sums over finite sets. *)

\* The sum of f over the elements of a set, as the community modules fold it.
SetSum(f, S) == MapThenSumSet(LAMBDA x : f[x], S)

\* The fold takes out an element that is chosen, and goes on with the rest.
Rest(s) == s \ {CHOOSE x \in s : TRUE}
Adds(f, g, s) == g[s] = IF s = {} THEN 0 ELSE f[CHOOSE x \in s : TRUE] + g[Rest(s)]
FoldsOver(f, S, g) == \A s \in SUBSET S : Adds(f, g, s)
Iterates(f, S, g) ==
    g = [s \in SUBSET S |-> IF s = {} THEN 0 ELSE f[CHOOSE x \in s : TRUE] + g[Rest(s)]]

LEMMA RestIsLess ==
    ASSUME NEW s, IsFiniteSet(s), s # {}
    PROVE  /\ (CHOOSE x \in s : TRUE) \in s
           /\ Rest(s) \subseteq s /\ IsFiniteSet(Rest(s))
           /\ Cardinality(s) \in Nat \ {0} /\ Cardinality(Rest(s)) = Cardinality(s) - 1
<1> DEFINE c == CHOOSE x \in s : TRUE
<1>1. c \in s
  OBVIOUS
<1>2. Rest(s) = s \ {c}
  BY DEF Rest
<1> HIDE DEF c
<1>3. IsFiniteSet(s \ {c}) /\ Cardinality(s \ {c}) = Cardinality(s) - 1
  BY <1>1, FS_RemoveElement
<1>4. Cardinality(s) \in Nat /\ Cardinality(s) # 0
  BY FS_EmptySet, FS_CardinalityType
<1> QED BY <1>1, <1>2, <1>3, <1>4 DEF c

LEMMA FoldsExist ==
    ASSUME NEW S, IsFiniteSet(S), NEW f
    PROVE  \E g : Iterates(f, S, g)
<1> DEFINE Below(n) == {s \in SUBSET S : Cardinality(s) <= n}
           N == {n \in Nat : \E g : \A s \in Below(n) : Adds(f, g, s)}
<1>0. \A s \in SUBSET S : IsFiniteSet(s) /\ Cardinality(s) \in Nat
  BY FS_Subset, FS_CardinalityType
<1>1. 0 \in N
  <2>1. \A s \in Below(0) : s = {}
    BY <1>0, FS_EmptySet
  <2> DEFINE g == [s \in {{}} |-> 0]
  <2>2. \A s \in Below(0) : Adds(f, g, s)
    BY <2>1 DEF Adds
  <2> QED BY <2>2
<1>2. ASSUME NEW n \in N PROVE n + 1 \in N
  <2>1. PICK g : \A s \in Below(n) : Adds(f, g, s)
    OBVIOUS
  <2> DEFINE h == [s \in SUBSET S |-> IF s = {} THEN 0
                                      ELSE f[CHOOSE x \in s : TRUE] + g[Rest(s)]]
  <2>2. ASSUME NEW s \in Below(n) PROVE h[s] = g[s]
    BY <2>1 DEF Adds
  <2>3. ASSUME NEW s \in Below(n + 1) PROVE Adds(f, h, s)
    <3>1. CASE s = {}
      BY <3>1 DEF Adds
    <3>2. CASE s # {}
      <4>1. Rest(s) \in Below(n)
        BY <1>0, <3>2, RestIsLess
      <4>2. h[Rest(s)] = g[Rest(s)]
        BY <4>1, <2>2
      <4>3. h[s] = f[CHOOSE x \in s : TRUE] + g[Rest(s)]
        BY <3>2
      <4> QED BY <3>2, <4>2, <4>3 DEF Adds
    <3> QED BY <3>1, <3>2
  <2> HIDE DEF h
  <2>4. n + 1 \in Nat
    OBVIOUS
  <2> QED BY <2>3, <2>4
<1>3. N = Nat
  <2> HIDE DEF N
  <2>1. N \in SUBSET Nat
    BY DEF N
  <2> QED BY <1>1, <1>2, <2>1, SetInduction
<1>4. PICK g : \A s \in Below(Cardinality(S)) : Adds(f, g, s)
  BY <1>0, <1>3
<1>5. \A s \in SUBSET S : Adds(f, g, s)
  BY <1>4, FS_Subset
<1> DEFINE h == [s \in SUBSET S |-> g[s]]
<1>6. ASSUME NEW s \in SUBSET S
      PROVE  h[s] = IF s = {} THEN 0 ELSE f[CHOOSE x \in s : TRUE] + h[Rest(s)]
  BY <1>5 DEF Adds, Rest
<1>7. h = [s \in SUBSET S |-> h[s]]
  OBVIOUS
<1> HIDE DEF h
<1>8. Iterates(f, S, h)
  BY <1>6, <1>7 DEF Iterates
<1> QED BY <1>8

\* Two folds of the same function agree where both are defined, and are sums of integers.
LEMMA FoldsAgree ==
    ASSUME NEW f, NEW S, NEW T, NEW g, NEW h, FoldsOver(f, S, g), FoldsOver(f, T, h),
           IsFiniteSet(S), S \subseteq T, \A x \in S : f[x] \in Int
    PROVE  \A s \in SUBSET S : g[s] = h[s] /\ g[s] \in Int
<1> DEFINE N == {n \in Nat : \A s \in SUBSET S : Cardinality(s) = n => g[s] = h[s] /\ g[s] \in Int}
<1>0. \A s \in SUBSET S : IsFiniteSet(s) /\ Cardinality(s) \in Nat
  BY FS_Subset, FS_CardinalityType
<1>1. 0 \in N
  BY <1>0, FS_EmptySet DEF FoldsOver, Adds
<1>2. ASSUME NEW n \in N PROVE n + 1 \in N
  <2>1. ASSUME NEW s \in SUBSET S, Cardinality(s) = n + 1 PROVE g[s] = h[s] /\ g[s] \in Int
    <3>1. s # {}
      <4>1. n + 1 # 0
        OBVIOUS
      <4> QED BY <2>1, <4>1, FS_EmptySet
    <3>2. Rest(s) \in SUBSET S /\ Cardinality(Rest(s)) = n /\ (CHOOSE x \in s : TRUE) \in S
      BY <1>0, <2>1, <3>1, RestIsLess
    <3>3. g[Rest(s)] = h[Rest(s)] /\ g[Rest(s)] \in Int
      BY <3>2
    <3>4. /\ g[s] = f[CHOOSE x \in s : TRUE] + g[Rest(s)]
          /\ h[s] = f[CHOOSE x \in s : TRUE] + h[Rest(s)]
      BY <3>1 DEF FoldsOver, Adds
    <3> QED BY <3>2, <3>3, <3>4
  <2> QED BY <2>1
<1>3. N = Nat
  <2> HIDE DEF N
  <2>1. N \in SUBSET Nat
    BY DEF N
  <2> QED BY <1>1, <1>2, <2>1, SetInduction
<1> QED BY <1>0, <1>3

LEMMA SetSumIsFold ==
    ASSUME NEW S, IsFiniteSet(S), NEW f
    PROVE  \E g : FoldsOver(f, S, g) /\ SetSum(f, S) = g[S]
<1> DEFINE g == CHOOSE iter : Iterates(f, S, iter)
<1>1. Iterates(f, S, g)
  BY FoldsExist
<1>2. SetSum(f, S) = (CHOOSE iter : Iterates(f, S, iter))[S]
  BY Zenon DEF SetSum, MapThenSumSet, MapThenFoldSet, Iterates, Rest
<1> HIDE DEF g
<1>3. FoldsOver(f, S, g)
  BY <1>1 DEF Iterates, FoldsOver, Adds
<1> QED BY <1>2, <1>3 DEF g

LEMMA SetSumSteps ==
    ASSUME NEW S, IsFiniteSet(S), NEW f, \A x \in S : f[x] \in Int
    PROVE  /\ SetSum(f, S) \in Int
           /\ S = {} => SetSum(f, S) = 0
           /\ S # {} => SetSum(f, S) = f[CHOOSE x \in S : TRUE] + SetSum(f, Rest(S))
<1>1. PICK g : FoldsOver(f, S, g) /\ SetSum(f, S) = g[S]
  BY SetSumIsFold
<1>2. \A s \in SUBSET S : g[s] \in Int
  BY <1>1, FoldsAgree
<1>3. CASE S = {}
  BY <1>1, <1>3 DEF FoldsOver, Adds
<1>4. CASE S # {}
  <2>1. Rest(S) \subseteq S /\ IsFiniteSet(Rest(S))
    BY <1>4, RestIsLess
  <2>2. PICK h : FoldsOver(f, Rest(S), h) /\ SetSum(f, Rest(S)) = h[Rest(S)]
    BY <2>1, SetSumIsFold
  <2>3. h[Rest(S)] = g[Rest(S)]
    BY <1>1, <2>1, <2>2, FoldsAgree
  <2> QED BY <1>1, <1>2, <1>4, <2>2, <2>3 DEF FoldsOver, Adds
<1> QED BY <1>3, <1>4

\* Whichever element is taken out first, the sum is the same.
THEOREM SetSumTakes ==
    ASSUME NEW S, IsFiniteSet(S), NEW f, \A x \in S : f[x] \in Int, NEW x \in S
    PROVE  SetSum(f, S) = f[x] + SetSum(f, S \ {x})
<1> DEFINE N == {n \in Nat : \A s \in SUBSET S : Cardinality(s) = n =>
                    \A y \in s : SetSum(f, s) = f[y] + SetSum(f, s \ {y})}
<1>0. \A s \in SUBSET S : IsFiniteSet(s) /\ Cardinality(s) \in Nat
  BY FS_Subset, FS_CardinalityType
<1>1. 0 \in N
  BY <1>0, FS_EmptySet
<1>2. ASSUME NEW n \in N PROVE n + 1 \in N
  <2>1. ASSUME NEW s \in SUBSET S, Cardinality(s) = n + 1, NEW y \in s
        PROVE  SetSum(f, s) = f[y] + SetSum(f, s \ {y})
    <3> DEFINE c == CHOOSE z \in s : TRUE
    <3>1. s # {} /\ c \in s /\ IsFiniteSet(s)
      BY <1>0
    <3>2. SetSum(f, s) = f[c] + SetSum(f, s \ {c})
      BY <3>1, SetSumSteps DEF Rest
    <3> HIDE DEF c
    <3>3. CASE y = c
      BY <3>2, <3>3
    <3>4. CASE y # c
      <4>1. /\ Cardinality(s \ {c}) = n /\ Cardinality(s \ {y}) = n
            /\ y \in s \ {c} /\ c \in s \ {y}
        <5>1. Cardinality(s) - 1 = n
          BY <2>1
        <5> QED BY <3>1, <3>4, <5>1, FS_RemoveElement
      <4>2. SetSum(f, s \ {c}) = f[y] + SetSum(f, (s \ {c}) \ {y})
        BY <4>1
      <4>3. SetSum(f, s \ {y}) = f[c] + SetSum(f, (s \ {y}) \ {c})
        BY <4>1
      <4>4. (s \ {c}) \ {y} = (s \ {y}) \ {c} /\ (s \ {c}) \ {y} \in SUBSET S
        OBVIOUS
      <4>5. SetSum(f, (s \ {c}) \ {y}) \in Int
        BY <1>0, <4>4, SetSumSteps
      <4>6. f[c] \in Int /\ f[y] \in Int
        BY <3>1
      <4>7. SetSum(f, s \ {c}) = f[y] + SetSum(f, (s \ {c}) \ {y})
            /\ SetSum(f, s \ {y}) = f[c] + SetSum(f, (s \ {c}) \ {y})
        BY <4>2, <4>3, <4>4
      <4> QED BY <3>2, <4>5, <4>6, <4>7
    <3> QED BY <3>3, <3>4
  <2> QED BY <2>1
<1>3. N = Nat
  <2> HIDE DEF N
  <2>1. N \in SUBSET Nat
    BY DEF N
  <2> QED BY <1>1, <1>2, <2>1, SetInduction
<1> QED BY <1>0, <1>3

\* A sum of naturals is a natural, and of positive ones over a set that is not empty positive.
THEOREM SetSumNat ==
    ASSUME NEW S, IsFiniteSet(S), NEW f, \A x \in S : f[x] \in Nat
    PROVE  SetSum(f, S) \in Nat /\ ((\E x \in S : f[x] > 0) => SetSum(f, S) > 0)
<1> DEFINE N == {n \in Nat : \A s \in SUBSET S : Cardinality(s) = n => SetSum(f, s) \in Nat}
<1>0. \A s \in SUBSET S : IsFiniteSet(s) /\ Cardinality(s) \in Nat
  BY FS_Subset, FS_CardinalityType
<1>1. 0 \in N
  <2>1. ASSUME NEW s \in SUBSET S, Cardinality(s) = 0 PROVE SetSum(f, s) \in Nat
    BY <1>0, <2>1, FS_EmptySet, SetSumSteps
  <2> QED BY <2>1
<1>2. ASSUME NEW n \in N PROVE n + 1 \in N
  <2>1. ASSUME NEW s \in SUBSET S, Cardinality(s) = n + 1 PROVE SetSum(f, s) \in Nat
    <3>1. s # {} /\ IsFiniteSet(s)
      BY <1>0, <2>1, FS_EmptySet
    <3>2. PICK y \in s : TRUE
      BY <3>1
    <3>3. Cardinality(s \ {y}) = n /\ s \ {y} \in SUBSET S
      <4>1. Cardinality(s) - 1 = n
        BY <2>1
      <4> QED BY <3>1, <3>2, <4>1, FS_RemoveElement
    <3>4. SetSum(f, s \ {y}) \in Nat /\ f[y] \in Nat
      BY <3>3
    <3>5. SetSum(f, s) = f[y] + SetSum(f, s \ {y})
      BY <3>1, SetSumTakes
    <3> QED BY <3>4, <3>5
  <2> QED BY <2>1
<1>3. N = Nat
  <2> HIDE DEF N
  <2>1. N \in SUBSET Nat
    BY DEF N
  <2> QED BY <1>1, <1>2, <2>1, SetInduction
<1>4. \A s \in SUBSET S : SetSum(f, s) \in Nat
  BY <1>0, <1>3
<1>5. ASSUME NEW x \in S, f[x] > 0 PROVE SetSum(f, S) > 0
  <2>1. SetSum(f, S) = f[x] + SetSum(f, S \ {x})
    BY SetSumTakes
  <2>2. SetSum(f, S \ {x}) \in Nat
    BY <1>4
  <2> QED BY <1>5, <2>1, <2>2
<1> QED BY <1>4, <1>5

\* What an element more adds.
THEOREM SetSumAdds ==
    ASSUME NEW S, IsFiniteSet(S), NEW f, NEW x, x \notin S, \A y \in S \cup {x} : f[y] \in Int
    PROVE  SetSum(f, S \cup {x}) = f[x] + SetSum(f, S)
<1>1. IsFiniteSet(S \cup {x}) /\ (S \cup {x}) \ {x} = S
  BY FS_AddElement
<1> QED BY <1>1, SetSumTakes

-----------------------------------------------------------------------------
(* Folds of sequences, for the sets of states their steps stay in: c[s] is the place that is      *)
(* taken of those in s, the largest when a fold goes from left to right.                          *)

LEMMA LargestExists ==
    ASSUME NEW n \in Nat, NEW s \in SUBSET (0 .. n), s # {} PROVE \E x \in s : \A y \in s : x >= y
<1> DEFINE below == {d \in 0 .. n : n - d \in s}
<1>1. below \in SUBSET Nat /\ below # {}
  <2>1. PICK x \in s : TRUE
    OBVIOUS
  <2>2. n - x \in 0 .. n /\ n - (n - x) = x
    BY <2>1
  <2> QED BY <2>1, <2>2
<1>2. PICK d \in below : \A e \in below : d <= e
  <2> HIDE DEF below
  <2> QED BY <1>1, Least
<1>3. n - d \in s /\ d \in 0 .. n
  BY <1>2
<1>4. \A y \in s : n - d >= y
  <2> SUFFICES ASSUME NEW y \in s PROVE n - d >= y
    OBVIOUS
  <2>1. y \in 0 .. n /\ n - y \in 0 .. n /\ n - (n - y) = y
    OBVIOUS
  <2>2. n - y \in below
    BY <2>1
  <2>3. d <= n - y
    BY <1>2, <2>2
  <2> QED BY <1>3, <2>1, <2>3
<1> QED BY <1>3, <1>4

Without(s, x) == s \ {x}
Folding(D, c, g, base, step) ==
    \A s \in SUBSET D : g[s] = IF s = {} THEN base ELSE step[<<g[Without(s, c[s])], c[s]>>]

\* What holds of the base, and of each fold when it holds of the one before, holds of all;
\* S[s] is what may be said of the fold of s.
LEMMA FoldStays ==
    ASSUME NEW D, IsFiniteSet(D), NEW c, \A s \in SUBSET D : s # {} => c[s] \in s,
           NEW S, NEW g, g[{}] \in S[{}],
           \A s \in SUBSET D :
             s # {} /\ g[Without(s, c[s])] \in S[Without(s, c[s])] => g[s] \in S[s]
    PROVE  \A s \in SUBSET D : g[s] \in S[s]
<1> DEFINE N == {n \in Nat : \A s \in SUBSET D : Cardinality(s) = n => g[s] \in S[s]}
<1>0. \A s \in SUBSET D : IsFiniteSet(s) /\ Cardinality(s) \in Nat
  BY FS_Subset, FS_CardinalityType
<1>1. 0 \in N
  BY <1>0, FS_EmptySet
<1>2. ASSUME NEW n \in N PROVE n + 1 \in N
  <2>1. ASSUME NEW s \in SUBSET D, Cardinality(s) = n + 1 PROVE g[s] \in S[s]
    <3>1. s # {} /\ IsFiniteSet(s)
      <4>1. n + 1 # 0
        OBVIOUS
      <4> QED BY <1>0, <2>1, <4>1, FS_EmptySet
    <3>2. Without(s, c[s]) \in SUBSET D /\ Cardinality(Without(s, c[s])) = n
      <4>1. Cardinality(s) - 1 = n /\ c[s] \in s
        BY <2>1, <3>1
      <4> QED BY <3>1, <4>1, FS_RemoveElement DEF Without
    <3>3. g[Without(s, c[s])] \in S[Without(s, c[s])]
      BY <3>2
    <3> QED BY <3>1, <3>3
  <2> QED BY <2>1
<1>3. N = Nat
  <2> HIDE DEF N
  <2>1. N \in SUBSET Nat
    BY DEF N
  <2> QED BY <1>1, <1>2, <2>1, SetInduction
<1> QED BY <1>0, <1>3

\* The fold exists, and stays in a set its steps stay in.
LEMMA FoldIs ==
    ASSUME NEW D, IsFiniteSet(D), NEW c, \A s \in SUBSET D : s # {} => c[s] \in s,
           NEW S, NEW base \in S, NEW step, \A x \in S, d \in D : step[<<x, d>>] \in S
    PROVE  \E g : /\ g = [s \in SUBSET D |-> g[s]]
                  /\ \A s \in SUBSET D : g[s] \in S
                  /\ Folding(D, c, g, base, step)
<1> DEFINE Below(n) == {s \in SUBSET D : Cardinality(s) <= n}
           Folds(g, s) == g[s] = IF s = {} THEN base ELSE step[<<g[Without(s, c[s])], c[s]>>]
           N == {n \in Nat : \E g : \A s \in Below(n) : Folds(g, s)}
<1>0. \A s \in SUBSET D : IsFiniteSet(s) /\ Cardinality(s) \in Nat
  BY FS_Subset, FS_CardinalityType
<1>1. 0 \in N
  <2>1. \A s \in Below(0) : s = {}
    BY <1>0, FS_EmptySet
  <2> DEFINE g == [s \in {{}} |-> base]
  <2>2. \A s \in Below(0) : Folds(g, s)
    BY <2>1
  <2> QED BY <2>2
<1>2. ASSUME NEW n \in N PROVE n + 1 \in N
  <2>1. PICK g : \A s \in Below(n) : Folds(g, s)
    OBVIOUS
  <2> DEFINE h == [s \in SUBSET D |-> IF s = {} THEN base ELSE step[<<g[Without(s, c[s])], c[s]>>]]
  <2>2. ASSUME NEW s \in Below(n) PROVE h[s] = g[s]
    BY <2>1
  <2>3. ASSUME NEW s \in Below(n + 1) PROVE Folds(h, s)
    <3>1. CASE s = {}
      BY <3>1
    <3>2. CASE s # {}
      <4>1. Without(s, c[s]) \in Below(n)
        <5>1. c[s] \in s /\ IsFiniteSet(s) /\ Cardinality(s) \in Nat /\ Cardinality(s) <= n + 1
              /\ s \in SUBSET D
          BY <1>0, <3>2
        <5>2. /\ Cardinality(Without(s, c[s])) = Cardinality(s) - 1 /\ Without(s, c[s]) \in SUBSET D
          BY <5>1, FS_RemoveElement DEF Without
        <5> QED BY <5>1, <5>2
      <4>2. h[Without(s, c[s])] = g[Without(s, c[s])]
        BY <4>1, <2>2
      <4>3. h[s] = step[<<g[Without(s, c[s])], c[s]>>]
        BY <3>2
      <4> QED BY <3>2, <4>2, <4>3
    <3> QED BY <3>1, <3>2
  <2> HIDE DEF h
  <2>4. n + 1 \in Nat
    OBVIOUS
  <2> QED BY <2>3, <2>4
<1>3. N = Nat
  <2> HIDE DEF N
  <2>1. N \in SUBSET Nat
    BY DEF N
  <2> QED BY <1>1, <1>2, <2>1, SetInduction
<1>4. PICK g : \A s \in Below(Cardinality(D)) : Folds(g, s)
  BY <1>0, <1>3
<1>5. \A s \in SUBSET D : Folds(g, s)
  BY <1>4, FS_Subset
<1> DEFINE h == [s \in SUBSET D |-> g[s]]
<1>6. \A s \in SUBSET D : Without(s, c[s]) \in SUBSET D
  BY DEF Without
<1>7. Folding(D, c, h, base, step)
  BY <1>5, <1>6 DEF Folding
<1>8. h = [s \in SUBSET D |-> h[s]]
  OBVIOUS
<1> HIDE DEF h
<1>9. \A s \in SUBSET D : s # {} /\ h[Without(s, c[s])] \in S => h[s] \in S
  BY <1>7 DEF Folding
<1>10. h[{}] \in S
  BY <1>7 DEF Folding
<1>11. \A s \in SUBSET D : h[s] \in S
  <2> DEFINE T == [s \in SUBSET D |-> S]
  <2>1. /\ h[{}] \in T[{}]
        /\ \A s \in SUBSET D :
             s # {} /\ h[Without(s, c[s])] \in T[Without(s, c[s])] => h[s] \in T[s]
    BY <1>6, <1>9, <1>10
  <2> HIDE DEF T
  <2>2. \A s \in SUBSET D : h[s] \in T[s]
    BY <2>1, FoldStays
  <2> QED BY <2>2 DEF T
<1> QED BY <1>7, <1>8, <1>11
=============================================================================
