------------------------------ MODULE Recursion ------------------------------
(***************************************************************************)
(* Induction over the natural numbers as a fact about sets, and what it    *)
(* gives: that a recursive function is what its definition says, and how   *)
(* sums over lists behave.                                                 *)
(***************************************************************************)
EXTENDS Sums, FiniteSetTheorems, TLAPS

\* A set of naturals that is not empty has a least member.
LEMMA LeastMember ==
    ASSUME NEW T \in SUBSET Nat, T # {}
    PROVE  \E n \in T : \A m \in T : n <= m
<1> DEFINE R == OpToRel(<, Nat)
<1>1. \A m, n \in Nat : m < n => <<m, n>> \in R
  BY DEF OpToRel
<1>2. IsWellFoundedOn(R, Nat)
  BY NatLessThanWellFounded
<1> HIDE DEF R
<1>3. PICK n \in T : \A m \in T : ~(<<m, n>> \in R)
  BY <1>2, WFMin
<1>4. \A m \in T : n <= m
  <2> SUFFICES ASSUME NEW m \in T, ~(n <= m) PROVE FALSE
    OBVIOUS
  <2>1. m \in Nat /\ n \in Nat /\ m < n
    OBVIOUS
  <2> QED BY <2>1, <1>1, <1>3
<1> QED BY <1>4

\* A set that has zero, and the successor of every number it has, has them all.
LEMMA SetInduction ==
    ASSUME NEW P, 0 \in P, \A n \in Nat : n \in P => n + 1 \in P
    PROVE  Nat \subseteq P
<1> SUFFICES ASSUME NEW k \in Nat, k \notin P PROVE FALSE
  OBVIOUS
<1> DEFINE T == {n \in Nat : n \notin P}
<1>1. T \in SUBSET Nat /\ T # {}
  OBVIOUS
<1>2. PICK n \in T : \A m \in T : n <= m
  BY <1>1, LeastMember
<1>3. n # 0
  OBVIOUS
<1>4. n - 1 \in Nat /\ n - 1 \notin T
  BY <1>2, <1>3
<1>5. n - 1 \in P
  BY <1>4
<1> QED BY <1>4, <1>5

\* A first value and a step to the next one give a function on the naturals.
StartsAs(f, n, first, step) ==
    f[0] = first /\ \A i \in Nat : i < n => f[i + 1] = step[f[i]]

IsIteration(f, first, step) == f[0] = first /\ \A n \in Nat : f[n + 1] = step[f[n]]

LEMMA Iterates ==
    ASSUME NEW V, NEW first \in V, NEW step \in [V -> V]
    PROVE  \E f \in [Nat -> V] : IsIteration(f, first, step)
<1> DEFINE P == {n \in Nat : \E f \in [Nat -> V] : StartsAs(f, n, first, step)}
<1>1. 0 \in P
  <2>1. [i \in Nat |-> first] \in [Nat -> V] /\ StartsAs([i \in Nat |-> first], 0, first, step)
    BY DEF StartsAs
  <2> QED BY <2>1
<1>2. ASSUME NEW n \in Nat, n \in P PROVE n + 1 \in P
  <2>1. PICK f \in [Nat -> V] : StartsAs(f, n, first, step)
    BY <1>2
  <2> DEFINE h == [i \in Nat |-> IF i = n + 1 THEN step[f[n]] ELSE f[i]]
  <2>2. h \in [Nat -> V]
    OBVIOUS
  <2>3. StartsAs(h, n + 1, first, step)
    BY <2>1 DEF StartsAs
  <2> HIDE DEF h
  <2> QED BY <2>2, <2>3
<1> HIDE DEF P
<1>3. \A n \in Nat : \E f \in [Nat -> V] : StartsAs(f, n, first, step)
  BY <1>1, <1>2, SetInduction DEF P
<1>4. ASSUME NEW m \in Nat, NEW n \in Nat, m <= n, NEW f, NEW g,
             StartsAs(f, m, first, step), StartsAs(g, n, first, step)
      PROVE  f[m] = g[m]
  <2> DEFINE Q == {i \in Nat : i <= m => f[i] = g[i]}
  <2>1. 0 \in Q
    BY <1>4 DEF StartsAs
  <2>2. \A i \in Nat : i \in Q => i + 1 \in Q
    BY <1>4 DEF StartsAs
  <2> HIDE DEF Q
  <2>3. Nat \subseteq Q
    BY <2>1, <2>2, SetInduction
  <2> QED BY <2>3 DEF Q
<1> DEFINE g(n) == CHOOSE f \in [Nat -> V] : StartsAs(f, n, first, step)
           w == [n \in Nat |-> g(n)[n]]
<1>5. \A n \in Nat : g(n) \in [Nat -> V] /\ StartsAs(g(n), n, first, step)
  BY <1>3
<1> HIDE DEF g
<1>6. w \in [Nat -> V] /\ \A n \in Nat : w[n] = g(n)[n]
  BY <1>5
<1>7. w[0] = first
  BY <1>5, <1>6 DEF StartsAs
<1>8. ASSUME NEW n \in Nat PROVE w[n + 1] = step[w[n]]
  <2>1. g(n)[n] = g(n + 1)[n]
    BY <1>4, <1>5
  <2>2. g(n + 1)[n + 1] = step[g(n + 1)[n]]
    BY <1>5 DEF StartsAs
  <2> QED BY <1>6, <2>1, <2>2
<1> HIDE DEF w
<1> QED BY <1>6, <1>7, <1>8 DEF IsIteration

-----------------------------------------------------------------------------
(* Sums. *)

\* The first n + 1 values of the sum, as a function.
Partial(u, g, n) == u = [k \in 0..n |-> IF k = 0 THEN 0 ELSE u[k - 1] + g[k]]

LEMMA PartialExists ==
    ASSUME NEW g, NEW n \in Nat PROVE \E u : Partial(u, g, n)
<1> DEFINE P == {k \in Nat : \E u : Partial(u, g, k)}
<1>1. 0 \in P
  <2> DEFINE u == [k \in 0..0 |-> 0]
  <2>1. u = [k \in 0..0 |-> IF k = 0 THEN 0 ELSE u[k - 1] + g[k]]
    OBVIOUS
  <2> QED BY <2>1 DEF Partial
<1>2. ASSUME NEW k \in Nat, k \in P PROVE k + 1 \in P
  <2>1. PICK v : Partial(v, g, k)
    BY <1>2
  <2> DEFINE u == [i \in 0..(k + 1) |-> IF i = k + 1 THEN v[k] + g[k + 1] ELSE v[i]]
  <2>2. \A i \in 0..k : v[i] = IF i = 0 THEN 0 ELSE v[i - 1] + g[i]
    BY <2>1 DEF Partial
  <2>3. \A i \in 0..(k + 1) : u[i] = IF i = 0 THEN 0 ELSE u[i - 1] + g[i]
    BY <2>2
  <2>4. u = [i \in 0..(k + 1) |-> IF i = 0 THEN 0 ELSE u[i - 1] + g[i]]
    BY <2>3
  <2>5. Partial(u, g, k + 1)
    BY <2>4 DEF Partial
  <2> HIDE DEF u
  <2> QED BY <2>5
<1> HIDE DEF P
<1>3. Nat \subseteq P
  BY <1>1, <1>2, SetInduction
<1> QED BY <1>3 DEF P

LEMMA PartialUnique ==
    ASSUME NEW g, NEW m \in Nat, NEW n \in Nat, m <= n,
           NEW u, NEW v, Partial(u, g, m), Partial(v, g, n)
    PROVE  u[m] = v[m]
<1>1. /\ \A i \in 0..m : u[i] = IF i = 0 THEN 0 ELSE u[i - 1] + g[i]
      /\ \A i \in 0..n : v[i] = IF i = 0 THEN 0 ELSE v[i - 1] + g[i]
  BY DEF Partial
<1> DEFINE P == {k \in Nat : k <= m => u[k] = v[k]}
<1>2. 0 \in P
  BY <1>1
<1>3. \A k \in Nat : k \in P => k + 1 \in P
  BY <1>1
<1> HIDE DEF P
<1>4. Nat \subseteq P
  BY <1>2, <1>3, SetInduction
<1> QED BY <1>4 DEF P

\* The sum of no entries is nothing; each entry is added to those before it.
LEMMA SumStep ==
    ASSUME NEW g
    PROVE  /\ SumTo(g, 0) = 0
           /\ \A n \in Nat : SumTo(g, n + 1) = SumTo(g, n) + g[n + 1]
<1> DEFINE w == [n \in Nat |-> (CHOOSE u : Partial(u, g, n))[n]]
           IsSum(f) == f = [k \in Nat |-> IF k = 0 THEN 0 ELSE f[k - 1] + g[k]]
<1>1. ASSUME NEW n \in Nat
      PROVE  /\ Partial(CHOOSE u : Partial(u, g, n), g, n)
             /\ w[n] = (CHOOSE u : Partial(u, g, n))[n]
  BY PartialExists
<1>2. ASSUME NEW n \in Nat PROVE w[n] = IF n = 0 THEN 0 ELSE w[n - 1] + g[n]
  <2> DEFINE u == CHOOSE v : Partial(v, g, n)
  <2>1. Partial(u, g, n) /\ w[n] = u[n]
    BY <1>1
  <2>2. n # 0 => w[n - 1] = u[n - 1]
    <3> SUFFICES ASSUME n # 0 PROVE w[n - 1] = u[n - 1]
      OBVIOUS
    <3> DEFINE v == CHOOSE x : Partial(x, g, n - 1)
    <3>1. n - 1 \in Nat /\ n - 1 <= n
      OBVIOUS
    <3>2. Partial(v, g, n - 1) /\ w[n - 1] = v[n - 1]
      BY <1>1, <3>1
    <3> HIDE DEF u, v, w
    <3> QED BY <2>1, <3>1, <3>2, PartialUnique
  <2> HIDE DEF u, w
  <2>3. u[n] = IF n = 0 THEN 0 ELSE u[n - 1] + g[n]
    BY <2>1 DEF Partial
  <2> QED BY <2>1, <2>2, <2>3
<1>3. IsSum(w)
  <2>1. w = [n \in Nat |-> w[n]]
    OBVIOUS
  <2> HIDE DEF w
  <2> QED BY <1>2, <2>1
<1> DEFINE s == CHOOSE f : IsSum(f)
<1>4. IsSum(s)
  <2> HIDE DEF w, IsSum
  <2> QED BY <1>3
<1>5. \A n : SumTo(g, n) = s[n]
  BY DEF SumTo
<1>6. \A n \in Nat : s[n] = IF n = 0 THEN 0 ELSE s[n - 1] + g[n]
  <2> HIDE DEF s
  <2> QED BY <1>4
<1> HIDE DEF s
<1> QED BY <1>5, <1>6

\* A sum of integers is one, and looks at no entry but those it adds.
LEMMA SumOfIntegers ==
    ASSUME NEW g, NEW n \in Nat, \A i \in 1..n : g[i] \in Int
    PROVE  SumTo(g, n) \in Int
<1> DEFINE P == {k \in Nat : k <= n => SumTo(g, k) \in Int}
<1>1. 0 \in P
  BY SumStep
<1>2. ASSUME NEW k \in Nat, k \in P PROVE k + 1 \in P
  <2>1. SumTo(g, k + 1) = SumTo(g, k) + g[k + 1]
    BY SumStep
  <2> QED BY <1>2, <2>1
<1> HIDE DEF P
<1>3. Nat \subseteq P
  BY <1>1, <1>2, SetInduction
<1> QED BY <1>3 DEF P

\* Changing one entry changes the sum by as much.
LEMMA SumChange ==
    ASSUME NEW g, NEW h, NEW n \in Nat, NEW x \in 1..n,
           \A i \in 1..n : g[i] \in Int /\ h[i] \in Int /\ (i # x => h[i] = g[i])
    PROVE  SumTo(h, n) = SumTo(g, n) - g[x] + h[x]
<1> DEFINE P == {k \in Nat : k <= n =>
                    /\ SumTo(g, k) \in Int /\ SumTo(h, k) \in Int
                    /\ SumTo(h, k) = SumTo(g, k) + (IF k < x THEN 0 ELSE h[x] - g[x])}
<1>1. 0 \in P
  BY SumStep
<1>2. ASSUME NEW k \in Nat, k \in P PROVE k + 1 \in P
  <2>1. SumTo(g, k + 1) = SumTo(g, k) + g[k + 1] /\ SumTo(h, k + 1) = SumTo(h, k) + h[k + 1]
    BY SumStep
  <2> QED BY <1>2, <2>1
<1> HIDE DEF P
<1>3. Nat \subseteq P
  BY <1>1, <1>2, SetInduction
<1>4. n \in P
  BY <1>3
<1> QED BY <1>4 DEF P

\* Lists that agree have one sum.
LEMMA SumSame ==
    ASSUME NEW g, NEW h, NEW n \in Nat, \A i \in 1..n : g[i] = h[i]
    PROVE  SumTo(g, n) = SumTo(h, n)
<1> DEFINE P == {k \in Nat : k <= n => SumTo(g, k) = SumTo(h, k)}
<1>1. 0 \in P
  BY SumStep
<1>2. ASSUME NEW k \in Nat, k \in P PROVE k + 1 \in P
  <2>1. SumTo(g, k + 1) = SumTo(g, k) + g[k + 1] /\ SumTo(h, k + 1) = SumTo(h, k) + h[k + 1]
    BY SumStep
  <2> QED BY <1>2, <2>1
<1> HIDE DEF P
<1>3. Nat \subseteq P
  BY <1>1, <1>2, SetInduction
<1> QED BY <1>3 DEF P

\* The sum of the differences is the difference of the sums.
LEMMA SumDifference ==
    ASSUME NEW f, NEW g, NEW h, NEW n \in Nat,
           \A i \in 1..n : g[i] \in Int /\ h[i] \in Int /\ f[i] = g[i] - h[i]
    PROVE  SumTo(f, n) = SumTo(g, n) - SumTo(h, n)
<1> DEFINE P == {k \in Nat : k <= n =>
                    /\ SumTo(g, k) \in Int /\ SumTo(h, k) \in Int
                    /\ SumTo(f, k) = SumTo(g, k) - SumTo(h, k)}
<1>1. 0 \in P
  BY SumStep
<1>2. ASSUME NEW k \in Nat, k \in P PROVE k + 1 \in P
  <2>1. /\ SumTo(f, k + 1) = SumTo(f, k) + f[k + 1]
        /\ SumTo(g, k + 1) = SumTo(g, k) + g[k + 1]
        /\ SumTo(h, k + 1) = SumTo(h, k) + h[k + 1]
    BY SumStep
  <2> QED BY <1>2, <2>1
<1> HIDE DEF P
<1>3. Nat \subseteq P
  BY <1>1, <1>2, SetInduction
<1> QED BY <1>3 DEF P

\* No entry is larger than the sum of naturals it is one of.
LEMMA SumCovers ==
    ASSUME NEW g, NEW n \in Nat, \A i \in 1..n : g[i] \in Nat
    PROVE  SumTo(g, n) \in Nat /\ \A x \in 1..n : g[x] <= SumTo(g, n)
<1> DEFINE P == {k \in Nat : k <= n =>
                    SumTo(g, k) \in Nat /\ \A x \in 1..k : g[x] <= SumTo(g, k)}
<1>1. 0 \in P
  BY SumStep
<1>2. ASSUME NEW k \in Nat, k \in P PROVE k + 1 \in P
  <2>1. SumTo(g, k + 1) = SumTo(g, k) + g[k + 1]
    BY SumStep
  <2> SUFFICES ASSUME k + 1 <= n
               PROVE  SumTo(g, k + 1) \in Nat /\ \A x \in 1..(k + 1) : g[x] <= SumTo(g, k + 1)
    OBVIOUS
  <2>2. SumTo(g, k) \in Nat /\ g[k + 1] \in Nat /\ \A x \in 1..k : g[x] <= SumTo(g, k)
    BY <1>2
  <2>3. ASSUME NEW x \in 1..(k + 1) PROVE g[x] <= SumTo(g, k + 1)
    <3>1. x \in 1..k \/ x = k + 1
      OBVIOUS
    <3>2. g[x] \in Nat
      OBVIOUS
    <3> QED BY <2>1, <2>2, <3>1, <3>2
  <2> QED BY <2>1, <2>2, <2>3
<1> HIDE DEF P
<1>3. Nat \subseteq P
  BY <1>1, <1>2, SetInduction
<1> QED BY <1>3 DEF P
=============================================================================
