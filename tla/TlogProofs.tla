----------------------------- MODULE TlogProofs -----------------------------
(***************************************************************************)
(* verifyInclusion and verifyConsistency answer rightly for trees of any   *)
(* size: the node the walk has reached covers a known range of the leaves, *)
(* what is recomputed there is the hash of that range, and what was taken  *)
(* of the proof is the audit path, or the proof of growth, inside it.      *)
(* And the tiles of a log of any size have the roots of all its sizes.     *)
(***************************************************************************)
EXTENDS TlogInclusion, TlogConsistency, TileTree, Recursion

(* Powers of two. *)

LEMMA PowStep ==
    /\ Pow2 \in [Nat -> Nat] /\ Pow2[0] = 1
    /\ \A i \in Nat : Pow2[i + 1] = 2 * Pow2[i]
<1> DEFINE IsPow(f) == f = [i \in Nat |-> IF i = 0 THEN 1 ELSE 2 * f[i - 1]]
           double == [v \in Nat |-> 2 * v]
<1>1. double \in [Nat -> Nat] /\ \A v \in Nat : double[v] = 2 * v
  OBVIOUS
<1>2. PICK f \in [Nat -> Nat] : f[0] = 1 /\ \A n \in Nat : f[n + 1] = double[f[n]]
  <2> HIDE DEF double
  <2>1. \E f \in [Nat -> Nat] : IsIteration(f, 1, double)
    BY <1>1, 1 \in Nat, Iterates
  <2> QED BY <2>1 DEF IsIteration
<1>3. \A i \in Nat : f[i] = IF i = 0 THEN 1 ELSE 2 * f[i - 1]
  <2> SUFFICES ASSUME NEW i \in Nat, i # 0 PROVE f[i] = 2 * f[i - 1]
    BY <1>2
  <2>1. i - 1 \in Nat /\ f[(i - 1) + 1] = double[f[i - 1]]
    BY <1>2
  <2> QED BY <1>1, <2>1
<1>4. IsPow(f)
  <2>1. f = [i \in Nat |-> f[i]]
    OBVIOUS
  <2> QED BY <1>3, <2>1
<1> DEFINE p == CHOOSE g : IsPow(g)
<1>5. IsPow(p)
  <2> HIDE DEF IsPow
  <2> QED BY <1>4
<1>6. Pow2 = p
  BY DEF Pow2
<1> HIDE DEF p
<1>7. \A i \in Nat : p[i] = IF i = 0 THEN 1 ELSE 2 * p[i - 1]
  BY <1>5
<1>8. \A i \in Nat : p[i + 1] = 2 * p[i]
  <2> SUFFICES ASSUME NEW i \in Nat PROVE p[i + 1] = 2 * p[i]
    OBVIOUS
  <2>1. i + 1 \in Nat /\ i + 1 # 0 /\ (i + 1) - 1 = i
    OBVIOUS
  <2> QED BY <1>7, <2>1
<1> DEFINE N == {i \in Nat : p[i] \in Nat}
<1>9. 0 \in N /\ \A i \in Nat : i \in N => i + 1 \in N
  BY <1>7, <1>8
<1>10. Nat \subseteq N
  <2> HIDE DEF N
  <2> QED BY <1>9, SetInduction
<1>11. p \in [Nat -> Nat]
  <2>1. p = [i \in Nat |-> IF i = 0 THEN 1 ELSE 2 * p[i - 1]]
    BY <1>5
  <2>2. p = [i \in Nat |-> p[i]]
    BY <2>1
  <2> QED BY <1>10, <2>2
<1> QED BY <1>6, <1>7, <1>8, <1>11

LEMMA PowGrows == \A i \in Nat : Pow2[i] \in Nat /\ i < Pow2[i]
<1> DEFINE P == {i \in Nat : i < Pow2[i]}
<1>1. 0 \in P /\ \A i \in Nat : i \in P => i + 1 \in P
  BY PowStep
<1> HIDE DEF P
<1>2. Nat \subseteq P
  BY <1>1, SetInduction
<1> QED BY <1>2, PowStep DEF P

LEMMA PowAbove ==
    ASSUME NEW i \in Nat, NEW j \in Nat, i < j PROVE 2 * Pow2[i] <= Pow2[j]
<1> DEFINE P == {d \in Nat : 2 * Pow2[i] <= Pow2[i + 1 + d]}
<1>1. 0 \in P
  BY PowStep
<1>2. ASSUME NEW d \in Nat, d \in P PROVE d + 1 \in P
  <2>1. Pow2[(i + 1 + d) + 1] = 2 * Pow2[i + 1 + d] /\ Pow2[i + 1 + d] \in Nat
    BY PowStep
  <2>2. (i + 1 + d) + 1 = i + 1 + (d + 1)
    OBVIOUS
  <2>3. 2 * Pow2[i] <= Pow2[i + 1 + d] /\ Pow2[i] \in Nat
    BY <1>2, PowStep
  <2>4. 2 * Pow2[i] <= Pow2[i + 1 + (d + 1)]
    BY <2>1, <2>2, <2>3
  <2> QED BY <2>4
<1> HIDE DEF P
<1>3. Nat \subseteq P
  BY <1>1, <1>2, SetInduction
<1>4. j - i - 1 \in P
  BY <1>3
<1>5. i + 1 + (j - i - 1) = j
  OBVIOUS
<1> QED BY <1>4, <1>5 DEF P

\* The point where a range of n leaves splits: it leaves something on either side,
\* and is the one power of two that is at least half of n, and less.
LEMMA SplitPower ==
    ASSUME NEW n \in Nat, n > 1
    PROVE  /\ LargestPow2LessThan(n) \in Nat
           /\ 0 < LargestPow2LessThan(n) /\ LargestPow2LessThan(n) < n
           /\ n <= 2 * LargestPow2LessThan(n)
           /\ \E j \in Nat : LargestPow2LessThan(n) = Pow2[j]
           /\ \A j \in Nat : Pow2[j] < n /\ n <= 2 * Pow2[j] => LargestPow2LessThan(n) = Pow2[j]
<1> DEFINE T == {i \in Nat : n <= Pow2[i]}
           S == {Pow2[i] : i \in 0..n}
           K == LargestPow2LessThan(n)
<1>1. n \in T
  BY PowGrows
<1>2. PICK i \in T : \A k \in T : i <= k
  <2> HIDE DEF T
  <2> QED BY <1>1, LeastMember, T \in SUBSET Nat DEF T
<1>3. i \in Nat /\ i # 0 /\ i <= n /\ n <= Pow2[i]
  BY <1>1, <1>2, PowStep
<1>4. i - 1 \in 0..n /\ Pow2[i - 1] < n /\ n <= 2 * Pow2[i - 1]
  <2>1. i - 1 \in Nat /\ i - 1 \notin T
    BY <1>2, <1>3
  <2>2. Pow2[(i - 1) + 1] = 2 * Pow2[i - 1] /\ Pow2[i - 1] \in Nat
    BY <2>1, PowStep
  <2> QED BY <1>3, <2>1, <2>2
<1>5. \E k \in S : k < n /\ n <= 2 * k
  BY <1>4
<1> HIDE DEF T, S
<1>6. K \in S /\ K < n /\ n <= 2 * K
  BY <1>5 DEF LargestPow2LessThan, S
<1>7. PICK a \in 0..n : K = Pow2[a]
  BY <1>6 DEF S
<1>8. a \in Nat /\ K \in Nat /\ 0 < K /\ \E j \in Nat : K = Pow2[j]
  BY <1>7, PowGrows
<1> HIDE DEF K
<1>9. ASSUME NEW j \in Nat, Pow2[j] < n, n <= 2 * Pow2[j]
      PROVE  K = Pow2[j]
  <2>1. Pow2[j] \in Nat
    BY PowStep
  <2>2. ~(a < j)
    <3>1. a < j => 2 * Pow2[a] <= Pow2[j]
      BY <1>8, PowAbove
    <3> QED BY <1>6, <1>7, <1>8, <1>9, <2>1, <3>1
  <2>3. ~(j < a)
    <3>1. j < a => 2 * Pow2[j] <= Pow2[a]
      BY <1>8, PowAbove
    <3> QED BY <1>6, <1>7, <1>8, <1>9, <2>1, <3>1
  <2>4. a = j
    BY <1>8, <2>2, <2>3
  <2> QED BY <1>7, <2>4
<1> QED BY <1>6, <1>8, <1>9 DEF K

LEMMA SplitPoint ==
    ASSUME NEW n \in Nat, n > 1
    PROVE  /\ LargestPow2LessThan(n) \in Nat
           /\ 0 < LargestPow2LessThan(n) /\ LargestPow2LessThan(n) < n
           /\ \A j \in Nat : Pow2[j] < n /\ n <= 2 * Pow2[j] => LargestPow2LessThan(n) = Pow2[j]
BY SplitPower

-----------------------------------------------------------------------------
(* The hashes of ranges: Tree is what its definition says. *)

HashesOf(list, u, n) ==
    [lo \in Nat |->
        IF n = 1 THEN list[lo + 1]
        ELSE LET k == LargestPow2LessThan(n)
             IN HashInteriorNode(u[k][lo], u[n - k][lo + k])]

IsTreeUp(u, list, n) == u = [i \in 1..n |-> HashesOf(list, u, i)]

\* What a range has depends on shorter ranges alone.
LEMMA TreeShorter ==
    ASSUME NEW list, NEW n \in Nat \ {0}, NEW u, NEW v,
           \A i \in 1..(n - 1) : u[i] = v[i]
    PROVE  HashesOf(list, u, n) = HashesOf(list, v, n)
<1>1. CASE n = 1
  BY <1>1 DEF HashesOf
<1>2. CASE n # 1
  <2> DEFINE k == LargestPow2LessThan(n)
  <2>1. k \in Nat /\ 0 < k /\ k < n
    BY <1>2, SplitPoint
  <2>2. k \in 1..(n - 1) /\ n - k \in 1..(n - 1)
    <3> HIDE DEF k
    <3> QED BY <2>1
  <2>3. u[k] = v[k] /\ u[n - k] = v[n - k]
    <3> HIDE DEF k
    <3> QED BY <2>2
  <2> QED BY <1>2, <2>3 DEF HashesOf
<1> QED BY <1>1, <1>2

LEMMA TreeExists ==
    ASSUME NEW list, NEW n \in Nat PROVE \E u : IsTreeUp(u, list, n)
<1> DEFINE P == {i \in Nat : \E u : IsTreeUp(u, list, i)}
<1>1. 0 \in P
  <2>1. IsTreeUp([i \in 1..0 |-> 0], list, 0)
    BY DEF IsTreeUp
  <2> QED BY <2>1
<1>2. ASSUME NEW k \in Nat, k \in P PROVE k + 1 \in P
  <2>1. PICK v : IsTreeUp(v, list, k)
    BY <1>2
  <2> DEFINE u == [i \in 1..(k + 1) |-> IF i = k + 1 THEN HashesOf(list, v, k + 1) ELSE v[i]]
  <2>2. \A i \in 1..k : v[i] = HashesOf(list, v, i) /\ u[i] = v[i]
    BY <2>1 DEF IsTreeUp
  <2>3. u[k + 1] = HashesOf(list, v, k + 1)
    OBVIOUS
  <2>4. DOMAIN u = 1..(k + 1) /\ u = [i \in 1..(k + 1) |-> u[i]]
    OBVIOUS
  <2> HIDE DEF u
  <2>5. \A i \in 1..(k + 1) : HashesOf(list, u, i) = HashesOf(list, v, i)
    <3> SUFFICES ASSUME NEW i \in 1..(k + 1) PROVE HashesOf(list, u, i) = HashesOf(list, v, i)
      OBVIOUS
    <3>1. i \in Nat \ {0} /\ \A x \in 1..(i - 1) : u[x] = v[x]
      BY <2>2
    <3> QED BY <3>1, TreeShorter
  <2>6. \A i \in 1..(k + 1) : u[i] = HashesOf(list, u, i)
    <3> SUFFICES ASSUME NEW i \in 1..(k + 1) PROVE u[i] = HashesOf(list, v, i)
      BY <2>5
    <3>1. i \in 1..k \/ i = k + 1
      OBVIOUS
    <3> QED BY <2>2, <2>3, <3>1
  <2>7. IsTreeUp(u, list, k + 1)
    BY <2>4, <2>6 DEF IsTreeUp
  <2> QED BY <2>7
<1> HIDE DEF P
<1>3. Nat \subseteq P
  BY <1>1, <1>2, SetInduction
<1> QED BY <1>3 DEF P

LEMMA TreeUnique ==
    ASSUME NEW list, NEW m \in Nat, NEW n \in Nat, m <= n,
           NEW u, NEW v, IsTreeUp(u, list, m), IsTreeUp(v, list, n)
    PROVE  \A i \in 1..m : u[i] = v[i]
<1> DEFINE T == {i \in 1..m : u[i] # v[i]}
<1> SUFFICES ASSUME T # {} PROVE FALSE
  OBVIOUS
<1>1. T \in SUBSET Nat
  OBVIOUS
<1>2. PICK i \in T : \A j \in T : i <= j
  <2> HIDE DEF T
  <2> QED BY <1>1, LeastMember
<1>3. i \in Nat \ {0} /\ i \in 1..m /\ i \in 1..n /\ u[i] # v[i]
  OBVIOUS
<1>4. \A j \in 1..(i - 1) : u[j] = v[j]
  <2> SUFFICES ASSUME NEW j \in 1..(i - 1) PROVE j \in 1..m /\ j \notin T
    OBVIOUS
  <2>1. j \in 1..m /\ j \in Nat /\ ~(i <= j)
    BY <1>3
  <2> QED BY <1>2, <2>1
<1>5. u[i] = HashesOf(list, u, i) /\ v[i] = HashesOf(list, v, i)
  BY <1>3 DEF IsTreeUp
<1> HIDE DEF T
<1> QED BY <1>3, <1>4, <1>5, TreeShorter

LEMMA TreeRecursion ==
    ASSUME NEW list
    PROVE  \A n \in Nat \ {0} : Tree(list)[n] = HashesOf(list, Tree(list), n)
<1> DEFINE up(n) == CHOOSE u : IsTreeUp(u, list, n)
           w == [n \in Nat \ {0} |-> up(n)[n]]
           Solves(f) == f = [n \in Nat \ {0} |->
                            [lo \in Nat |->
                                IF n = 1 THEN list[lo + 1]
                                ELSE LET k == LargestPow2LessThan(n)
                                     IN HashInteriorNode(f[k][lo], f[n - k][lo + k])]]
<1>1. \A n \in Nat : IsTreeUp(up(n), list, n)
  BY TreeExists
<1> HIDE DEF up
<1>2. ASSUME NEW n \in Nat \ {0} PROVE w[n] = HashesOf(list, w, n)
  <2>1. n \in 1..n /\ IsTreeUp(up(n), list, n)
    BY <1>1
  <2>2. up(n)[n] = HashesOf(list, up(n), n)
    BY <2>1 DEF IsTreeUp
  <2>3. \A i \in 1..(n - 1) : up(n)[i] = w[i]
    <3> SUFFICES ASSUME NEW i \in 1..(n - 1) PROVE up(n)[i] = w[i]
      OBVIOUS
    <3>1. i \in Nat \ {0} /\ i <= n /\ i \in 1..i
      OBVIOUS
    <3>2. up(i)[i] = up(n)[i]
      BY <1>1, <3>1, TreeUnique
    <3> QED BY <3>1, <3>2
  <2> HIDE DEF w
  <2>4. HashesOf(list, up(n), n) = HashesOf(list, w, n)
    BY <2>3, TreeShorter
  <2>5. w[n] = up(n)[n]
    BY DEF w
  <2> QED BY <2>2, <2>4, <2>5
<1>3. w = [n \in Nat \ {0} |-> w[n]]
  OBVIOUS
<1> HIDE DEF w
<1>4. w = [n \in Nat \ {0} |-> HashesOf(list, w, n)]
  BY <1>2, <1>3
<1>5. Solves(w)
  BY <1>4 DEF HashesOf
<1> DEFINE t == CHOOSE f : Solves(f)
<1>6. Solves(t)
  <2> HIDE DEF Solves
  <2> QED BY <1>5
<1>7. Tree(list) = t
  BY DEF Tree
<1> HIDE DEF t
<1>8. t = [n \in Nat \ {0} |-> HashesOf(list, t, n)]
  BY <1>6 DEF HashesOf
<1> HIDE DEF Solves
<1>9. \A n \in Nat \ {0} : t[n] = HashesOf(list, t, n)
  BY <1>8
<1> QED BY <1>7, <1>9

-----------------------------------------------------------------------------
(* The audit paths inside ranges, likewise. *)

PathsOf(list, m, u, n) ==
    [lo \in Nat |->
        IF n = 1 THEN <<>>
        ELSE LET k == LargestPow2LessThan(n)
             IN IF m < lo + k
                THEN Append(u[k][lo], Mth(list, lo + k, lo + n))
                ELSE Append(u[n - k][lo + k], Mth(list, lo, lo + k))]

IsAuditUp(u, list, m, n) == u = [i \in 1..n |-> PathsOf(list, m, u, i)]

LEMMA AuditShorter ==
    ASSUME NEW list, NEW m, NEW n \in Nat \ {0}, NEW u, NEW v,
           \A i \in 1..(n - 1) : u[i] = v[i]
    PROVE  PathsOf(list, m, u, n) = PathsOf(list, m, v, n)
<1>1. CASE n = 1
  BY <1>1 DEF PathsOf
<1>2. CASE n # 1
  <2> DEFINE k == LargestPow2LessThan(n)
  <2>1. k \in Nat /\ 0 < k /\ k < n
    BY <1>2, SplitPoint
  <2>2. k \in 1..(n - 1) /\ n - k \in 1..(n - 1)
    <3> HIDE DEF k
    <3> QED BY <2>1
  <2>3. u[k] = v[k] /\ u[n - k] = v[n - k]
    <3> HIDE DEF k
    <3> QED BY <2>2
  <2> QED BY <1>2, <2>3 DEF PathsOf
<1> QED BY <1>1, <1>2

LEMMA AuditExists ==
    ASSUME NEW list, NEW m, NEW n \in Nat PROVE \E u : IsAuditUp(u, list, m, n)
<1> DEFINE P == {i \in Nat : \E u : IsAuditUp(u, list, m, i)}
<1>1. 0 \in P
  <2>1. IsAuditUp([i \in 1..0 |-> 0], list, m, 0)
    BY DEF IsAuditUp
  <2> QED BY <2>1
<1>2. ASSUME NEW k \in Nat, k \in P PROVE k + 1 \in P
  <2>1. PICK v : IsAuditUp(v, list, m, k)
    BY <1>2
  <2> DEFINE u == [i \in 1..(k + 1) |-> IF i = k + 1 THEN PathsOf(list, m, v, k + 1) ELSE v[i]]
  <2>2. \A i \in 1..k : v[i] = PathsOf(list, m, v, i) /\ u[i] = v[i]
    BY <2>1 DEF IsAuditUp
  <2>3. u[k + 1] = PathsOf(list, m, v, k + 1)
    OBVIOUS
  <2>4. DOMAIN u = 1..(k + 1) /\ u = [i \in 1..(k + 1) |-> u[i]]
    OBVIOUS
  <2> HIDE DEF u
  <2>5. \A i \in 1..(k + 1) : PathsOf(list, m, u, i) = PathsOf(list, m, v, i)
    <3> SUFFICES ASSUME NEW i \in 1..(k + 1) PROVE PathsOf(list, m, u, i) = PathsOf(list, m, v, i)
      OBVIOUS
    <3>1. i \in Nat \ {0} /\ \A x \in 1..(i - 1) : u[x] = v[x]
      BY <2>2
    <3> QED BY <3>1, AuditShorter
  <2>6. \A i \in 1..(k + 1) : u[i] = PathsOf(list, m, u, i)
    <3> SUFFICES ASSUME NEW i \in 1..(k + 1) PROVE u[i] = PathsOf(list, m, v, i)
      BY <2>5
    <3>1. i \in 1..k \/ i = k + 1
      OBVIOUS
    <3> QED BY <2>2, <2>3, <3>1
  <2>7. IsAuditUp(u, list, m, k + 1)
    BY <2>4, <2>6 DEF IsAuditUp
  <2> QED BY <2>7
<1> HIDE DEF P
<1>3. Nat \subseteq P
  BY <1>1, <1>2, SetInduction
<1> QED BY <1>3 DEF P

LEMMA AuditUnique ==
    ASSUME NEW list, NEW m, NEW p \in Nat, NEW n \in Nat, p <= n,
           NEW u, NEW v, IsAuditUp(u, list, m, p), IsAuditUp(v, list, m, n)
    PROVE  \A i \in 1..p : u[i] = v[i]
<1> DEFINE T == {i \in 1..p : u[i] # v[i]}
<1> SUFFICES ASSUME T # {} PROVE FALSE
  OBVIOUS
<1>1. T \in SUBSET Nat
  OBVIOUS
<1>2. PICK i \in T : \A j \in T : i <= j
  <2> HIDE DEF T
  <2> QED BY <1>1, LeastMember
<1>3. i \in Nat \ {0} /\ i \in 1..p /\ i \in 1..n /\ u[i] # v[i]
  OBVIOUS
<1>4. \A j \in 1..(i - 1) : u[j] = v[j]
  <2> SUFFICES ASSUME NEW j \in 1..(i - 1) PROVE j \in 1..p /\ j \notin T
    OBVIOUS
  <2>1. j \in 1..p /\ j \in Nat /\ ~(i <= j)
    BY <1>3
  <2> QED BY <1>2, <2>1
<1>5. u[i] = PathsOf(list, m, u, i) /\ v[i] = PathsOf(list, m, v, i)
  BY <1>3 DEF IsAuditUp
<1> HIDE DEF T
<1> QED BY <1>3, <1>4, <1>5, AuditShorter

LEMMA AuditRecursion ==
    ASSUME NEW list, NEW m
    PROVE  \A n \in Nat \ {0} : AuditPaths(list, m)[n] = PathsOf(list, m, AuditPaths(list, m), n)
<1> DEFINE up(n) == CHOOSE u : IsAuditUp(u, list, m, n)
           w == [n \in Nat \ {0} |-> up(n)[n]]
           Solves(f) == f = [n \in Nat \ {0} |->
                            [lo \in Nat |->
                                IF n = 1 THEN <<>>
                                ELSE LET k == LargestPow2LessThan(n)
                                     IN IF m < lo + k
                                        THEN Append(f[k][lo], Mth(list, lo + k, lo + n))
                                        ELSE Append(f[n - k][lo + k], Mth(list, lo, lo + k))]]
<1>1. \A n \in Nat : IsAuditUp(up(n), list, m, n)
  BY AuditExists
<1> HIDE DEF up
<1>2. ASSUME NEW n \in Nat \ {0} PROVE w[n] = PathsOf(list, m, w, n)
  <2>1. n \in 1..n /\ IsAuditUp(up(n), list, m, n)
    BY <1>1
  <2>2. up(n)[n] = PathsOf(list, m, up(n), n)
    BY <2>1 DEF IsAuditUp
  <2>3. \A i \in 1..(n - 1) : up(n)[i] = w[i]
    <3> SUFFICES ASSUME NEW i \in 1..(n - 1) PROVE up(n)[i] = w[i]
      OBVIOUS
    <3>1. i \in Nat \ {0} /\ i <= n /\ i \in 1..i
      OBVIOUS
    <3>2. up(i)[i] = up(n)[i]
      BY <1>1, <3>1, AuditUnique
    <3> QED BY <3>1, <3>2
  <2> HIDE DEF w
  <2>4. PathsOf(list, m, up(n), n) = PathsOf(list, m, w, n)
    BY <2>3, AuditShorter
  <2>5. w[n] = up(n)[n]
    BY DEF w
  <2> QED BY <2>2, <2>4, <2>5
<1>3. w = [n \in Nat \ {0} |-> w[n]]
  OBVIOUS
<1> HIDE DEF w
<1>4. w = [n \in Nat \ {0} |-> PathsOf(list, m, w, n)]
  BY <1>2, <1>3
<1>5. Solves(w)
  BY <1>4 DEF PathsOf
<1> DEFINE t == CHOOSE f : Solves(f)
<1>6. Solves(t)
  <2> HIDE DEF Solves
  <2> QED BY <1>5
<1>7. AuditPaths(list, m) = t
  BY DEF AuditPaths
<1> HIDE DEF t
<1>8. t = [n \in Nat \ {0} |-> PathsOf(list, m, t, n)]
  BY <1>6 DEF PathsOf
<1> HIDE DEF Solves
<1>9. \A n \in Nat \ {0} : t[n] = PathsOf(list, m, t, n)
  BY <1>8
<1> QED BY <1>7, <1>9

-----------------------------------------------------------------------------
(* A range of one leaf, and a longer one in terms of its two halves. *)

LEMMA OneLeaf ==
    ASSUME NEW list, NEW m, NEW lo \in Nat
    PROVE  Mth(list, lo, lo + 1) = list[lo + 1] /\ AuditPath(list, m, lo, lo + 1) = <<>>
<1>1. (lo + 1) - lo = 1 /\ 1 \in Nat \ {0}
  OBVIOUS
<1>2. Tree(list)[1] = HashesOf(list, Tree(list), 1)
  BY <1>1, TreeRecursion
<1>3. AuditPaths(list, m)[1] = PathsOf(list, m, AuditPaths(list, m), 1)
  BY <1>1, AuditRecursion
<1>4. HashesOf(list, Tree(list), 1)[lo] = list[lo + 1]
  BY DEF HashesOf
<1>5. PathsOf(list, m, AuditPaths(list, m), 1)[lo] = <<>>
  BY DEF PathsOf
<1> QED BY <1>1, <1>2, <1>3, <1>4, <1>5 DEF Mth, AuditPath

SplitsAt(lo, mid, hi) ==
    /\ lo \in Nat /\ mid \in Nat /\ hi \in Nat /\ hi - lo > 1
    /\ mid - lo = LargestPow2LessThan(hi - lo)

LEMMA HashOfHalves ==
    ASSUME NEW list, NEW lo, NEW mid, NEW hi, SplitsAt(lo, mid, hi)
    PROVE  Mth(list, lo, hi) = HashInteriorNode(Mth(list, lo, mid), Mth(list, mid, hi))
<1> DEFINE n == hi - lo
           k == LargestPow2LessThan(n)
           T == Tree(list)
<1>1. lo \in Nat /\ mid \in Nat /\ hi \in Nat /\ hi - lo > 1 /\ k = mid - lo
  BY DEF SplitsAt
<1>2. n \in Nat \ {0} /\ n # 1 /\ lo + k = mid /\ n - k = hi - mid
  BY <1>1
<1>3. T[n] = HashesOf(list, T, n)
  BY <1>2, TreeRecursion
<1>4. HashesOf(list, T, n)[lo] = HashInteriorNode(T[k][lo], T[n - k][lo + k])
  BY <1>1, <1>2 DEF HashesOf
<1> HIDE DEF n, k, T
<1>5. T[n][lo] = HashInteriorNode(T[mid - lo][lo], T[hi - mid][mid])
  BY <1>1, <1>2, <1>3, <1>4
<1> QED BY <1>5 DEF n, T, Mth

LEMMA PathInHalves ==
    ASSUME NEW list, NEW m, NEW lo, NEW mid, NEW hi, SplitsAt(lo, mid, hi)
    PROVE  AuditPath(list, m, lo, hi) =
              IF m < mid THEN Append(AuditPath(list, m, lo, mid), Mth(list, mid, hi))
                         ELSE Append(AuditPath(list, m, mid, hi), Mth(list, lo, mid))
<1> DEFINE n == hi - lo
           k == LargestPow2LessThan(n)
           A == AuditPaths(list, m)
<1>1. lo \in Nat /\ mid \in Nat /\ hi \in Nat /\ hi - lo > 1 /\ k = mid - lo
  BY DEF SplitsAt
<1>2. n \in Nat \ {0} /\ n # 1 /\ lo + k = mid /\ n - k = hi - mid /\ lo + n = hi
  BY <1>1
<1>3. A[n] = PathsOf(list, m, A, n)
  BY <1>2, AuditRecursion
<1>4. PathsOf(list, m, A, n)[lo] =
         IF m < lo + k THEN Append(A[k][lo], Mth(list, lo + k, lo + n))
                       ELSE Append(A[n - k][lo + k], Mth(list, lo, lo + k))
  BY <1>1, <1>2 DEF PathsOf
<1> HIDE DEF n, k, A
<1>5. A[n][lo] = IF m < mid THEN Append(A[mid - lo][lo], Mth(list, mid, hi))
                            ELSE Append(A[hi - mid][mid], Mth(list, lo, mid))
  BY <1>1, <1>2, <1>3, <1>4
<1> QED BY <1>5 DEF n, A, AuditPath

-----------------------------------------------------------------------------
(* The walk of a leaf to the root: at level j it stands at a node that covers *)
(* the leaves from Lo on, as many as Pow2[j] unless the tree ends before.     *)

Halving == [v \in Nat |-> v \div 2]
Walk(m) == CHOOSE f \in [Nat -> Nat] : IsIteration(f, m, Halving)

Lo(m, j)    == Walk(m)[j] * Pow2[j]
Hi(m, n, j) == IF Lo(m, j) + Pow2[j] < n THEN Lo(m, j) + Pow2[j] ELSE n

HashAt(list, m, n, j) == Mth(list, Lo(m, j), Hi(m, n, j))
PathAt(list, m, n, j) == AuditPath(list, m, Lo(m, j), Hi(m, n, j))

LEMMA WalkStep ==
    ASSUME NEW m \in Nat
    PROVE  /\ Walk(m)[0] = m
           /\ \A j \in Nat : Walk(m)[j] \in Nat /\ Walk(m)[j + 1] = Walk(m)[j] \div 2
<1>1. Halving \in [Nat -> Nat] /\ \A v \in Nat : Halving[v] = v \div 2
  BY DEF Halving
<1>2. \E f \in [Nat -> Nat] : IsIteration(f, m, Halving)
  BY <1>1, Iterates
<1>3. Walk(m) \in [Nat -> Nat] /\ IsIteration(Walk(m), m, Halving)
  BY <1>2 DEF Walk
<1> QED BY <1>1, <1>3 DEF IsIteration

LEMMA WalkCovers ==
    ASSUME NEW m \in Nat, NEW j \in Nat
    PROVE  Lo(m, j) \in Nat /\ Lo(m, j) <= m /\ m < Lo(m, j) + Pow2[j]
<1> DEFINE P == {i \in Nat : Lo(m, i) \in Nat /\ Lo(m, i) <= m /\ m < Lo(m, i) + Pow2[i]}
<1>1. 0 \in P
  <2>1. Walk(m)[0] = m /\ Pow2[0] = 1
    BY WalkStep, PowStep
  <2>2. Lo(m, 0) = m
    BY <2>1 DEF Lo
  <2> QED BY <2>1, <2>2
<1>2. ASSUME NEW i \in Nat, i \in P PROVE i + 1 \in P
  <2> DEFINE a == Walk(m)[i]
             q == Walk(m)[i + 1]
             p == Pow2[i]
             w == q * p
  <2>1. a \in Nat /\ q \in Nat /\ p \in Nat /\ q = a \div 2 /\ Pow2[i + 1] = 2 * p
    <3>1. p \in Nat /\ Pow2[i + 1] = 2 * p
      BY PowStep
    <3>2. a \in Nat /\ q = a \div 2 /\ i + 1 \in Nat
      BY WalkStep
    <3>3. q \in Nat
      BY <3>2, WalkStep
    <3> QED BY <3>1, <3>2, <3>3
  <2>2. a * p <= m /\ m < a * p + p
    BY <1>2 DEF Lo
  <2>3. Lo(m, i + 1) = q * Pow2[i + 1]
    BY DEF Lo
  <2> HIDE DEF a, q, p
  <2>4. a = 2 * q \/ a = 2 * q + 1
    BY <2>1
  <2>5. w \in Nat /\ q * (2 * p) = 2 * w /\ (2 * q) * p = 2 * w /\ (2 * q + 1) * p = 2 * w + p
    BY <2>1
  <2>6. a * p = 2 * w \/ a * p = 2 * w + p
    BY <2>4, <2>5
  <2> HIDE DEF w
  <2>7. 2 * w \in Nat /\ 2 * w <= m /\ m < 2 * w + 2 * p
    BY <2>1, <2>2, <2>5, <2>6
  <2> QED BY <2>1, <2>3, <2>5, <2>7
<1> HIDE DEF P
<1>3. Nat \subseteq P
  BY <1>1, <1>2, SetInduction
<1> QED BY <1>3 DEF P

LEMMA WalkOrder ==
    ASSUME NEW m \in Nat, NEW l \in Nat, m <= l, NEW j \in Nat
    PROVE  Walk(m)[j] <= Walk(l)[j]
<1> DEFINE P == {i \in Nat : Walk(m)[i] <= Walk(l)[i]}
<1>1. 0 \in P
  BY WalkStep
<1>2. ASSUME NEW i \in Nat, i \in P PROVE i + 1 \in P
  BY <1>2, WalkStep
<1> HIDE DEF P
<1>3. Nat \subseteq P
  BY <1>1, <1>2, SetInduction
<1> QED BY <1>3 DEF P

\* The bounds of a node, to the left of the last leaf's walk and on it.
LEMMA NodeBounds ==
    ASSUME NEW m \in Nat, NEW n \in Nat, m < n, NEW j \in Nat
    PROVE  LET lo == Lo(m, j)  hi == Hi(m, n, j)  a == Walk(m)[j]  b == Walk(n - 1)[j]
           IN  /\ lo \in Nat /\ hi \in Nat /\ lo <= m /\ m < hi /\ hi <= n /\ hi <= lo + Pow2[j]
               /\ a \in Nat /\ b \in Nat /\ a <= b
               /\ a < b => hi = lo + Pow2[j] /\ hi < n
               /\ a = b => hi = n
               /\ b = 0 => lo = 0 /\ hi = n
<1> DEFINE a == Walk(m)[j]
           b == Walk(n - 1)[j]
           p == Pow2[j]
           lo == Lo(m, j)
           hi == Hi(m, n, j)
<1>0. n - 1 \in Nat /\ m <= n - 1
  OBVIOUS
<1>1. a \in Nat /\ b \in Nat /\ a <= b /\ p \in Nat
  <2>1. a \in Nat
    BY WalkStep
  <2>2. b \in Nat
    BY <1>0, WalkStep
  <2>3. a <= b
    BY <1>0, WalkOrder
  <2> QED BY <2>1, <2>2, <2>3, PowStep
<1>2. /\ lo \in Nat /\ lo <= m /\ m < lo + p
      /\ Lo(n - 1, j) \in Nat /\ Lo(n - 1, j) <= n - 1 /\ n - 1 < Lo(n - 1, j) + p
  <2>1. lo \in Nat /\ lo <= m /\ m < lo + p
    BY WalkCovers
  <2>2. Lo(n - 1, j) \in Nat /\ Lo(n - 1, j) <= n - 1 /\ n - 1 < Lo(n - 1, j) + p
    BY <1>0, WalkCovers
  <2> QED BY <2>1, <2>2
<1>3. lo = a * p /\ Lo(n - 1, j) = b * p /\ hi = IF lo + p < n THEN lo + p ELSE n
  BY DEF Lo, Hi
<1> HIDE DEF a, b, p, lo, hi
<1>4. ASSUME a < b PROVE lo + p <= n - 1
  <2>1. (a + 1) * p = lo + p /\ (a + 1) * p \in Nat
    BY <1>1, <1>3
  <2>2. b - a - 1 \in Nat /\ b = (a + 1) + (b - a - 1)
    BY <1>1, <1>4
  <2>3. (b - a - 1) * p \in Nat /\ b * p = (a + 1) * p + (b - a - 1) * p
    BY <1>1, <2>2
  <2> QED BY <1>2, <1>3, <2>1, <2>3
<1>5. a = b => hi = n
  BY <1>1, <1>2, <1>3
<1>6. b = 0 => a = 0 /\ lo = 0
  <2>1. 0 * p = 0
    BY <1>1
  <2> QED BY <1>1, <1>3, <2>1
<1> QED BY <1>1, <1>2, <1>3, <1>4, <1>5, <1>6 DEF a, b, p, lo, hi

\* The hash of the other half of a node's parent.
Sibling(list, m, n, j) ==
    IF Walk(m)[j] % 2 = 1 THEN Mth(list, Lo(m, j + 1), Lo(m, j))
                          ELSE Mth(list, Hi(m, n, j), Hi(m, n, j + 1))

\* Where a node's parent begins.
LEMMA ParentBegins ==
    ASSUME NEW m \in Nat, NEW j \in Nat
    PROVE  /\ Lo(m, j) \in Nat /\ Lo(m, j + 1) \in Nat /\ Pow2[j] \in Nat \ {0}
           /\ Pow2[j + 1] = 2 * Pow2[j] /\ Walk(m)[j] \in Nat
           /\ Walk(m)[j] % 2 = 0 => Lo(m, j) = Lo(m, j + 1)
           /\ Walk(m)[j] % 2 = 1 => Lo(m, j) = Lo(m, j + 1) + Pow2[j]
<1> DEFINE a == Walk(m)[j]
           q == Walk(m)[j + 1]
           p == Pow2[j]
<1>1. a \in Nat /\ q = a \div 2
  BY WalkStep
<1>2. p \in Nat /\ p > 0 /\ Pow2[j + 1] = 2 * p
  BY PowStep, PowGrows
<1>3. Lo(m, j) = a * p /\ Lo(m, j + 1) = q * Pow2[j + 1]
  BY DEF Lo
<1> HIDE DEF a, q, p
<1>4. Lo(m, j) = a * p /\ Lo(m, j + 1) = q * (2 * p)
  BY <1>2, <1>3
<1>5. q \in Nat /\ (a % 2 = 0 => a = 2 * q) /\ (a % 2 = 1 => a = 2 * q + 1)
  BY <1>1
<1>6. q * (2 * p) = 2 * (q * p) /\ (2 * q) * p = 2 * (q * p)
      /\ (2 * q + 1) * p = 2 * (q * p) + p /\ q * p \in Nat /\ a * p \in Nat
  BY <1>1, <1>2, <1>5
<1>7. (a % 2 = 0 => a * p = q * (2 * p)) /\ (a % 2 = 1 => a * p = q * (2 * p) + p)
  BY <1>5, <1>6
<1>8. q * (2 * p) \in Nat
  BY <1>6
<1> QED BY <1>1, <1>2, <1>4, <1>6, <1>7, <1>8 DEF a, p

\* Where the leaf is in the right half of the parent.
LEMMA LeftSplit ==
    ASSUME NEW m \in Nat, NEW n \in Nat, m < n, NEW j \in Nat, Walk(m)[j] % 2 = 1
    PROVE  /\ SplitsAt(Lo(m, j + 1), Lo(m, j), Hi(m, n, j))
           /\ Hi(m, n, j + 1) = Hi(m, n, j)
<1> DEFINE lo == Lo(m, j + 1)
           mid == Lo(m, j)
           hi == Hi(m, n, j)
           p == Pow2[j]
<1>1. /\ lo \in Nat /\ mid \in Nat /\ p \in Nat \ {0} /\ mid = lo + p /\ Pow2[j + 1] = 2 * p
  BY ParentBegins
<1>2. hi \in Nat /\ mid <= m /\ m < hi /\ hi <= mid + p
  BY NodeBounds
<1>3. hi = IF mid + p < n THEN mid + p ELSE n
  BY DEF Hi
<1>4. Hi(m, n, j + 1) = IF lo + Pow2[j + 1] < n THEN lo + Pow2[j + 1] ELSE n
  BY DEF Hi
<1> HIDE DEF lo, mid, hi
<1>5. Hi(m, n, j + 1) = hi
  BY <1>1, <1>3, <1>4
<1>6. hi - lo \in Nat /\ hi - lo > 1 /\ p < hi - lo /\ hi - lo <= 2 * p
  BY <1>1, <1>2
<1>7. SplitsAt(lo, mid, hi)
  BY <1>1, <1>2, <1>6, SplitPoint DEF SplitsAt
<1> QED BY <1>5, <1>7 DEF lo, mid, hi

\* Where it is in the left half.
LEMMA RightSplit ==
    ASSUME NEW m \in Nat, NEW n \in Nat, m < n, NEW j \in Nat,
           Walk(m)[j] % 2 = 0, Walk(m)[j] < Walk(n - 1)[j]
    PROVE  /\ SplitsAt(Lo(m, j), Hi(m, n, j), Hi(m, n, j + 1))
           /\ Lo(m, j + 1) = Lo(m, j) /\ Hi(m, n, j) < Hi(m, n, j + 1)
<1> DEFINE lo == Lo(m, j)
           mid == Hi(m, n, j)
           hi == Hi(m, n, j + 1)
           p == Pow2[j]
<1>1. /\ lo \in Nat /\ p \in Nat \ {0} /\ Lo(m, j + 1) = lo /\ Pow2[j + 1] = 2 * p
  BY ParentBegins
<1>2. mid \in Nat /\ m < mid /\ mid = lo + p /\ mid < n
  <2>1. mid \in Nat /\ m < mid
    BY NodeBounds
  <2>2. mid < n
    BY NodeBounds
  <2>3. mid = IF lo + p < n THEN lo + p ELSE n
    BY DEF Hi
  <2> HIDE DEF lo, mid, p
  <2> QED BY <1>1, <2>1, <2>2, <2>3
<1>3. hi = IF lo + Pow2[j + 1] < n THEN lo + Pow2[j + 1] ELSE n
  BY <1>1 DEF Hi
<1> HIDE DEF lo, mid, hi
<1>4. hi \in Nat /\ mid < hi /\ hi <= lo + 2 * p
  BY <1>1, <1>2, <1>3
<1>5. hi - lo \in Nat /\ hi - lo > 1 /\ p < hi - lo /\ hi - lo <= 2 * p /\ mid - lo = p
  BY <1>1, <1>2, <1>4
<1>6. SplitsAt(lo, mid, hi)
  BY <1>1, <1>2, <1>4, <1>5, SplitPoint DEF SplitsAt
<1> QED BY <1>1, <1>4, <1>6 DEF lo, mid, hi

\* From the right half to the whole.
LEMMA LeftParent ==
    ASSUME NEW list, NEW m \in Nat, NEW n \in Nat, m < n, NEW j \in Nat, Walk(m)[j] % 2 = 1
    PROVE  /\ HashAt(list, m, n, j + 1) = HashInteriorNode(Sibling(list, m, n, j), HashAt(list, m, n, j))
           /\ PathAt(list, m, n, j + 1) = Append(PathAt(list, m, n, j), Sibling(list, m, n, j))
<1> DEFINE lo == Lo(m, j + 1)
           mid == Lo(m, j)
           hi == Hi(m, n, j)
<1>1. SplitsAt(lo, mid, hi) /\ Hi(m, n, j + 1) = hi
  BY LeftSplit
<1>2. mid \in Nat /\ mid <= m
  BY NodeBounds
<1>3. Sibling(list, m, n, j) = Mth(list, lo, mid)
  BY DEF Sibling
<1>4. /\ HashAt(list, m, n, j + 1) = Mth(list, lo, hi) /\ HashAt(list, m, n, j) = Mth(list, mid, hi)
      /\ PathAt(list, m, n, j + 1) = AuditPath(list, m, lo, hi)
      /\ PathAt(list, m, n, j) = AuditPath(list, m, mid, hi)
  BY <1>1 DEF HashAt, PathAt
<1> HIDE DEF lo, mid, hi
<1>5. Mth(list, lo, hi) = HashInteriorNode(Mth(list, lo, mid), Mth(list, mid, hi))
  BY <1>1, HashOfHalves
<1>6. AuditPath(list, m, lo, hi) = Append(AuditPath(list, m, mid, hi), Mth(list, lo, mid))
  <2>1. ~(m < mid)
    BY <1>2
  <2> QED BY <1>1, <2>1, PathInHalves
<1> QED BY <1>3, <1>4, <1>5, <1>6

\* From the left half to the whole.
LEMMA RightParent ==
    ASSUME NEW list, NEW m \in Nat, NEW n \in Nat, m < n, NEW j \in Nat,
           Walk(m)[j] % 2 = 0, Walk(m)[j] < Walk(n - 1)[j]
    PROVE  /\ HashAt(list, m, n, j + 1) = HashInteriorNode(HashAt(list, m, n, j), Sibling(list, m, n, j))
           /\ PathAt(list, m, n, j + 1) = Append(PathAt(list, m, n, j), Sibling(list, m, n, j))
<1> DEFINE lo == Lo(m, j)
           mid == Hi(m, n, j)
           hi == Hi(m, n, j + 1)
<1>1. SplitsAt(lo, mid, hi) /\ Lo(m, j + 1) = lo
  BY RightSplit
<1>2. m < mid
  BY NodeBounds
<1>3. Sibling(list, m, n, j) = Mth(list, mid, hi)
  BY DEF Sibling
<1>4. /\ HashAt(list, m, n, j + 1) = Mth(list, lo, hi) /\ HashAt(list, m, n, j) = Mth(list, lo, mid)
      /\ PathAt(list, m, n, j + 1) = AuditPath(list, m, lo, hi)
      /\ PathAt(list, m, n, j) = AuditPath(list, m, lo, mid)
  BY <1>1 DEF HashAt, PathAt
<1> HIDE DEF lo, mid, hi
<1>5. Mth(list, lo, hi) = HashInteriorNode(Mth(list, lo, mid), Mth(list, mid, hi))
  BY <1>1, HashOfHalves
<1>6. AuditPath(list, m, lo, hi) = Append(AuditPath(list, m, lo, mid), Mth(list, mid, hi))
  BY <1>1, <1>2, PathInHalves
<1> QED BY <1>3, <1>4, <1>5, <1>6

\* The parent of a node on the right edge that has no sibling is on it too.
LEMMA EdgeStays ==
    ASSUME NEW m \in Nat, NEW n \in Nat, m < n, NEW j \in Nat, Walk(m)[j] = Walk(n - 1)[j]
    PROVE  Hi(m, n, j) = n /\ Hi(m, n, j + 1) = n
<1>1. Walk(m)[j + 1] = Walk(n - 1)[j + 1]
  <2>1. n - 1 \in Nat
    OBVIOUS
  <2>2. Walk(n - 1)[j + 1] = Walk(n - 1)[j] \div 2
    BY <2>1, WalkStep
  <2>3. Walk(m)[j + 1] = Walk(m)[j] \div 2
    BY WalkStep
  <2> QED BY <2>2, <2>3
<1>2. Hi(m, n, j) = n
  BY NodeBounds
<1>3. Hi(m, n, j + 1) = n
  BY <1>1, j + 1 \in Nat, NodeBounds
<1> QED BY <1>2, <1>3

\* On the right edge of the tree a node without a sibling is its own parent.
LEMMA SameNode ==
    ASSUME NEW list, NEW m \in Nat, NEW n \in Nat, m < n, NEW j \in Nat,
           Walk(m)[j] % 2 = 0, Walk(m)[j] = Walk(n - 1)[j]
    PROVE  /\ HashAt(list, m, n, j + 1) = HashAt(list, m, n, j)
           /\ PathAt(list, m, n, j + 1) = PathAt(list, m, n, j)
<1>1. Lo(m, j + 1) = Lo(m, j)
  BY ParentBegins
<1>2. Hi(m, n, j) = n /\ Hi(m, n, j + 1) = n
  BY EdgeStays
<1> QED BY <1>1, <1>2 DEF HashAt, PathAt

-----------------------------------------------------------------------------
(* From the leaf to the root. *)

Hashes(list) == {Mth(list, a, b) : a \in Nat, b \in Nat}

Begins(s, t) == Len(s) <= Len(t) /\ \A i \in 1..Len(s) : t[i] = s[i]

LEMMA AtTheLeaf ==
    ASSUME NEW list, NEW m \in Nat, NEW n \in Nat, m < n
    PROVE  HashAt(list, m, n, 0) = list[m + 1] /\ PathAt(list, m, n, 0) = <<>>
<1>1. Walk(m)[0] = m /\ Pow2[0] = 1
  BY WalkStep, PowStep
<1>2. Lo(m, 0) = m
  BY <1>1 DEF Lo
<1>3. Hi(m, n, 0) = m + 1
  BY <1>1, <1>2 DEF Hi
<1>4. HashAt(list, m, n, 0) = Mth(list, m, m + 1) /\ PathAt(list, m, n, 0) = AuditPath(list, m, m, m + 1)
  BY <1>2, <1>3 DEF HashAt, PathAt
<1>5. Mth(list, m, m + 1) = list[m + 1] /\ AuditPath(list, m, m, m + 1) = <<>>
  BY OneLeaf
<1> QED BY <1>4, <1>5

LEMMA AtTheRoot ==
    ASSUME NEW list, NEW m \in Nat, NEW n \in Nat, m < n, NEW j \in Nat, Walk(n - 1)[j] = 0
    PROVE  /\ HashAt(list, m, n, j) = Mth(list, 0, n)
           /\ PathAt(list, m, n, j) = AuditPath(list, m, 0, n)
<1>1. Lo(m, j) = 0 /\ Hi(m, n, j) = n
  BY NodeBounds
<1> QED BY <1>1 DEF HashAt, PathAt

LEMMA SiblingType ==
    ASSUME NEW list, NEW m \in Nat, NEW n \in Nat, m < n, NEW j \in Nat
    PROVE  Sibling(list, m, n, j) \in Hashes(list)
<1>1. Lo(m, j) \in Nat /\ Lo(m, j + 1) \in Nat
  BY ParentBegins
<1>2. Hi(m, n, j) \in Nat
  BY NodeBounds
<1>3. j + 1 \in Nat
  OBVIOUS
<1>4. Hi(m, n, j + 1) \in Nat
  BY <1>3, NodeBounds
<1> QED BY <1>1, <1>2, <1>4 DEF Sibling, Hashes

\* One level up the path is the same, or longer by the sibling.
LEMMA OneLevelUp ==
    ASSUME NEW list, NEW m \in Nat, NEW n \in Nat, m < n, NEW j \in Nat
    PROVE  \/ PathAt(list, m, n, j + 1) = PathAt(list, m, n, j)
           \/ PathAt(list, m, n, j + 1) = Append(PathAt(list, m, n, j), Sibling(list, m, n, j))
<1> DEFINE a == Walk(m)[j]
           b == Walk(n - 1)[j]
<1>1. a \in Nat /\ b \in Nat /\ a <= b
  BY NodeBounds
<1>2. CASE a % 2 = 1
  BY <1>2, LeftParent
<1>3. CASE a % 2 = 0 /\ a < b
  BY <1>3, RightParent
<1>4. CASE a % 2 = 0 /\ a = b
  BY <1>4, SameNode
<1> HIDE DEF a, b
<1>5. a % 2 = 1 \/ (a % 2 = 0 /\ a < b) \/ (a % 2 = 0 /\ a = b)
  BY <1>1
<1> QED BY <1>2, <1>3, <1>4, <1>5

LEMMA PathType ==
    ASSUME NEW list, NEW m \in Nat, NEW n \in Nat, m < n
    PROVE  \A j \in Nat : PathAt(list, m, n, j) \in Seq(Hashes(list))
<1> DEFINE P == {j \in Nat : PathAt(list, m, n, j) \in Seq(Hashes(list))}
<1>1. 0 \in P
  <2>1. PathAt(list, m, n, 0) = <<>>
    BY AtTheLeaf
  <2>2. \A S : <<>> \in Seq(S)
    OBVIOUS
  <2>3. PathAt(list, m, n, 0) \in Seq(Hashes(list))
    BY <2>1, <2>2
  <2> QED BY <2>3
<1>2. ASSUME NEW j \in Nat, j \in P PROVE j + 1 \in P
  <2>1. /\ PathAt(list, m, n, j) \in Seq(Hashes(list))
        /\ Sibling(list, m, n, j) \in Hashes(list)
    BY <1>2, SiblingType
  <2>2. \/ PathAt(list, m, n, j + 1) = PathAt(list, m, n, j)
        \/ PathAt(list, m, n, j + 1) = Append(PathAt(list, m, n, j), Sibling(list, m, n, j))
    BY OneLevelUp
  <2>3. PathAt(list, m, n, j + 1) \in Seq(Hashes(list))
    BY <2>1, <2>2
  <2> QED BY <2>3
<1> HIDE DEF P
<1>3. Nat \subseteq P
  BY <1>1, <1>2, SetInduction
<1> QED BY <1>3 DEF P

LEMMA PathGrows ==
    ASSUME NEW list, NEW m \in Nat, NEW n \in Nat, m < n, NEW j \in Nat
    PROVE  Begins(PathAt(list, m, n, j), PathAt(list, m, n, j + 1))
<1> DEFINE s == PathAt(list, m, n, j)
           t == PathAt(list, m, n, j + 1)
           x == Sibling(list, m, n, j)
<1>1. s \in Seq(Hashes(list)) /\ x \in Hashes(list)
  BY PathType, SiblingType
<1>2. t = s \/ t = Append(s, x)
  BY OneLevelUp
<1> HIDE DEF s, t, x
<1>3. Begins(s, t)
  BY <1>1, <1>2 DEF Begins
<1> QED BY <1>3 DEF s, t

\* A walk ends at the root: long before n halvings.
LEMMA WalkEnds ==
    ASSUME NEW n \in Nat, n > 0, NEW j \in Nat PROVE Walk(n - 1)[j + n] = 0
<1> DEFINE b == Walk(n - 1)[j + n]
           q == Pow2[j + n]
<1>1. n - 1 \in Nat /\ j + n \in Nat
  OBVIOUS
<1>2. b \in Nat /\ b * q <= n - 1
  BY <1>1, WalkStep, WalkCovers DEF Lo
<1>3. q \in Nat /\ j + n < q
  BY <1>1, PowGrows
<1> HIDE DEF b, q
<1>4. b # 0 => b * q >= q
  <2>1. b # 0 => b * q = q + (b - 1) * q /\ (b - 1) * q \in Nat
    BY <1>2, <1>3
  <2> QED BY <1>3, <2>1
<1>5. b = 0
  BY <1>2, <1>3, <1>4
<1> QED BY <1>5 DEF b

\* The path inside a node is the beginning of the whole audit path.
LEMMA PathBeginsWhole ==
    ASSUME NEW list, NEW m \in Nat, NEW n \in Nat, m < n, NEW j \in Nat
    PROVE  /\ Begins(PathAt(list, m, n, j), AuditPath(list, m, 0, n))
           /\ AuditPath(list, m, 0, n) \in Seq(Hashes(list))
<1> DEFINE p(i) == PathAt(list, m, n, i)
           P == {d \in Nat : Begins(p(j), p(j + d))}
<1>1. \A i \in Nat : p(i) \in Seq(Hashes(list)) /\ Len(p(i)) \in Nat
  BY PathType
<1>2. \A i \in Nat : Begins(p(i), p(i + 1))
  BY PathGrows
<1> HIDE DEF p
<1>3. 0 \in P
  <2>1. j + 0 = j
    OBVIOUS
  <2> QED BY <1>1, <2>1 DEF Begins
<1>4. ASSUME NEW d \in Nat, d \in P PROVE d + 1 \in P
  <2>1. Begins(p(j), p(j + d)) /\ Begins(p(j + d), p((j + d) + 1))
    BY <1>2, <1>4
  <2>2. Begins(p(j), p((j + d) + 1))
    <3>1. Len(p(j)) \in Nat /\ Len(p(j + d)) \in Nat /\ Len(p((j + d) + 1)) \in Nat
      BY <1>1
    <3> QED BY <2>1, <3>1 DEF Begins
  <2>3. (j + d) + 1 = j + (d + 1)
    OBVIOUS
  <2> QED BY <2>2, <2>3
<1>5. n \in P
  <2> HIDE DEF P
  <2>1. Nat \subseteq P
    BY <1>3, <1>4, SetInduction
  <2> QED BY <2>1
<1>6. Walk(n - 1)[j + n] = 0
  BY WalkEnds
<1>7. p(j + n) = AuditPath(list, m, 0, n)
  BY <1>6, AtTheRoot, j + n \in Nat DEF p
<1> QED BY <1>1, <1>5, <1>7 DEF p

-----------------------------------------------------------------------------
(* verifyInclusion. *)

\* The walks stand at level j.  Were r the hash of the node there, then the leaf
\* is the one claimed and the path taken its audit path in that node; and the log's
\* own proof has led to just that.
Reached(j) ==
    /\ fn = Walk(call.index)[j] /\ sn = Walk(call.size - 1)[j]
    /\ r = HashAt(D, call.index, call.size, j) =>
          call.leaf = D[call.index + 1] /\ path = PathAt(D, call.index, call.size, j)
    /\ call.prover = "log" /\ call.leaf = D[call.index + 1] =>
          r = HashAt(D, call.index, call.size, j) /\ path = PathAt(D, call.index, call.size, j)

IInv ==
    /\ call.size \in Nat /\ call.index \in Int
    /\ phase \in {"start", "climb", "accepted", "rejected"}
    /\ phase = "start" => path = <<>> /\ r = call.leaf
    /\ phase = "climb" => InRange /\ \E j \in Nat : Reached(j)
    /\ MembershipDecided

LEMMA InitIInv == InclusionInit => IInv
<1> SUFFICES ASSUME InclusionInit PROVE IInv
  OBVIOUS
<1>1. PICK who \in Provers : \E n \in 0..MaxSize[who] : \E i \in -1..n :
          \E leaf \in Subtrees(Leaves(n)) \cup {HashLeafNode(0)} :
             call = [prover |-> who, leaf |-> leaf, index |-> i, size |-> n]
  BY DEF InclusionInit
<1>2. PICK n \in 0..MaxSize[who] : \E i \in -1..n :
          \E leaf \in Subtrees(Leaves(n)) \cup {HashLeafNode(0)} :
             call = [prover |-> who, leaf |-> leaf, index |-> i, size |-> n]
  BY <1>1
<1>3. call.size \in Nat /\ call.index \in Int
  BY <1>2
<1> QED BY <1>3 DEF InclusionInit, IInv, MembershipDecided, MemberAccepted, OnlyMemberAccepted

\* A step that leaves the call and only ends it as it should, keeps the invariant.
LEMMA EndKeeps ==
    ASSUME IInv, UNCHANGED call, phase' \in {"accepted", "rejected"}, MembershipDecided'
    PROVE  IInv'
BY DEF IInv

LEMMA OutOfRangeKeeps == ASSUME IInv, OutOfRange PROVE IInv'
<1>1. UNCHANGED call /\ phase' = "rejected" /\ ~InRange
  BY DEF OutOfRange, Return
<1>2. MembershipDecided'
  BY <1>1 DEF MembershipDecided, MemberAccepted, OnlyMemberAccepted, InRange
<1> QED BY <1>1, <1>2, EndKeeps

LEMMA EnterKeeps == ASSUME IInv, Enter PROVE IInv'
<1>1. /\ phase = "start" /\ InRange /\ fn' = call.index /\ sn' = call.size - 1
      /\ phase' = "climb" /\ UNCHANGED <<call, path, r>>
  BY DEF Enter
<1>2. call.index \in Nat /\ call.size \in Nat /\ call.index < call.size /\ call.size - 1 \in Nat
  BY <1>1 DEF IInv, InRange
<1>3. Walk(call.index)[0] = call.index /\ Walk(call.size - 1)[0] = call.size - 1
  BY <1>2, WalkStep
<1>4. /\ HashAt(D, call.index, call.size, 0) = D[call.index + 1]
      /\ PathAt(D, call.index, call.size, 0) = <<>>
  BY <1>2, AtTheLeaf
<1>5. path = <<>> /\ r = call.leaf
  BY <1>1 DEF IInv
<1>6. Reached(0)'
  BY <1>1, <1>3, <1>4, <1>5 DEF Reached, D
<1>7. MembershipDecided'
  BY <1>1 DEF MembershipDecided, MemberAccepted, OnlyMemberAccepted
<1> QED BY <1>1, <1>6, <1>7 DEF IInv, InRange

\* While the verifier climbs.
LEMMA ClimbFacts ==
    ASSUME IInv, phase = "climb"
    PROVE  /\ call.index \in Nat /\ call.size \in Nat /\ call.index < call.size
           /\ InRange /\ \E j \in Nat : Reached(j)
BY DEF IInv, InRange

\* One level up.
LEMMA ClimbKeeps ==
    ASSUME IInv, phase = "climb", NEW j \in Nat, Reached(j + 1)',
           UNCHANGED <<call, phase>>
    PROVE  IInv'
<1>1. InRange' /\ \E i \in Nat : Reached(i)'
  <2>1. j + 1 \in Nat
    OBVIOUS
  <2> QED BY <2>1, ClimbFacts DEF InRange
<1>2. MembershipDecided'
  BY DEF MembershipDecided, MemberAccepted, OnlyMemberAccepted
<1> QED BY <1>1, <1>2 DEF IInv

LEMMA HalvedWalks ==
    ASSUME IInv, phase = "climb", Halve, UNCHANGED call, NEW j \in Nat, Reached(j)
    PROVE  /\ fn' = Walk(call.index)[j + 1] /\ sn' = Walk(call.size - 1)[j + 1]
           /\ fn = Walk(call.index)[j] /\ sn = Walk(call.size - 1)[j]
           /\ fn \in Nat /\ sn \in Nat /\ fn <= sn
<1>1. call.index \in Nat /\ call.size \in Nat /\ call.index < call.size /\ call.size - 1 \in Nat
  BY ClimbFacts
<1>2. fn = Walk(call.index)[j] /\ sn = Walk(call.size - 1)[j]
  BY DEF Reached
<1>3. fn \in Nat /\ sn \in Nat /\ fn <= sn
  BY <1>1, <1>2, NodeBounds
<1>4. fn' = Walk(call.index)[j + 1]
  BY <1>1, <1>2, WalkStep DEF Halve
<1>5. sn' = Walk(call.size - 1)[j + 1]
  BY <1>1, <1>2, WalkStep DEF Halve
<1> QED BY <1>2, <1>3, <1>4, <1>5

\* What the log offers is the sibling, when there is one to come.
LEMMA LogOffersSibling ==
    ASSUME IInv, phase = "climb", call.prover = "log", NEW j \in Nat,
           path = PathAt(D, call.index, call.size, j),
           PathAt(D, call.index, call.size, j + 1) =
              Append(path, Sibling(D, call.index, call.size, j))
    PROVE  /\ Offered = {Sibling(D, call.index, call.size, j)}
           /\ ~NoneLeft
<1> DEFINE x == Sibling(D, call.index, call.size, j)
           H == Hashes(D)
<1>1. call.index \in Nat /\ call.size \in Nat /\ call.index < call.size
  BY ClimbFacts
<1>2. path \in Seq(H) /\ x \in H
  BY <1>1, PathType, SiblingType
<1>3. Begins(Append(path, x), TruePath) /\ TruePath \in Seq(H)
  <2>1. j + 1 \in Nat
    OBVIOUS
  <2> QED BY <1>1, <2>1, PathBeginsWhole DEF TruePath
<1> HIDE DEF x, H
<1>4. Len(Append(path, x)) = Len(path) + 1 /\ Append(path, x)[Len(path) + 1] = x
      /\ Len(path) \in Nat /\ Len(TruePath) \in Nat
  BY <1>2, <1>3
<1>5. Len(path) < Len(TruePath) /\ TruePath[Len(path) + 1] = x
  BY <1>3, <1>4 DEF Begins
<1>6. Offered = {x}
  BY <1>5 DEF Offered
<1> QED BY <1>4, <1>5, <1>6 DEF NoneLeft, x

LEMMA LeftSiblingKeeps == ASSUME IInv, LeftSibling PROVE IInv'
<1>1. phase = "climb" /\ sn > 0 /\ fn % 2 = 1 /\ Halve /\ UNCHANGED <<call, phase>>
  BY DEF LeftSibling, IsOdd
<1>2. PICK h \in Offered : path' = Append(path, h) /\ r' = HashInteriorNode(h, r)
  BY DEF LeftSibling
<1>3. PICK j \in Nat : Reached(j)
  BY <1>1, ClimbFacts
<1> DEFINE x == Sibling(D, call.index, call.size, j)
           c == HashAt(D, call.index, call.size, j)
           c2 == HashAt(D, call.index, call.size, j + 1)
           p == PathAt(D, call.index, call.size, j)
           p2 == PathAt(D, call.index, call.size, j + 1)
<1>4. /\ fn' = Walk(call.index)[j + 1] /\ sn' = Walk(call.size - 1)[j + 1]
      /\ fn = Walk(call.index)[j]
  BY <1>1, <1>3, HalvedWalks
<1>5. c2 = HashInteriorNode(x, c) /\ p2 = Append(p, x)
  BY <1>1, <1>4, ClimbFacts, LeftParent
<1>6. call.prover = "log" /\ path = p => h = x
  BY <1>1, <1>2, <1>3, <1>5, LogOffersSibling
<1>7. /\ r = c => call.leaf = D[call.index + 1] /\ path = p
      /\ call.prover = "log" /\ call.leaf = D[call.index + 1] => r = c /\ path = p
  BY <1>3 DEF Reached
<1> HIDE DEF x, c, c2, p, p2
<1>8. r' = c2 => h = x /\ r = c
  BY <1>2, <1>5 DEF HashInteriorNode
<1>9. /\ r' = c2 => call.leaf = D[call.index + 1] /\ path' = p2
      /\ call.prover = "log" /\ call.leaf = D[call.index + 1] => r' = c2 /\ path' = p2
  BY <1>2, <1>5, <1>6, <1>7, <1>8
<1>10. Reached(j + 1)'
  BY <1>1, <1>4, <1>9 DEF Reached, D, c2, p2
<1> QED BY <1>1, <1>10, ClimbKeeps

LEMMA RightSiblingKeeps == ASSUME IInv, RightSibling PROVE IInv'
<1>1. phase = "climb" /\ sn > 0 /\ fn % 2 # 1 /\ fn < sn /\ Halve /\ UNCHANGED <<call, phase>>
  BY DEF RightSibling, IsOdd
<1>2. PICK h \in Offered : path' = Append(path, h) /\ r' = HashInteriorNode(r, h)
  BY DEF RightSibling
<1>3. PICK j \in Nat : Reached(j)
  BY <1>1, ClimbFacts
<1> DEFINE x == Sibling(D, call.index, call.size, j)
           c == HashAt(D, call.index, call.size, j)
           c2 == HashAt(D, call.index, call.size, j + 1)
           p == PathAt(D, call.index, call.size, j)
           p2 == PathAt(D, call.index, call.size, j + 1)
<1>4. /\ fn' = Walk(call.index)[j + 1] /\ sn' = Walk(call.size - 1)[j + 1]
      /\ fn = Walk(call.index)[j] /\ sn = Walk(call.size - 1)[j] /\ fn \in Nat
  BY <1>1, <1>3, HalvedWalks
<1>5. c2 = HashInteriorNode(c, x) /\ p2 = Append(p, x)
  <2>1. fn % 2 = 0
    BY <1>1, <1>4
  <2> QED BY <1>1, <1>4, <2>1, ClimbFacts, RightParent
<1>6. call.prover = "log" /\ path = p => h = x
  BY <1>1, <1>2, <1>3, <1>5, LogOffersSibling
<1>7. /\ r = c => call.leaf = D[call.index + 1] /\ path = p
      /\ call.prover = "log" /\ call.leaf = D[call.index + 1] => r = c /\ path = p
  BY <1>3 DEF Reached
<1> HIDE DEF x, c, c2, p, p2
<1>8. r' = c2 => h = x /\ r = c
  BY <1>2, <1>5 DEF HashInteriorNode
<1>9. /\ r' = c2 => call.leaf = D[call.index + 1] /\ path' = p2
      /\ call.prover = "log" /\ call.leaf = D[call.index + 1] => r' = c2 /\ path' = p2
  BY <1>2, <1>5, <1>6, <1>7, <1>8
<1>10. Reached(j + 1)'
  BY <1>1, <1>4, <1>9 DEF Reached, D, c2, p2
<1> QED BY <1>1, <1>10, ClimbKeeps

LEMMA NoSiblingKeeps == ASSUME IInv, NoSibling PROVE IInv'
<1>1. phase = "climb" /\ fn % 2 # 1 /\ fn >= sn /\ Halve /\ UNCHANGED <<call, phase, path, r>>
  BY DEF NoSibling, IsOdd
<1>2. PICK j \in Nat : Reached(j)
  BY <1>1, ClimbFacts
<1>3. /\ fn' = Walk(call.index)[j + 1] /\ sn' = Walk(call.size - 1)[j + 1]
      /\ fn = Walk(call.index)[j] /\ sn = Walk(call.size - 1)[j]
      /\ fn \in Nat /\ sn \in Nat /\ fn <= sn
  BY <1>1, <1>2, HalvedWalks
<1>4. fn % 2 = 0 /\ fn = sn
  BY <1>1, <1>3
<1>5. /\ HashAt(D, call.index, call.size, j + 1) = HashAt(D, call.index, call.size, j)
      /\ PathAt(D, call.index, call.size, j + 1) = PathAt(D, call.index, call.size, j)
  <2>1. Walk(call.index)[j] % 2 = 0 /\ Walk(call.index)[j] = Walk(call.size - 1)[j]
    BY <1>3, <1>4
  <2>2. call.index \in Nat /\ call.size \in Nat /\ call.index < call.size
    BY <1>1, ClimbFacts
  <2> QED BY <1>2, <2>1, <2>2, SameNode
<1>6. Reached(j + 1)'
  BY <1>1, <1>2, <1>3, <1>5 DEF Reached, D
<1> QED BY <1>1, <1>6, ClimbKeeps

\* Only a proof that is no log's runs out.
LEMMA RunOutKeeps == ASSUME IInv, RunOut PROVE IInv'
<1>1. /\ phase = "climb" /\ sn > 0 /\ (fn % 2 = 1 \/ fn < sn) /\ NoneLeft
      /\ phase' = "rejected" /\ UNCHANGED <<call, path, fn, sn, r>>
  BY DEF RunOut, Return, IsOdd
<1>2. PICK j \in Nat : Reached(j)
  BY <1>1, ClimbFacts
<1>3. call.prover = "log" => call.leaf # D[call.index + 1]
  <2> SUFFICES ASSUME call.prover = "log", call.leaf = D[call.index + 1] PROVE FALSE
    OBVIOUS
  <2>1. path = PathAt(D, call.index, call.size, j)
    BY <1>2 DEF Reached
  <2>2. fn = Walk(call.index)[j] /\ sn = Walk(call.size - 1)[j]
    BY <1>2 DEF Reached
  <2>3. fn \in Nat
    BY <1>1, <2>2, ClimbFacts, WalkStep
  <2>4. PathAt(D, call.index, call.size, j + 1) =
           Append(path, Sibling(D, call.index, call.size, j))
    <3>1. CASE fn % 2 = 1
      BY <1>1, <2>1, <2>2, <3>1, ClimbFacts, LeftParent
    <3>2. CASE fn % 2 = 0
      <4>1. fn < sn
        BY <1>1, <3>2
      <4> QED BY <1>1, <2>1, <2>2, <3>2, <4>1, ClimbFacts, RightParent
    <3> QED BY <2>3, <3>1, <3>2
  <2> QED BY <1>1, <2>1, <2>4, LogOffersSibling
<1>4. MembershipDecided'
  BY <1>1, <1>3 DEF MembershipDecided, MemberAccepted, OnlyMemberAccepted, D
<1> QED BY <1>1, <1>4, EndKeeps

LEMMA CompareKeeps == ASSUME IInv, Compare PROVE IInv'
<1>1. phase = "climb" /\ sn = 0 /\ UNCHANGED <<call, fn, sn, r>>
  BY DEF Compare, Return
<1>2. PICK j \in Nat : Reached(j)
  BY <1>1, ClimbFacts
<1>3. call.index \in Nat /\ call.size \in Nat /\ call.index < call.size /\ InRange
  BY <1>1, ClimbFacts
<1>4. /\ HashAt(D, call.index, call.size, j) = Mth(D, 0, call.size)
      /\ PathAt(D, call.index, call.size, j) = TruePath
  <2>1. Walk(call.size - 1)[j] = 0
    BY <1>1, <1>2 DEF Reached
  <2> QED BY <1>3, <2>1, AtTheRoot DEF TruePath
<1>5. Root(D) = Mth(D, 0, call.size)
  <2>1. Len(D) = call.size
    BY <1>3 DEF D, Leaves
  <2> QED BY <2>1 DEF Root
<1>6. /\ r = Root(D) => call.leaf = D[call.index + 1] /\ path = TruePath
      /\ call.prover = "log" /\ call.leaf = D[call.index + 1] => r = Root(D) /\ path = TruePath
  BY <1>2, <1>4, <1>5 DEF Reached
<1>7. CASE NoneLeft /\ Return(Ended(r = Root(D)))
  <2>1. UNCHANGED <<call, path, fn, sn, r>> /\ phase' = Ended(r = Root(D))
    BY <1>7 DEF Return
  <2>2. MembershipDecided'
    BY <1>3, <1>6, <2>1 DEF MembershipDecided, MemberAccepted, OnlyMemberAccepted, Ended,
                            InRange, TruePath, D
  <2>3. phase' \in {"accepted", "rejected"}
    BY <2>1 DEF Ended
  <2> QED BY <2>1, <2>2, <2>3, EndKeeps
<1>8. CASE (\E h \in Offered : path' = Append(path, h)) /\ phase' = "rejected"
  <2>1. call.prover = "log" => path # TruePath
    <3>1. call.prover = "log" /\ path = TruePath => Offered = {}
      <4>1. Len(TruePath) \in Nat
        BY <1>2, <1>3, PathBeginsWhole DEF TruePath
      <4> QED BY <4>1 DEF Offered
    <3> QED BY <1>8, <3>1
  <2>2. MembershipDecided'
    BY <1>1, <1>6, <1>8, <2>1 DEF MembershipDecided, MemberAccepted, OnlyMemberAccepted, D
  <2> QED BY <1>1, <1>8, <2>2, EndKeeps
<1> QED BY <1>7, <1>8 DEF Compare

LEMMA StepIInv == IInv /\ [InclusionNext]_inclusionVars => IInv'
<1> SUFFICES ASSUME IInv, [InclusionNext]_inclusionVars PROVE IInv'
  OBVIOUS
<1>1. CASE OutOfRange
  BY <1>1, OutOfRangeKeeps
<1>2. CASE Enter
  BY <1>2, EnterKeeps
<1>3. CASE LeftSibling
  BY <1>3, LeftSiblingKeeps
<1>4. CASE RightSibling
  BY <1>4, RightSiblingKeeps
<1>5. CASE NoSibling
  BY <1>5, NoSiblingKeeps
<1>6. CASE RunOut
  BY <1>6, RunOutKeeps
<1>7. CASE Compare
  BY <1>7, CompareKeeps
<1>8. CASE UNCHANGED inclusionVars
  <2>1. IInv' <=> IInv
    BY <1>8 DEF inclusionVars, IInv, Reached, MembershipDecided, MemberAccepted, OnlyMemberAccepted,
                InRange, TruePath, D
  <2> QED BY <2>1
<1> QED BY <1>1, <1>2, <1>3, <1>4, <1>5, <1>6, <1>7, <1>8 DEF InclusionNext

\* For a tree of any size, any index and any leaf: verifyInclusion accepts the leaf
\* at that index with its audit path, and no other leaf and no other path.
THEOREM MembershipIsDecided == InclusionSpec => []MembershipDecided
<1>1. IInv => MembershipDecided
  BY DEF IInv
<1> QED BY InitIInv, StepIInv, <1>1, PTL DEF InclusionSpec

-----------------------------------------------------------------------------
(* The consistency proofs inside ranges, as the hashes and the paths before.  *)

ProofsOf(list, u, n) ==
    [m \in 1..n |-> [lo \in Nat |-> [b \in BOOLEAN |->
        LET k == LargestPow2LessThan(n)
        IN IF m = n
           THEN IF b THEN <<>> ELSE <<Mth(list, lo, lo + n)>>
           ELSE IF m <= k
           THEN Append(u[k][m][lo][b], Mth(list, lo + k, lo + n))
           ELSE Append(u[n - k][m - k][lo + k][FALSE], Mth(list, lo, lo + k))]]]

IsProofUp(u, list, n) == u = [i \in 1..n |-> ProofsOf(list, u, i)]

LEMMA ProofShorter ==
    ASSUME NEW list, NEW n \in Nat \ {0}, NEW u, NEW v,
           \A i \in 1..(n - 1) : u[i] = v[i]
    PROVE  ProofsOf(list, u, n) = ProofsOf(list, v, n)
<1>1. CASE n = 1
  <2>1. \A m \in 1..n : m = n
    BY <1>1
  <2> QED BY <2>1 DEF ProofsOf
<1>2. CASE n # 1
  <2> DEFINE k == LargestPow2LessThan(n)
  <2>1. k \in Nat /\ 0 < k /\ k < n
    BY <1>2, SplitPoint
  <2>2. k \in 1..(n - 1) /\ n - k \in 1..(n - 1)
    <3> HIDE DEF k
    <3> QED BY <2>1
  <2>3. u[k] = v[k] /\ u[n - k] = v[n - k]
    <3> HIDE DEF k
    <3> QED BY <2>2
  <2> QED BY <2>3 DEF ProofsOf
<1> QED BY <1>1, <1>2

LEMMA ProofExists ==
    ASSUME NEW list, NEW n \in Nat PROVE \E u : IsProofUp(u, list, n)
<1> DEFINE P == {i \in Nat : \E u : IsProofUp(u, list, i)}
<1>1. 0 \in P
  <2>1. IsProofUp([i \in 1..0 |-> 0], list, 0)
    BY DEF IsProofUp
  <2> QED BY <2>1
<1>2. ASSUME NEW k \in Nat, k \in P PROVE k + 1 \in P
  <2>1. PICK v : IsProofUp(v, list, k)
    BY <1>2
  <2> DEFINE u == [i \in 1..(k + 1) |-> IF i = k + 1 THEN ProofsOf(list, v, k + 1) ELSE v[i]]
  <2>2. \A i \in 1..k : v[i] = ProofsOf(list, v, i) /\ u[i] = v[i]
    BY <2>1 DEF IsProofUp
  <2>3. u[k + 1] = ProofsOf(list, v, k + 1)
    OBVIOUS
  <2>4. DOMAIN u = 1..(k + 1) /\ u = [i \in 1..(k + 1) |-> u[i]]
    OBVIOUS
  <2> HIDE DEF u
  <2>5. \A i \in 1..(k + 1) : ProofsOf(list, u, i) = ProofsOf(list, v, i)
    <3> SUFFICES ASSUME NEW i \in 1..(k + 1) PROVE ProofsOf(list, u, i) = ProofsOf(list, v, i)
      OBVIOUS
    <3>1. i \in Nat \ {0} /\ \A x \in 1..(i - 1) : u[x] = v[x]
      BY <2>2
    <3> QED BY <3>1, ProofShorter
  <2>6. \A i \in 1..(k + 1) : u[i] = ProofsOf(list, u, i)
    <3> SUFFICES ASSUME NEW i \in 1..(k + 1) PROVE u[i] = ProofsOf(list, v, i)
      BY <2>5
    <3>1. i \in 1..k \/ i = k + 1
      OBVIOUS
    <3> QED BY <2>2, <2>3, <3>1
  <2>7. IsProofUp(u, list, k + 1)
    BY <2>4, <2>6 DEF IsProofUp
  <2> QED BY <2>7
<1> HIDE DEF P
<1>3. Nat \subseteq P
  BY <1>1, <1>2, SetInduction
<1> QED BY <1>3 DEF P

LEMMA ProofUnique ==
    ASSUME NEW list, NEW p \in Nat, NEW n \in Nat, p <= n,
           NEW u, NEW v, IsProofUp(u, list, p), IsProofUp(v, list, n)
    PROVE  \A i \in 1..p : u[i] = v[i]
<1> DEFINE T == {i \in 1..p : u[i] # v[i]}
<1> SUFFICES ASSUME T # {} PROVE FALSE
  OBVIOUS
<1>1. T \in SUBSET Nat
  OBVIOUS
<1>2. PICK i \in T : \A j \in T : i <= j
  <2> HIDE DEF T
  <2> QED BY <1>1, LeastMember
<1>3. i \in Nat \ {0} /\ i \in 1..p /\ i \in 1..n /\ u[i] # v[i]
  OBVIOUS
<1>4. \A j \in 1..(i - 1) : u[j] = v[j]
  <2> SUFFICES ASSUME NEW j \in 1..(i - 1) PROVE j \in 1..p /\ j \notin T
    OBVIOUS
  <2>1. j \in 1..p /\ j \in Nat /\ ~(i <= j)
    BY <1>3
  <2> QED BY <1>2, <2>1
<1>5. u[i] = ProofsOf(list, u, i) /\ v[i] = ProofsOf(list, v, i)
  BY <1>3 DEF IsProofUp
<1> HIDE DEF T
<1> QED BY <1>3, <1>4, <1>5, ProofShorter

LEMMA ProofRecursion ==
    ASSUME NEW list
    PROVE  \A n \in Nat \ {0} : Subproofs(list)[n] = ProofsOf(list, Subproofs(list), n)
<1> DEFINE up(n) == CHOOSE u : IsProofUp(u, list, n)
           w == [n \in Nat \ {0} |-> up(n)[n]]
           Solves(f) == f = [n \in Nat \ {0} |->
                            [m \in 1..n |-> [lo \in Nat |-> [b \in BOOLEAN |->
                                LET k == LargestPow2LessThan(n)
                                IN IF m = n
                                   THEN IF b THEN <<>> ELSE <<Mth(list, lo, lo + n)>>
                                   ELSE IF m <= k
                                   THEN Append(f[k][m][lo][b], Mth(list, lo + k, lo + n))
                                   ELSE Append(f[n - k][m - k][lo + k][FALSE], Mth(list, lo, lo + k))]]]]
<1>1. \A n \in Nat : IsProofUp(up(n), list, n)
  BY ProofExists
<1> HIDE DEF up
<1>2. ASSUME NEW n \in Nat \ {0} PROVE w[n] = ProofsOf(list, w, n)
  <2>1. n \in 1..n /\ IsProofUp(up(n), list, n)
    BY <1>1
  <2>2. up(n)[n] = ProofsOf(list, up(n), n)
    BY <2>1 DEF IsProofUp
  <2>3. \A i \in 1..(n - 1) : up(n)[i] = w[i]
    <3> SUFFICES ASSUME NEW i \in 1..(n - 1) PROVE up(n)[i] = w[i]
      OBVIOUS
    <3>1. i \in Nat \ {0} /\ i <= n /\ i \in 1..i
      OBVIOUS
    <3>2. up(i)[i] = up(n)[i]
      BY <1>1, <3>1, ProofUnique
    <3> QED BY <3>1, <3>2
  <2> HIDE DEF w
  <2>4. ProofsOf(list, up(n), n) = ProofsOf(list, w, n)
    BY <2>3, ProofShorter
  <2>5. w[n] = up(n)[n]
    BY DEF w
  <2> QED BY <2>2, <2>4, <2>5
<1>3. w = [n \in Nat \ {0} |-> w[n]]
  OBVIOUS
<1> HIDE DEF w
<1>4. w = [n \in Nat \ {0} |-> ProofsOf(list, w, n)]
  BY <1>2, <1>3
<1>5. Solves(w)
  BY <1>4 DEF ProofsOf
<1> DEFINE t == CHOOSE f : Solves(f)
<1>6. Solves(t)
  <2> HIDE DEF Solves
  <2> QED BY <1>5
<1>7. Subproofs(list) = t
  BY DEF Subproofs
<1> HIDE DEF t
<1>8. t = [n \in Nat \ {0} |-> ProofsOf(list, t, n)]
  BY <1>6 DEF ProofsOf
<1> HIDE DEF Solves
<1>9. \A n \in Nat \ {0} : t[n] = ProofsOf(list, t, n)
  BY <1>8
<1> QED BY <1>7, <1>9

-----------------------------------------------------------------------------
(* A consistency proof inside a range that is all old, and inside one that is *)
(* not, in terms of its two halves.                                           *)

LEMMA AllOld ==
    ASSUME NEW list, NEW lo \in Nat, NEW hi \in Nat, lo < hi, NEW b \in BOOLEAN
    PROVE  Subproof(hi - lo, list, lo, hi, b) = IF b THEN <<>> ELSE <<Mth(list, lo, hi)>>
<1> DEFINE n == hi - lo
           S == Subproofs(list)
<1>1. n \in Nat \ {0} /\ n \in 1..n /\ lo + n = hi
  OBVIOUS
<1>2. S[n] = ProofsOf(list, S, n)
  BY <1>1, ProofRecursion
<1> HIDE DEF n, S
<1>3. ProofsOf(list, S, n)[n][lo][b] = IF b THEN <<>> ELSE <<Mth(list, lo, lo + n)>>
  BY <1>1 DEF ProofsOf
<1>4. S[n][n][lo][b] = IF b THEN <<>> ELSE <<Mth(list, lo, hi)>>
  BY <1>1, <1>2, <1>3
<1> QED BY <1>4 DEF n, S, Subproof

LEMMA ProofInHalves ==
    ASSUME NEW list, NEW lo, NEW mid, NEW hi, SplitsAt(lo, mid, hi),
           NEW x \in Nat, 0 < x, x < hi - lo, NEW b \in BOOLEAN
    PROVE  Subproof(x, list, lo, hi, b) =
              IF x <= mid - lo
              THEN Append(Subproof(x, list, lo, mid, b), Mth(list, mid, hi))
              ELSE Append(Subproof(x - (mid - lo), list, mid, hi, FALSE), Mth(list, lo, mid))
<1> DEFINE n == hi - lo
           k == LargestPow2LessThan(n)
           S == Subproofs(list)
<1>1. lo \in Nat /\ mid \in Nat /\ hi \in Nat /\ hi - lo > 1 /\ k = mid - lo
  BY DEF SplitsAt
<1>2. /\ n \in Nat \ {0} /\ x \in 1..n /\ x # n
      /\ lo + k = mid /\ n - k = hi - mid /\ lo + n = hi
  BY <1>1
<1>3. S[n] = ProofsOf(list, S, n)
  BY <1>2, ProofRecursion
<1>4. ProofsOf(list, S, n)[x][lo][b] =
         IF x <= k THEN Append(S[k][x][lo][b], Mth(list, lo + k, lo + n))
                   ELSE Append(S[n - k][x - k][lo + k][FALSE], Mth(list, lo, lo + k))
  <2> HIDE DEF n, S
  <2> QED BY <1>1, <1>2 DEF ProofsOf
<1> HIDE DEF n, k, S
<1>5. S[n][x][lo][b] =
         IF x <= mid - lo
         THEN Append(S[mid - lo][x][lo][b], Mth(list, mid, hi))
         ELSE Append(S[hi - mid][x - (mid - lo)][mid][FALSE], Mth(list, lo, mid))
  BY <1>1, <1>2, <1>3, <1>4
<1> QED BY <1>5 DEF n, S, Subproof

-----------------------------------------------------------------------------
(* Up from the seed: the old tree ends with leaf m, and a node above the seed *)
(* has new leaves.                                                            *)

GrowthAt(list, m, n, j) ==
    Subproof((m + 1) - Lo(m, j), list, Lo(m, j), Hi(m, n, j), Lo(m, j) = 0)

HasNew(m, n, j) == m + 1 < Hi(m, n, j)

\* The node is the largest of which the old tree's end is the end.
IsSeed(m, n, j) == Hi(m, n, j) = m + 1 /\ Walk(m)[j] % 2 = 0

LEMMA GrowthFromRight ==
    ASSUME NEW list, NEW m \in Nat, NEW n \in Nat, m < n, NEW j \in Nat,
           Walk(m)[j] % 2 = 1, HasNew(m, n, j)
    PROVE  /\ GrowthAt(list, m, n, j + 1) = Append(GrowthAt(list, m, n, j), Sibling(list, m, n, j))
           /\ HasNew(m, n, j + 1)
<1> DEFINE lo == Lo(m, j + 1)
           mid == Lo(m, j)
           hi == Hi(m, n, j)
           o == m + 1
<1>1. SplitsAt(lo, mid, hi) /\ Hi(m, n, j + 1) = hi
  BY LeftSplit
<1>2. lo \in Nat /\ mid \in Nat /\ lo < mid /\ mid <= m
  <2>1. lo \in Nat /\ mid = lo + Pow2[j] /\ Pow2[j] \in Nat \ {0}
    BY ParentBegins
  <2>2. mid <= m
    BY NodeBounds
  <2> HIDE DEF lo, mid
  <2> QED BY <2>1, <2>2
<1>3. Sibling(list, m, n, j) = Mth(list, lo, mid)
  BY DEF Sibling
<1>4. /\ GrowthAt(list, m, n, j + 1) = Subproof(o - lo, list, lo, hi, lo = 0)
      /\ GrowthAt(list, m, n, j) = Subproof(o - mid, list, mid, hi, mid = 0)
  BY <1>1 DEF GrowthAt
<1>5. o < hi
  BY DEF HasNew
<1>6. o \in Nat /\ o = m + 1
  OBVIOUS
<1> HIDE DEF lo, mid, hi, o
<1>7. lo < o /\ ~(o <= mid) /\ (mid = 0) = FALSE
  BY <1>2, <1>6
<1>8. Subproof(o - lo, list, lo, hi, lo = 0)
         = Append(Subproof(o - mid, list, mid, hi, FALSE), Mth(list, lo, mid))
  <2> DEFINE b == (lo = 0)
             x == o - lo
  <2>1. b \in BOOLEAN
    OBVIOUS
  <2>2. /\ x \in Nat /\ 0 < x /\ x < hi - lo /\ ~(x <= mid - lo)
        /\ x - (mid - lo) = o - mid
    BY <1>1, <1>2, <1>5, <1>6, <1>7 DEF SplitsAt
  <2> HIDE DEF b, x
  <2>3. Subproof(x, list, lo, hi, b) =
           IF x <= mid - lo
           THEN Append(Subproof(x, list, lo, mid, b), Mth(list, mid, hi))
           ELSE Append(Subproof(x - (mid - lo), list, mid, hi, FALSE), Mth(list, lo, mid))
    BY <1>1, <2>1, <2>2, ProofInHalves
  <2>4. Subproof(x, list, lo, hi, b)
          = Append(Subproof(o - mid, list, mid, hi, FALSE), Mth(list, lo, mid))
    BY <2>2, <2>3
  <2> QED BY <2>4 DEF b, x
<1>9. GrowthAt(list, m, n, j + 1) = Append(GrowthAt(list, m, n, j), Sibling(list, m, n, j))
  BY <1>3, <1>4, <1>7, <1>8
<1> QED BY <1>1, <1>5, <1>9 DEF HasNew, hi, o

LEMMA GrowthFromLeft ==
    ASSUME NEW list, NEW m \in Nat, NEW n \in Nat, m + 1 < n, NEW j \in Nat,
           Walk(m)[j] % 2 = 0, Walk(m)[j] < Walk(n - 1)[j]
    PROVE  /\ GrowthAt(list, m, n, j + 1) = Append(GrowthAt(list, m, n, j), Sibling(list, m, n, j))
           /\ HasNew(m, n, j + 1)
<1> DEFINE lo == Lo(m, j)
           mid == Hi(m, n, j)
           hi == Hi(m, n, j + 1)
           o == m + 1
<1>1. SplitsAt(lo, mid, hi) /\ Lo(m, j + 1) = lo /\ mid < hi
  BY RightSplit
<1>2. lo \in Nat /\ mid \in Nat /\ hi \in Nat /\ lo <= m /\ m < mid
  BY <1>1, NodeBounds DEF SplitsAt
<1>3. Sibling(list, m, n, j) = Mth(list, mid, hi)
  BY DEF Sibling
<1>4. /\ GrowthAt(list, m, n, j + 1) = Subproof(o - lo, list, lo, hi, lo = 0)
      /\ GrowthAt(list, m, n, j) = Subproof(o - lo, list, lo, mid, lo = 0)
  BY <1>1 DEF GrowthAt
<1>5. o \in Nat /\ o = m + 1
  OBVIOUS
<1> HIDE DEF lo, mid, hi, o
<1>6. lo < o /\ o <= mid /\ o < hi
  BY <1>1, <1>2, <1>5
<1>7. Subproof(o - lo, list, lo, hi, lo = 0)
         = Append(Subproof(o - lo, list, lo, mid, lo = 0), Mth(list, mid, hi))
  <2> DEFINE b == (lo = 0)
             x == o - lo
  <2>1. b \in BOOLEAN
    OBVIOUS
  <2>2. x \in Nat /\ 0 < x /\ x < hi - lo /\ x <= mid - lo
    BY <1>1, <1>2, <1>5, <1>6 DEF SplitsAt
  <2> HIDE DEF b, x
  <2>3. Subproof(x, list, lo, hi, b)
          = Append(Subproof(x, list, lo, mid, b), Mth(list, mid, hi))
    BY <1>1, <2>1, <2>2, ProofInHalves
  <2> QED BY <2>3 DEF b, x
<1>8. GrowthAt(list, m, n, j + 1) = Append(GrowthAt(list, m, n, j), Sibling(list, m, n, j))
  BY <1>3, <1>4, <1>7
<1> QED BY <1>6, <1>8 DEF HasNew, hi, o

LEMMA GrowthOnEdge ==
    ASSUME NEW list, NEW m \in Nat, NEW n \in Nat, m + 1 < n, NEW j \in Nat,
           Walk(m)[j] % 2 = 0, Walk(m)[j] = Walk(n - 1)[j]
    PROVE  GrowthAt(list, m, n, j + 1) = GrowthAt(list, m, n, j) /\ HasNew(m, n, j + 1)
<1>1. Lo(m, j + 1) = Lo(m, j)
  BY ParentBegins
<1>2. Hi(m, n, j) = n /\ Hi(m, n, j + 1) = n
  BY EdgeStays
<1> QED BY <1>1, <1>2 DEF GrowthAt, HasNew

\* The last leaf of a tree is on its edge all the way up.
LEMMA OldEdge ==
    ASSUME NEW m \in Nat, NEW j \in Nat
    PROVE  Hi(m, m + 1, j) = m + 1 /\ Walk((m + 1) - 1)[j] = Walk(m)[j]
<1>1. (m + 1) - 1 = m /\ m + 1 \in Nat /\ m < m + 1
  OBVIOUS
<1>2. Walk((m + 1) - 1)[j] = Walk(m)[j]
  BY <1>1
<1>3. Hi(m, m + 1, j) = m + 1
  BY <1>1, <1>2, NodeBounds
<1> QED BY <1>2, <1>3

\* At the seed the proof has nothing but the seed's hash, which is a hash of the old
\* tree too, and not even that when the seed is the old tree.
LEMMA GrowthAtSeed ==
    ASSUME NEW list, NEW m \in Nat, NEW n \in Nat, m + 1 < n, NEW j \in Nat, IsSeed(m, n, j)
    PROVE  /\ Walk(m)[j] = 0 => GrowthAt(list, m, n, j) = <<>>
           /\ Walk(m)[j] # 0 => GrowthAt(list, m, n, j) = <<HashAt(list, m, n, j)>>
           /\ HashAt(list, m, n, j) = HashAt(list, m, m + 1, j)
           /\ HashAt(list, m, n, j) \in Hashes(list)
<1> DEFINE lo == Lo(m, j)
           hi == Hi(m, n, j)
           b == lo = 0
<1>1. hi = m + 1
  BY DEF IsSeed
<1>2. lo \in Nat /\ lo <= m
  BY NodeBounds
<1>3. b \in BOOLEAN /\ (b <=> Walk(m)[j] = 0)
  <2>1. Walk(m)[j] \in Nat /\ Pow2[j] \in Nat \ {0}
    BY ParentBegins
  <2>2. lo = Walk(m)[j] * Pow2[j]
    BY DEF Lo
  <2>3. Walk(m)[j] # 0 => Walk(m)[j] * Pow2[j] > 0
    BY <2>1
  <2>4. Walk(m)[j] = 0 => Walk(m)[j] * Pow2[j] = 0
    BY <2>1
  <2> QED BY <2>2, <2>3, <2>4
<1>4. GrowthAt(list, m, n, j) = Subproof(hi - lo, list, lo, hi, b)
  BY <1>1 DEF GrowthAt
<1>5. HashAt(list, m, n, j) = Mth(list, lo, hi)
  BY DEF HashAt
<1>6. HashAt(list, m, m + 1, j) = Mth(list, lo, hi)
  BY <1>1, OldEdge DEF HashAt
<1> HIDE DEF lo, hi, b
<1>7. hi \in Nat /\ lo < hi
  BY <1>1, <1>2
<1>8. Subproof(hi - lo, list, lo, hi, b) = IF b THEN <<>> ELSE <<Mth(list, lo, hi)>>
  BY <1>2, <1>3, <1>7, AllOld
<1> QED BY <1>2, <1>3, <1>4, <1>5, <1>6, <1>7, <1>8 DEF Hashes

LEMMA GrowthAtTop ==
    ASSUME NEW list, NEW m \in Nat, NEW n \in Nat, m + 1 < n, NEW j \in Nat, Walk(n - 1)[j] = 0
    PROVE  GrowthAt(list, m, n, j) = Subproof(m + 1, list, 0, n, TRUE)
<1>1. Lo(m, j) = 0 /\ Hi(m, n, j) = n
  BY NodeBounds
<1>2. (m + 1) - 0 = m + 1 /\ (0 = 0) = TRUE
  OBVIOUS
<1> QED BY <1>1, <1>2 DEF GrowthAt

\* The levels a proof of growth goes through.
OnTheWay(list, m, n, j) ==
    /\ IsSeed(m, n, j) \/ HasNew(m, n, j)
    /\ GrowthAt(list, m, n, j) \in Seq(Hashes(list))

LEMMA GrowthStep ==
    ASSUME NEW list, NEW m \in Nat, NEW n \in Nat, m + 1 < n, NEW j \in Nat,
           OnTheWay(list, m, n, j)
    PROVE  /\ OnTheWay(list, m, n, j + 1)
           /\ \/ GrowthAt(list, m, n, j + 1) = GrowthAt(list, m, n, j)
              \/ GrowthAt(list, m, n, j + 1) = Append(GrowthAt(list, m, n, j), Sibling(list, m, n, j))
<1> DEFINE a == Walk(m)[j]
           c == Walk(n - 1)[j]
           s == GrowthAt(list, m, n, j)
           t == GrowthAt(list, m, n, j + 1)
           x == Sibling(list, m, n, j)
<1> m < n
  OBVIOUS
<1>1. a \in Nat /\ c \in Nat /\ a <= c
  BY NodeBounds
<1>2. s \in Seq(Hashes(list)) /\ x \in Hashes(list)
  BY SiblingType DEF OnTheWay
<1>3. CASE a % 2 = 1
  <2>1. HasNew(m, n, j)
    BY <1>3 DEF OnTheWay, IsSeed
  <2>2. t = Append(s, x) /\ HasNew(m, n, j + 1)
    BY <1>3, <2>1, GrowthFromRight
  <2> HIDE DEF s, t, x
  <2>3. t \in Seq(Hashes(list))
    BY <1>2, <2>2
  <2> QED BY <2>2, <2>3 DEF s, t, x, OnTheWay
<1>4. CASE a % 2 = 0 /\ a < c
  <2>1. t = Append(s, x) /\ HasNew(m, n, j + 1)
    BY <1>4, GrowthFromLeft
  <2> HIDE DEF s, t, x
  <2>2. t \in Seq(Hashes(list))
    BY <1>2, <2>1
  <2> QED BY <2>1, <2>2 DEF s, t, x, OnTheWay
<1>5. CASE a % 2 = 0 /\ a = c
  <2>1. t = s /\ HasNew(m, n, j + 1)
    BY <1>5, GrowthOnEdge
  <2> QED BY <1>2, <2>1 DEF OnTheWay
<1> HIDE DEF a, c
<1>6. a % 2 = 1 \/ (a % 2 = 0 /\ a < c) \/ (a % 2 = 0 /\ a = c)
  BY <1>1
<1> QED BY <1>3, <1>4, <1>5, <1>6

\* What a node needs is the beginning of the whole proof.
LEMMA GrowthBeginsWhole ==
    ASSUME NEW list, NEW m \in Nat, NEW n \in Nat, m + 1 < n, NEW j \in Nat,
           OnTheWay(list, m, n, j)
    PROVE  /\ Begins(GrowthAt(list, m, n, j), Subproof(m + 1, list, 0, n, TRUE))
           /\ Subproof(m + 1, list, 0, n, TRUE) \in Seq(Hashes(list))
<1> DEFINE p(i) == GrowthAt(list, m, n, i)
           W(i) == OnTheWay(list, m, n, i)
           P == {d \in Nat : W(j + d) /\ Begins(p(j), p(j + d))}
<1>1. \A i \in Nat : W(i) => p(i) \in Seq(Hashes(list)) /\ Len(p(i)) \in Nat
  BY DEF OnTheWay
<1>2. \A i \in Nat : W(i) => W(i + 1) /\ Begins(p(i), p(i + 1))
  <2> SUFFICES ASSUME NEW i \in Nat, W(i) PROVE W(i + 1) /\ Begins(p(i), p(i + 1))
    OBVIOUS
  <2> DEFINE x == Sibling(list, m, n, i)
  <2>1. W(i + 1) /\ (p(i + 1) = p(i) \/ p(i + 1) = Append(p(i), x))
    BY GrowthStep
  <2>2. x \in Hashes(list)
    BY SiblingType
  <2>3. p(i) \in Seq(Hashes(list))
    BY <1>1
  <2> DEFINE s == p(i)
             t == p(i + 1)
  <2> HIDE DEF x, s, t
  <2>4. s \in Seq(Hashes(list)) /\ (t = s \/ t = Append(s, x))
    BY <2>1, <2>3 DEF s, t
  <2>5. Begins(s, t)
    BY <2>2, <2>4 DEF Begins
  <2> QED BY <2>1, <2>5 DEF s, t
<1>3. W(j)
  OBVIOUS
<1> HIDE DEF p, W
<1>4. 0 \in P
  <2>1. j + 0 = j
    OBVIOUS
  <2>2. Len(p(j)) \in Nat
    BY <1>1, <1>3
  <2> QED BY <1>3, <2>1, <2>2 DEF Begins
<1>5. ASSUME NEW d \in Nat, d \in P PROVE d + 1 \in P
  <2>1. /\ W(j + d) /\ W((j + d) + 1)
        /\ Begins(p(j), p(j + d)) /\ Begins(p(j + d), p((j + d) + 1))
    BY <1>2, <1>5
  <2>2. Begins(p(j), p((j + d) + 1))
    <3>1. Len(p(j)) \in Nat /\ Len(p(j + d)) \in Nat /\ Len(p((j + d) + 1)) \in Nat
      BY <1>1, <1>3, <2>1
    <3> QED BY <2>1, <3>1 DEF Begins
  <2>3. (j + d) + 1 = j + (d + 1)
    OBVIOUS
  <2> QED BY <2>1, <2>2, <2>3
<1>6. n \in P
  <2> HIDE DEF P
  <2>1. Nat \subseteq P
    BY <1>4, <1>5, SetInduction
  <2> QED BY <2>1
<1>7. Walk(n - 1)[j + n] = 0
  BY WalkEnds
<1>8. p(j + n) = Subproof(m + 1, list, 0, n, TRUE)
  BY <1>7, GrowthAtTop, j + n \in Nat DEF p
<1>9. W(j + n) /\ Begins(p(j), p(j + n))
  BY <1>6
<1> QED BY <1>1, <1>8, <1>9, j + n \in Nat DEF p

-----------------------------------------------------------------------------
(* Two ranges with the same leaves have one root. *)

SameCells(d, x, e, y, o) ==
    x \in Nat /\ y \in Nat /\ o \in Nat /\ 0 < o /\ \A i \in 1..o : d[x + i] = e[y + i]

LEMMA SameRange ==
    ASSUME NEW d, NEW x, NEW e, NEW y, NEW o, SameCells(d, x, e, y, o)
    PROVE  Mth(d, x, x + o) = Mth(e, y, y + o)
<1>0. x \in Nat /\ y \in Nat /\ o \in Nat /\ 0 < o /\ \A i \in 1..o : d[x + i] = e[y + i]
  BY DEF SameCells
<1> DEFINE T == {k \in Nat \ {0} : \E z \in Nat : z + k <= o /\ Tree(d)[k][x + z] # Tree(e)[k][y + z]}
<1>1. T = {}
  <2> SUFFICES ASSUME T # {} PROVE FALSE
    OBVIOUS
  <2>1. T \in SUBSET Nat
    OBVIOUS
  <2>2. PICK k \in T : \A i \in T : k <= i
    <3> HIDE DEF T
    <3> QED BY <2>1, LeastMember
  <2>3. PICK z \in Nat : z + k <= o /\ Tree(d)[k][x + z] # Tree(e)[k][y + z]
    OBVIOUS
  <2>4. k \in Nat \ {0}
    OBVIOUS
  <2>5. Tree(d)[k] = HashesOf(d, Tree(d), k) /\ Tree(e)[k] = HashesOf(e, Tree(e), k)
    BY <2>4, TreeRecursion
  <2> DEFINE f == x + z
             g == y + z
  <2>6. f \in Nat /\ g \in Nat /\ Tree(d)[k][f] # Tree(e)[k][g]
    BY <1>0, <2>3
  <2>7. CASE k = 1
    <3>1. d[f + 1] = e[g + 1]
      <4>1. z + 1 \in 1..o /\ f + 1 = x + (z + 1) /\ g + 1 = y + (z + 1)
        BY <1>0, <2>3, <2>7
      <4> HIDE DEF f, g
      <4> QED BY <1>0, <4>1
    <3> HIDE DEF f, g
    <3>2. HashesOf(d, Tree(d), k)[f] = d[f + 1] /\ HashesOf(e, Tree(e), k)[g] = e[g + 1]
      BY <2>6, <2>7 DEF HashesOf
    <3> QED BY <2>5, <2>6, <3>1, <3>2
  <2>8. CASE k # 1
    <3> DEFINE p == LargestPow2LessThan(k)
               q == k - p
               mid == z + p
    <3>1. p \in Nat /\ 0 < p /\ p < k
      BY <2>4, <2>8, SplitPoint
    <3> HIDE DEF p
    <3>2. /\ q \in Nat \ {0} /\ q < k /\ mid \in Nat /\ mid + q <= o /\ z + p <= o
          /\ f + p = x + mid /\ g + p = y + mid
      BY <1>0, <2>3, <2>4, <3>1
    <3>3. p \notin T /\ q \notin T
      <4>1. ~(k <= p) /\ ~(k <= q)
        BY <2>4, <3>1, <3>2
      <4> HIDE DEF T, q
      <4> QED BY <2>2, <4>1
    <3> HIDE DEF q, mid
    <3>4. Tree(d)[p][x + z] = Tree(e)[p][y + z]
      BY <3>1, <3>2, <3>3
    <3>5. Tree(d)[q][x + mid] = Tree(e)[q][y + mid]
      BY <3>2, <3>3
    <3> HIDE DEF f, g
    <3>6. /\ HashesOf(d, Tree(d), k)[f] = HashInteriorNode(Tree(d)[p][f], Tree(d)[k - p][f + p])
          /\ HashesOf(e, Tree(e), k)[g] = HashInteriorNode(Tree(e)[p][g], Tree(e)[k - p][g + p])
      BY <2>6, <2>8 DEF HashesOf, p
    <3> QED BY <2>5, <2>6, <3>2, <3>4, <3>5, <3>6 DEF f, g, q
  <2> QED BY <2>7, <2>8
<1>2. o \in Nat \ {0} /\ 0 + o <= o /\ x + 0 = x /\ y + 0 = y /\ (x + o) - x = o /\ (y + o) - y = o
  BY <1>0
<1>3. Tree(d)[o][x + 0] = Tree(e)[o][y + 0]
  BY <1>1, <1>2
<1> QED BY <1>2, <1>3 DEF Mth

\* What the old tree alone has at a level, from the level before.
LEMMA OldParent ==
    ASSUME NEW list, NEW m \in Nat, NEW n, NEW j \in Nat
    PROVE  /\ Walk(m)[j] % 2 = 1 =>
                 HashAt(list, m, m + 1, j + 1) =
                    HashInteriorNode(Sibling(list, m, n, j), HashAt(list, m, m + 1, j))
           /\ Walk(m)[j] % 2 = 0 => HashAt(list, m, m + 1, j + 1) = HashAt(list, m, m + 1, j)
<1> DEFINE o == m + 1
<1>1. o \in Nat /\ m < o
  OBVIOUS
<1>2. Walk(o - 1)[j] = Walk(m)[j]
  BY OldEdge
<1> HIDE DEF o
<1>3. ASSUME Walk(m)[j] % 2 = 1
      PROVE  HashAt(list, m, o, j + 1) = HashInteriorNode(Sibling(list, m, n, j), HashAt(list, m, o, j))
  <2>1. Sibling(list, m, o, j) = Sibling(list, m, n, j)
    BY <1>3 DEF Sibling
  <2>2. HashAt(list, m, o, j + 1) = HashInteriorNode(Sibling(list, m, o, j), HashAt(list, m, o, j))
    BY <1>1, <1>3, LeftParent
  <2> QED BY <2>1, <2>2
<1>4. ASSUME Walk(m)[j] % 2 = 0
      PROVE  HashAt(list, m, o, j + 1) = HashAt(list, m, o, j)
  BY <1>1, <1>2, <1>4, SameNode
<1> QED BY <1>3, <1>4 DEF o

\* Where the walk stands while it looks for the seed, and where it has found it.
EndsAt(m, j) == Lo(m, j) + Pow2[j] = m + 1

LEMMA EndsAbove ==
    ASSUME NEW m \in Nat, NEW j \in Nat, EndsAt(m, j), Walk(m)[j] % 2 = 1
    PROVE  EndsAt(m, j + 1)
<1>1. Lo(m, j) \in Nat /\ Lo(m, j + 1) \in Nat /\ Pow2[j] \in Nat
  BY ParentBegins
<1>2. Pow2[j + 1] = 2 * Pow2[j] /\ Lo(m, j) = Lo(m, j + 1) + Pow2[j]
  BY ParentBegins
<1>3. Lo(m, j) + Pow2[j] = m + 1
  BY DEF EndsAt
<1>4. Lo(m, j + 1) + Pow2[j + 1] = m + 1
  BY <1>1, <1>2, <1>3
<1> QED BY <1>4 DEF EndsAt

LEMMA EndsAtSeed ==
    ASSUME NEW m \in Nat, NEW n \in Nat, m + 1 < n, NEW j \in Nat,
           EndsAt(m, j), Walk(m)[j] % 2 = 0
    PROVE  IsSeed(m, n, j)
BY DEF EndsAt, IsSeed, Hi

LEMMA EndsAtLeaf == ASSUME NEW m \in Nat PROVE EndsAt(m, 0)
<1>1. Walk(m)[0] = m /\ Pow2[0] = 1
  BY WalkStep, PowStep
<1> QED BY <1>1 DEF EndsAt, Lo

-----------------------------------------------------------------------------
(* verifyConsistency. *)

Last == claim.oldSize - 1
OldAt(j)   == HashAt(NewLeaves, Last, Last + 1, j)
NewAt(j)   == HashAt(NewLeaves, Last, claim.newSize, j)
ProofAt(j) == GrowthAt(NewLeaves, Last, claim.newSize, j)
NextAt(j)  == Sibling(NewLeaves, Last, claim.newSize, j)

TrueOldRoot == Mth(NewLeaves, 0, claim.oldSize)
IsGrowth    == claim.prover = "builder" /\ claim.oldRoot = TrueOldRoot

Walking(j) == node = Walk(Last)[j] /\ lastNode = Walk(claim.newSize - 1)[j]

\* From the seed on.  Were newHash the hash of the node, then oldHash is the one the
\* old tree has there and the proof taken is what the node needs; and the builder's
\* own proof has led to just that.
OldReached(j) ==
    /\ Walking(j) /\ OnTheWay(NewLeaves, Last, claim.newSize, j)
    /\ newHash = NewAt(j) => oldHash = OldAt(j) /\ proof = ProofAt(j)
    /\ IsGrowth => newHash = NewAt(j) /\ oldHash = OldAt(j) /\ proof = ProofAt(j)

\* The same once the old tree is behind: its root has been found to be the claimed one.
NewReached(j) ==
    /\ node = 0 /\ Walking(j) /\ OnTheWay(NewLeaves, Last, claim.newSize, j)
    /\ newHash = NewAt(j) => claim.oldRoot = TrueOldRoot /\ proof = ProofAt(j)
    /\ IsGrowth => newHash = NewAt(j) /\ proof = ProofAt(j)

GInv ==
    /\ claim.oldSize \in Nat /\ claim.newSize \in Nat \ {0}
    /\ stage \in {"start", "climb", "old", "new", "accepted", "rejected"}
    /\ stage \in {"start", "climb"} =>
          proof = <<>> /\ oldHash = claim.oldRoot /\ newHash = claim.oldRoot
    /\ stage \in {"climb", "old", "new"} => claim.oldSize \in 1..(claim.newSize - 1)
    /\ stage = "climb" => \E j \in Nat : Walking(j) /\ EndsAt(Last, j)
    /\ stage = "old" => \E j \in Nat : OldReached(j)
    /\ stage = "new" => \E j \in Nat : NewReached(j)
    /\ GrowthDecided

LEMMA InitGInv == ConsistencyInit => GInv
<1> SUFFICES ASSUME ConsistencyInit PROVE GInv
  OBVIOUS
<1>1. PICK who \in Sources : \E n \in 1..MaxTree[who] : \E m \in 0..(n + 1) :
          \E root \in ClaimedRoots(m, n) :
             claim = [prover |-> who, oldSize |-> m, newSize |-> n, oldRoot |-> root]
  BY DEF ConsistencyInit
<1>2. PICK n \in 1..MaxTree[who] : \E m \in 0..(n + 1) :
          \E root \in ClaimedRoots(m, n) :
             claim = [prover |-> who, oldSize |-> m, newSize |-> n, oldRoot |-> root]
  BY <1>1
<1>3. claim.oldSize \in Nat /\ claim.newSize \in Nat \ {0}
  BY <1>2
<1> QED BY <1>3 DEF ConsistencyInit, GInv, GrowthDecided, GrowthAccepted, OnlyGrowthAccepted

\* The sizes, as the lemmas about walks want them.
LEMMA WalkSizes ==
    ASSUME GInv, claim.oldSize \in 1..(claim.newSize - 1)
    PROVE  /\ Last \in Nat /\ claim.newSize \in Nat /\ Last + 1 = claim.oldSize
           /\ Last + 1 < claim.newSize /\ Last < claim.newSize
           /\ claim.newSize - 1 \in Nat /\ claim.oldSize \in 1..claim.newSize
BY DEF GInv, Last

\* What is decided in terms of the new tree alone.
LEMMA TrueRoots ==
    ASSUME GInv, claim.oldSize \in 1..claim.newSize
    PROVE  /\ Root(OldTree) = TrueOldRoot
           /\ NewRoot = Mth(NewLeaves, 0, claim.newSize)
           /\ Built = Subproof(claim.oldSize, NewLeaves, 0, claim.newSize, TRUE)
<1>1. claim.oldSize \in Nat /\ 0 < claim.oldSize /\ claim.newSize \in Nat
  BY DEF GInv
<1>2. Len(NewLeaves) = claim.newSize /\ Len(OldTree) = claim.oldSize
  BY <1>1 DEF NewLeaves, OldTree, Leaves
<1>3. \A i \in 1..claim.oldSize : OldTree[i] = NewLeaves[i]
  BY <1>1 DEF NewLeaves, OldTree, Leaves
<1>4. Mth(OldTree, 0, claim.oldSize) = Mth(NewLeaves, 0, claim.oldSize)
  <2> DEFINE o == claim.oldSize
  <2>1. o \in Nat /\ 0 < o /\ 0 \in Nat /\ 0 + o = o /\ \A i \in 1..o : 0 + i = i
    BY <1>1
  <2>2. \A i \in 1..o : OldTree[0 + i] = NewLeaves[0 + i]
    BY <1>3, <2>1
  <2> HIDE DEF o
  <2>3. Mth(OldTree, 0, 0 + o) = Mth(NewLeaves, 0, 0 + o)
    <3>1. SameCells(OldTree, 0, NewLeaves, 0, o)
      BY <2>1, <2>2 DEF SameCells
    <3> QED BY <3>1, SameRange
  <2> QED BY <2>1, <2>3 DEF o
<1>5. Root(OldTree) = TrueOldRoot
  BY <1>2, <1>4 DEF Root, TrueOldRoot
<1>6. NewRoot = Mth(NewLeaves, 0, claim.newSize)
  BY <1>2 DEF Root, NewRoot
<1>7. Built = Subproof(claim.oldSize, NewLeaves, 0, claim.newSize, TRUE)
  <2>1. claim.oldSize # 0
    BY <1>1
  <2>2. BuildConsistencyProof(claim.oldSize, NewLeaves) =
           Subproof(claim.oldSize, NewLeaves, 0, Len(NewLeaves), TRUE)
    BY <2>1 DEF BuildConsistencyProof
  <2> QED BY <1>2, <2>2 DEF Built
<1> QED BY <1>5, <1>6, <1>7

\* While the claim stays, so does everything it determines.
LEMMA SameClaim ==
    ASSUME UNCHANGED claim, NEW j \in Nat
    PROVE  /\ OldAt(j)' = OldAt(j) /\ NewAt(j)' = NewAt(j) /\ ProofAt(j)' = ProofAt(j)
           /\ TrueOldRoot' = TrueOldRoot /\ (IsGrowth' <=> IsGrowth) /\ Last' = Last
           /\ OnTheWay(NewLeaves, Last, claim.newSize, j)' <=> OnTheWay(NewLeaves, Last, claim.newSize, j)
           /\ EndsAt(Last, j)' <=> EndsAt(Last, j)
BY DEF OldAt, NewAt, ProofAt, TrueOldRoot, IsGrowth, Last, NewLeaves

\* A step that only ends the call as it should keeps the invariant.
LEMMA VerdictKeeps ==
    ASSUME GInv, UNCHANGED claim, stage' \in {"accepted", "rejected"}, GrowthDecided'
    PROVE  GInv'
BY DEF GInv

\* One that rejects what is no growth does.
LEMMA RefusalKeeps ==
    ASSUME GInv, UNCHANGED claim, stage' = "rejected",
           claim.oldSize \in 1..claim.newSize => ~IsGrowth
    PROVE  GInv'
<1>1. GrowthDecided'
  <2>1. claim.oldSize \in 1..claim.newSize => Root(OldTree) = TrueOldRoot
    BY TrueRoots
  <2>2. OldTree' = OldTree
    BY DEF OldTree
  <2> QED BY <2>1, <2>2 DEF GrowthDecided, GrowthAccepted, OnlyGrowthAccepted, IsGrowth
<1> QED BY <1>1, VerdictKeeps

\* One that accepts growth with its proof does.
LEMMA AcceptanceKeeps ==
    ASSUME GInv, UNCHANGED <<claim, proof>>, stage' = "accepted",
           claim.oldSize \in 1..claim.newSize, claim.oldRoot = TrueOldRoot, proof = Built
    PROVE  GInv'
<1>1. GrowthDecided'
  <2>1. Root(OldTree) = TrueOldRoot
    BY TrueRoots
  <2>2. OldTree' = OldTree /\ Built' = Built
    BY DEF OldTree, Built, NewLeaves
  <2> QED BY <2>1, <2>2 DEF GrowthDecided, GrowthAccepted, OnlyGrowthAccepted
<1> QED BY <1>1, VerdictKeeps

\* What the builder's proof gives next, when there is something to come.
LEMMA BuilderShifts ==
    ASSUME claim.prover = "builder", NEW H, NEW x \in H, proof \in Seq(H), Built \in Seq(H),
           Begins(Append(proof, x), Built)
    PROVE  Shiftable = {x} /\ ~NothingLeft
<1>1. /\ Len(Append(proof, x)) = Len(proof) + 1 /\ Append(proof, x)[Len(proof) + 1] = x
      /\ Len(proof) \in Nat /\ Len(Built) \in Nat
  OBVIOUS
<1>2. Len(proof) < Len(Built) /\ Built[Len(proof) + 1] = x
  BY <1>1 DEF Begins
<1>3. Shiftable = {x}
  BY <1>2 DEF Shiftable
<1> QED BY <1>1, <1>2, <1>3 DEF NothingLeft

\* It gives nothing once it is all taken.
LEMMA BuilderEnds ==
    ASSUME claim.prover = "builder", NEW H, Built \in Seq(H), proof = Built
    PROVE  Shiftable = {}
<1>1. Len(Built) \in Nat
  OBVIOUS
<1> QED BY <1>1 DEF Shiftable

LEMMA SizesOutOfRangeKeeps == ASSUME GInv, SizesOutOfRange PROVE GInv'
<1>1. /\ UNCHANGED claim /\ stage' = "rejected"
      /\ claim.oldSize = 0 \/ claim.newSize < claim.oldSize
  BY DEF SizesOutOfRange, Decide
<1>2. claim.oldSize \notin 1..claim.newSize
  BY <1>1 DEF GInv
<1> QED BY <1>1, <1>2, RefusalKeeps

LEMMA EqualSizesKeeps == ASSUME GInv, EqualSizes PROVE GInv'
<1>1. stage = "start" /\ claim.oldSize = claim.newSize /\ UNCHANGED claim
  BY DEF EqualSizes, Decide, Leftover
<1>2. proof = <<>> /\ claim.newSize \in Nat /\ 0 < claim.newSize
  BY <1>1 DEF GInv
<1>3. claim.oldSize \in 1..claim.newSize
  BY <1>1, <1>2
<1>4. NewRoot = TrueOldRoot
  BY <1>1, <1>3, TrueRoots DEF TrueOldRoot
<1>5. Built = <<>>
  <2> DEFINE n == claim.newSize
  <2>1. n - 0 = n /\ n \in Nat /\ 0 < n /\ 0 \in Nat /\ TRUE \in BOOLEAN
    BY <1>2
  <2>2. Built = Subproof(n, NewLeaves, 0, n, TRUE)
    BY <1>1, <1>3, TrueRoots
  <2> HIDE DEF n
  <2>3. Subproof(n - 0, NewLeaves, 0, n, TRUE) = IF TRUE THEN <<>> ELSE <<Mth(NewLeaves, 0, n)>>
    BY <2>1, AllOld
  <2> QED BY <2>1, <2>2, <2>3
<1>6. CASE NothingLeft /\ Decide(Outcome(claim.oldRoot = NewRoot))
  <2>1. UNCHANGED <<claim, proof>> /\ stage' = Outcome(claim.oldRoot = NewRoot)
    BY <1>6 DEF Decide
  <2>2. CASE claim.oldRoot = NewRoot
    <3>1. stage' = "accepted" /\ proof = Built
      BY <1>2, <1>5, <2>1, <2>2 DEF Outcome
    <3> QED BY <1>3, <1>4, <2>1, <2>2, <3>1, AcceptanceKeeps
  <2>3. CASE claim.oldRoot # NewRoot
    <3>1. stage' = "rejected" /\ ~IsGrowth
      BY <1>4, <2>1, <2>3 DEF Outcome, IsGrowth
    <3> QED BY <2>1, <3>1, RefusalKeeps
  <2> QED BY <2>2, <2>3
<1>7. CASE Leftover("rejected")
  <2>1. stage' = "rejected" /\ \E h \in Shiftable : TRUE
    BY <1>7 DEF Leftover
  <2>2. claim.prover = "builder" => Shiftable = {}
    <3>1. Len(proof) = 0 /\ Len(Built) = 0
      BY <1>2, <1>5
    <3> QED BY <3>1 DEF Shiftable
  <2>3. ~IsGrowth
    BY <2>1, <2>2 DEF IsGrowth
  <2> QED BY <1>1, <2>1, <2>3, RefusalKeeps
<1> QED BY <1>6, <1>7 DEF EqualSizes

LEMMA EnterWalkKeeps == ASSUME GInv, EnterWalk PROVE GInv'
<1>1. /\ stage = "start" /\ claim.oldSize \in 1..(claim.newSize - 1)
      /\ node' = Last /\ lastNode' = claim.newSize - 1 /\ stage' = "climb"
      /\ UNCHANGED <<claim, proof, oldHash, newHash>>
  BY DEF EnterWalk, Last
<1>2. Last \in Nat /\ claim.newSize - 1 \in Nat
  BY <1>1, WalkSizes
<1>3. Walk(Last)[0] = Last /\ Walk(claim.newSize - 1)[0] = claim.newSize - 1 /\ EndsAt(Last, 0)
  BY <1>2, WalkStep, EndsAtLeaf
<1>4. Walking(0)' /\ EndsAt(Last, 0)'
  BY <1>1, <1>3 DEF Walking, Last
<1>5. GrowthDecided'
  BY <1>1 DEF GrowthDecided, GrowthAccepted, OnlyGrowthAccepted
<1> QED BY <1>1, <1>4, <1>5 DEF GInv

LEMMA HalvedWalk ==
    ASSUME GInv, claim.oldSize \in 1..(claim.newSize - 1), HalveBoth, UNCHANGED claim,
           NEW j \in Nat, Walking(j)
    PROVE  Walking(j + 1)'
<1>1. Last \in Nat /\ claim.newSize - 1 \in Nat
  BY WalkSizes
<1>2. node = Walk(Last)[j] /\ lastNode = Walk(claim.newSize - 1)[j]
  BY DEF Walking
<1>3. node' = Walk(Last)[j + 1]
  BY <1>1, <1>2, WalkStep DEF HalveBoth
<1>4. lastNode' = Walk(claim.newSize - 1)[j + 1]
  BY <1>1, <1>2, WalkStep DEF HalveBoth
<1> QED BY <1>3, <1>4 DEF Walking, Last

LEMMA WalkFacts ==
    ASSUME GInv, claim.oldSize \in 1..(claim.newSize - 1), NEW j \in Nat, Walking(j)
    PROVE  /\ node = Walk(Last)[j] /\ lastNode = Walk(claim.newSize - 1)[j]
           /\ node \in Nat /\ lastNode \in Nat /\ node <= lastNode
<1>1. Last \in Nat /\ claim.newSize \in Nat /\ Last < claim.newSize
  BY WalkSizes
<1> QED BY <1>1, NodeBounds DEF Walking

\* Looking for the seed.
LEMMA ClimbGKeeps == ASSUME GInv, Climb PROVE GInv'
<1>1. /\ stage = "climb" /\ node % 2 = 1 /\ HalveBoth
      /\ UNCHANGED <<claim, proof, oldHash, newHash, stage>>
  BY DEF Climb
<1>2. claim.oldSize \in 1..(claim.newSize - 1)
  BY <1>1 DEF GInv
<1>3. PICK j \in Nat : Walking(j) /\ EndsAt(Last, j)
  BY <1>1 DEF GInv
<1>4. Walking(j + 1)'
  BY <1>1, <1>2, <1>3, HalvedWalk
<1>5. EndsAt(Last, j + 1)
  <2>1. Last \in Nat
    BY <1>2, WalkSizes
  <2>2. Walk(Last)[j] % 2 = 1
    BY <1>1, <1>3 DEF Walking
  <2> QED BY <1>3, <2>1, <2>2, EndsAbove
<1>6. EndsAt(Last, j + 1)'
  <2>1. Last' = Last
    BY <1>1 DEF Last
  <2> QED BY <1>5, <2>1
<1>7. GrowthDecided'
  BY <1>1 DEF GrowthDecided, GrowthAccepted, OnlyGrowthAccepted
<1>8. j + 1 \in Nat
  OBVIOUS
<1>9. \E i \in Nat : (Walking(i) /\ EndsAt(Last, i))'
  BY <1>4, <1>6, <1>8
<1> QED BY <1>1, <1>2, <1>7, <1>9 DEF GInv

LEMMA SeedKeeps == ASSUME GInv, Seed PROVE GInv'
<1>1. stage = "climb" /\ node % 2 = 0 /\ stage' = "old" /\ UNCHANGED <<claim, node, lastNode>>
  BY DEF Seed
<1>2. claim.oldSize \in 1..(claim.newSize - 1)
  BY <1>1 DEF GInv
<1>3. PICK j \in Nat : Walking(j) /\ EndsAt(Last, j)
  BY <1>1 DEF GInv
<1>4. /\ Last \in Nat /\ claim.newSize \in Nat /\ Last + 1 = claim.oldSize
      /\ Last + 1 < claim.newSize /\ Last < claim.newSize /\ claim.oldSize \in 1..claim.newSize
  BY <1>2, WalkSizes
<1>5. node = Walk(Last)[j] /\ node \in Nat
  BY <1>2, <1>3, WalkFacts
<1>6. IsSeed(Last, claim.newSize, j)
  BY <1>1, <1>3, <1>4, <1>5, EndsAtSeed
<1> DEFINE H == Hashes(NewLeaves)
           x == NewAt(j)
<1>7. /\ node = 0 => ProofAt(j) = <<>>
      /\ node # 0 => ProofAt(j) = <<x>>
      /\ NewAt(j) = OldAt(j) /\ x \in H
  <2>1. node = 0 => ProofAt(j) = <<>>
    BY <1>4, <1>5, <1>6, GrowthAtSeed DEF ProofAt
  <2>2. node # 0 => ProofAt(j) = <<x>>
    <3>1. Walk(Last)[j] # 0 => GrowthAt(NewLeaves, Last, claim.newSize, j) =
                                  <<HashAt(NewLeaves, Last, claim.newSize, j)>>
      BY <1>4, <1>6, GrowthAtSeed
    <3> QED BY <1>5, <3>1 DEF ProofAt, NewAt
  <2>3. NewAt(j) = OldAt(j)
    BY <1>4, <1>6, GrowthAtSeed DEF NewAt, OldAt
  <2>4. x \in H
    BY <1>4, <1>6, GrowthAtSeed DEF NewAt
  <2> QED BY <2>1, <2>2, <2>3, <2>4
<1>8. ProofAt(j) \in Seq(H)
  <2>1. node = 0 => ProofAt(j) \in Seq(H)
    <3>1. \A S : <<>> \in Seq(S)
      OBVIOUS
    <3> QED BY <1>7, <3>1
  <2>2. node # 0 => ProofAt(j) \in Seq(H)
    <3>1. <<x>> \in Seq(H)
      BY <1>7
    <3> QED BY <1>7, <3>1
  <2> QED BY <2>1, <2>2
<1>9. OnTheWay(NewLeaves, Last, claim.newSize, j)
  BY <1>6, <1>8 DEF OnTheWay, ProofAt
<1>10. proof = <<>> /\ oldHash = claim.oldRoot /\ newHash = claim.oldRoot
  BY <1>1 DEF GInv
<1>11. newHash' = NewAt(j) => oldHash' = OldAt(j) /\ proof' = ProofAt(j)
  <2>1. oldHash' = newHash'
    BY <1>10 DEF Seed
  <2>2. CASE node = 0
    <3>1. proof' = <<>>
      BY <1>10, <2>2 DEF Seed
    <3> QED BY <1>7, <2>1, <2>2, <3>1
  <2>3. CASE node # 0
    <3>1. \E h \in Shiftable : Shift(h) /\ oldHash' = h /\ newHash' = h
      BY <2>3 DEF Seed
    <3>2. proof' = Append(<<>>, newHash')
      BY <1>10, <3>1 DEF Shift
    <3>3. \A y : Append(<<>>, y) = <<y>>
      OBVIOUS
    <3>4. proof' = <<newHash'>>
      BY <3>2, <3>3
    <3> QED BY <1>7, <2>1, <2>3, <3>4
  <2> QED BY <2>2, <2>3
<1>12. IsGrowth => newHash' = NewAt(j)
  <2> SUFFICES ASSUME IsGrowth PROVE newHash' = NewAt(j)
    OBVIOUS
  <2>1. CASE node = 0
    <3>1. newHash' = TrueOldRoot
      BY <1>10, <2>1 DEF Seed, IsGrowth
    <3>2. OldAt(j) = TrueOldRoot
      <4>1. Walk((Last + 1) - 1)[j] = 0 /\ Last < Last + 1 /\ Last + 1 \in Nat
        <5>1. Walk((Last + 1) - 1)[j] = Walk(Last)[j]
          BY <1>4, OldEdge
        <5>2. Last < Last + 1 /\ Last + 1 \in Nat
          BY <1>4
        <5> QED BY <1>5, <2>1, <5>1, <5>2
      <4>2. OldAt(j) = Mth(NewLeaves, 0, Last + 1)
        BY <1>4, <4>1, AtTheRoot DEF OldAt
      <4> QED BY <1>4, <4>2 DEF TrueOldRoot
    <3> QED BY <1>7, <3>1, <3>2
  <2>2. CASE node # 0
    <3>1. Begins(ProofAt(j), Built) /\ Built \in Seq(H)
      <4>1. /\ Begins(ProofAt(j), Subproof(Last + 1, NewLeaves, 0, claim.newSize, TRUE))
            /\ Subproof(Last + 1, NewLeaves, 0, claim.newSize, TRUE) \in Seq(H)
        BY <1>4, <1>9, GrowthBeginsWhole DEF ProofAt
      <4> QED BY <1>4, <4>1, TrueRoots
    <3>2. Append(proof, x) = ProofAt(j) /\ proof \in Seq(H)
      <4>1. (\A S : <<>> \in Seq(S)) /\ \A y : Append(<<>>, y) = <<y>>
        OBVIOUS
      <4> QED BY <1>7, <1>10, <2>2, <4>1
    <3>3. \E h \in Shiftable : newHash' = h
      BY <2>2 DEF Seed
    <3> HIDE DEF x, H
    <3>4. Shiftable = {x}
      BY <1>7, <3>1, <3>2, BuilderShifts DEF IsGrowth
    <3> QED BY <3>3, <3>4 DEF x
  <2> QED BY <2>1, <2>2
<1>13. OldReached(j)'
  <2>1. Walking(j)'
    BY <1>1, <1>3 DEF Walking, Last
  <2> QED BY <1>1, <1>9, <1>11, <1>12, <2>1, SameClaim DEF OldReached
<1>14. GrowthDecided'
  BY <1>1 DEF GrowthDecided, GrowthAccepted, OnlyGrowthAccepted
<1> QED BY <1>1, <1>2, <1>13, <1>14 DEF GInv

-----------------------------------------------------------------------------
(* Up from the seed. *)

LEMMA OldFacts ==
    ASSUME GInv, stage = "old"
    PROVE  /\ claim.oldSize \in 1..(claim.newSize - 1)
           /\ Last \in Nat /\ claim.newSize \in Nat /\ Last + 1 = claim.oldSize
           /\ Last + 1 < claim.newSize /\ Last < claim.newSize /\ claim.oldSize \in 1..claim.newSize
           /\ \E j \in Nat : OldReached(j)
<1>1. claim.oldSize \in 1..(claim.newSize - 1) /\ \E j \in Nat : OldReached(j)
  BY DEF GInv
<1> QED BY <1>1, WalkSizes

LEMMA NewFacts ==
    ASSUME GInv, stage = "new"
    PROVE  /\ claim.oldSize \in 1..(claim.newSize - 1)
           /\ Last \in Nat /\ claim.newSize \in Nat /\ Last + 1 = claim.oldSize
           /\ Last + 1 < claim.newSize /\ Last < claim.newSize /\ claim.oldSize \in 1..claim.newSize
           /\ \E j \in Nat : NewReached(j)
<1>1. claim.oldSize \in 1..(claim.newSize - 1) /\ \E j \in Nat : NewReached(j)
  BY DEF GInv
<1> QED BY <1>1, WalkSizes

\* One level up.
LEMMA OldKeeps ==
    ASSUME GInv, stage = "old", NEW j \in Nat, OldReached(j + 1)', UNCHANGED <<claim, stage>>
    PROVE  GInv'
<1>1. j + 1 \in Nat
  OBVIOUS
<1>2. \E i \in Nat : OldReached(i)'
  BY <1>1
<1>3. GrowthDecided'
  BY DEF GrowthDecided, GrowthAccepted, OnlyGrowthAccepted
<1> QED BY <1>2, <1>3 DEF GInv

LEMMA NewKeeps ==
    ASSUME GInv, stage = "new", NEW j \in Nat, NewReached(j + 1)', UNCHANGED <<claim, stage>>
    PROVE  GInv'
<1>1. j + 1 \in Nat
  OBVIOUS
<1>2. \E i \in Nat : NewReached(i)'
  BY <1>1
<1>3. GrowthDecided'
  BY DEF GrowthDecided, GrowthAccepted, OnlyGrowthAccepted
<1> QED BY <1>2, <1>3 DEF GInv

\* Above the seed, what the builder gives next is the sibling.
LEMMA BuilderShiftsSibling ==
    ASSUME GInv, claim.oldSize \in 1..(claim.newSize - 1), claim.prover = "builder",
           NEW j \in Nat, OnTheWay(NewLeaves, Last, claim.newSize, j),
           proof = ProofAt(j), ProofAt(j + 1) = Append(proof, NextAt(j))
    PROVE  Shiftable = {NextAt(j)} /\ ~NothingLeft
<1> DEFINE H == Hashes(NewLeaves)
           x == NextAt(j)
<1>1. /\ Last \in Nat /\ claim.newSize \in Nat /\ Last + 1 = claim.oldSize
      /\ Last + 1 < claim.newSize /\ Last < claim.newSize /\ claim.oldSize \in 1..claim.newSize
  BY WalkSizes
<1>2. x \in H
  BY <1>1, SiblingType DEF NextAt
<1>3. proof \in Seq(H)
  BY DEF OnTheWay, ProofAt
<1>4. OnTheWay(NewLeaves, Last, claim.newSize, j + 1)
  BY <1>1, GrowthStep
<1>5. Begins(Append(proof, x), Built) /\ Built \in Seq(H)
  <2>1. j + 1 \in Nat
    OBVIOUS
  <2>2. /\ Begins(ProofAt(j + 1), Subproof(Last + 1, NewLeaves, 0, claim.newSize, TRUE))
        /\ Subproof(Last + 1, NewLeaves, 0, claim.newSize, TRUE) \in Seq(H)
    BY <1>1, <1>4, <2>1, GrowthBeginsWhole DEF ProofAt
  <2> QED BY <1>1, <2>2, TrueRoots
<1> HIDE DEF x, H
<1>6. Shiftable = {x} /\ ~NothingLeft
  BY <1>2, <1>3, <1>5, BuilderShifts
<1> QED BY <1>6 DEF x

LEMMA ShiftLeftKeeps == ASSUME GInv, ShiftLeft PROVE GInv'
<1>1. stage = "old" /\ node % 2 = 1 /\ HalveBoth /\ UNCHANGED <<claim, stage>>
  BY DEF ShiftLeft
<1>2. PICK h \in Shiftable : /\ proof' = Append(proof, h)
                             /\ oldHash' = HashInteriorNode(h, oldHash)
                             /\ newHash' = HashInteriorNode(h, newHash)
  BY DEF ShiftLeft, Shift
<1>3. PICK j \in Nat : OldReached(j)
  BY <1>1, OldFacts
<1>4. /\ Last \in Nat /\ claim.newSize \in Nat /\ Last + 1 < claim.newSize /\ Last < claim.newSize
      /\ claim.oldSize \in 1..(claim.newSize - 1)
  BY <1>1, OldFacts
<1>5. Walking(j) /\ OnTheWay(NewLeaves, Last, claim.newSize, j)
  BY <1>3 DEF OldReached
<1>6. Walk(Last)[j] % 2 = 1
  BY <1>1, <1>5 DEF Walking
<1> DEFINE x == NextAt(j)
           c == NewAt(j)
           c2 == NewAt(j + 1)
           o == OldAt(j)
           o2 == OldAt(j + 1)
           p == ProofAt(j)
           p2 == ProofAt(j + 1)
<1>7. c2 = HashInteriorNode(x, c)
  BY <1>4, <1>6, LeftParent DEF NewAt, NextAt
<1>8. o2 = HashInteriorNode(x, o)
  BY <1>4, <1>6, OldParent DEF OldAt, NextAt
<1>9. p2 = Append(p, x)
  <2>1. HasNew(Last, claim.newSize, j)
    BY <1>5, <1>6 DEF OnTheWay, IsSeed
  <2> QED BY <1>4, <1>6, <2>1, GrowthFromRight DEF ProofAt, NextAt
<1>10. IsGrowth /\ proof = p => h = x
  BY <1>2, <1>4, <1>5, <1>9, BuilderShiftsSibling DEF IsGrowth
<1>11. /\ newHash = c => oldHash = o /\ proof = p
       /\ IsGrowth => newHash = c /\ oldHash = o /\ proof = p
  BY <1>3 DEF OldReached
<1> HIDE DEF x, c, c2, o, o2, p, p2
<1>12. newHash' = c2 => h = x /\ newHash = c
  BY <1>2, <1>7 DEF HashInteriorNode
<1>13. /\ newHash' = c2 => oldHash' = o2 /\ proof' = p2
       /\ IsGrowth => newHash' = c2 /\ oldHash' = o2 /\ proof' = p2
  BY <1>2, <1>7, <1>8, <1>9, <1>10, <1>11, <1>12
<1>14. OldReached(j + 1)'
  <2>1. j + 1 \in Nat
    OBVIOUS
  <2>2. Walking(j + 1)'
    BY <1>1, <1>4, <1>5, HalvedWalk
  <2>3. OnTheWay(NewLeaves, Last, claim.newSize, j + 1)
    BY <1>4, <1>5, GrowthStep
  <2> QED BY <1>1, <1>13, <2>1, <2>2, <2>3, SameClaim DEF OldReached, c2, o2, p2
<1> QED BY <1>1, <1>14, OldKeeps

LEMMA ShiftRightKeeps == ASSUME GInv, ShiftRight PROVE GInv'
<1>1. /\ stage = "old" /\ node % 2 = 0 /\ node < lastNode /\ HalveBoth
      /\ UNCHANGED <<claim, oldHash, stage>>
  BY DEF ShiftRight
<1>2. PICK h \in Shiftable : proof' = Append(proof, h) /\ newHash' = HashInteriorNode(newHash, h)
  BY DEF ShiftRight, Shift
<1>3. PICK j \in Nat : OldReached(j)
  BY <1>1, OldFacts
<1>4. /\ Last \in Nat /\ claim.newSize \in Nat /\ Last + 1 < claim.newSize /\ Last < claim.newSize
      /\ claim.oldSize \in 1..(claim.newSize - 1)
  BY <1>1, OldFacts
<1>5. Walking(j) /\ OnTheWay(NewLeaves, Last, claim.newSize, j)
  BY <1>3 DEF OldReached
<1>6. Walk(Last)[j] % 2 = 0 /\ Walk(Last)[j] < Walk(claim.newSize - 1)[j]
  BY <1>1, <1>5 DEF Walking
<1> DEFINE x == NextAt(j)
           c == NewAt(j)
           c2 == NewAt(j + 1)
           o == OldAt(j)
           o2 == OldAt(j + 1)
           p == ProofAt(j)
           p2 == ProofAt(j + 1)
<1>7. c2 = HashInteriorNode(c, x)
  BY <1>4, <1>6, RightParent DEF NewAt, NextAt
<1>8. o2 = o
  BY <1>4, <1>6, OldParent DEF OldAt, NextAt
<1>9. p2 = Append(p, x)
  BY <1>4, <1>6, GrowthFromLeft DEF ProofAt, NextAt
<1>10. IsGrowth /\ proof = p => h = x
  BY <1>2, <1>4, <1>5, <1>9, BuilderShiftsSibling DEF IsGrowth
<1>11. /\ newHash = c => oldHash = o /\ proof = p
       /\ IsGrowth => newHash = c /\ oldHash = o /\ proof = p
  BY <1>3 DEF OldReached
<1> HIDE DEF x, c, c2, o, o2, p, p2
<1>12. newHash' = c2 => h = x /\ newHash = c
  BY <1>2, <1>7 DEF HashInteriorNode
<1>13. /\ newHash' = c2 => oldHash' = o2 /\ proof' = p2
       /\ IsGrowth => newHash' = c2 /\ oldHash' = o2 /\ proof' = p2
  BY <1>1, <1>2, <1>7, <1>8, <1>9, <1>10, <1>11, <1>12
<1>14. OldReached(j + 1)'
  <2>1. j + 1 \in Nat
    OBVIOUS
  <2>2. Walking(j + 1)'
    BY <1>1, <1>4, <1>5, HalvedWalk
  <2>3. OnTheWay(NewLeaves, Last, claim.newSize, j + 1)
    BY <1>4, <1>5, GrowthStep
  <2> QED BY <1>1, <1>13, <2>1, <2>2, <2>3, SameClaim DEF OldReached, c2, o2, p2
<1> QED BY <1>1, <1>14, OldKeeps

LEMMA ShiftNothingKeeps == ASSUME GInv, ShiftNothing PROVE GInv'
<1>1. /\ stage = "old" /\ node % 2 = 0 /\ node >= lastNode /\ HalveBoth
      /\ UNCHANGED <<claim, proof, oldHash, newHash, stage>>
  BY DEF ShiftNothing
<1>2. PICK j \in Nat : OldReached(j)
  BY <1>1, OldFacts
<1>3. /\ Last \in Nat /\ claim.newSize \in Nat /\ Last + 1 < claim.newSize /\ Last < claim.newSize
      /\ claim.oldSize \in 1..(claim.newSize - 1)
  BY <1>1, OldFacts
<1>4. Walking(j) /\ OnTheWay(NewLeaves, Last, claim.newSize, j)
  BY <1>2 DEF OldReached
<1>5. Walk(Last)[j] % 2 = 0 /\ Walk(Last)[j] = Walk(claim.newSize - 1)[j]
  <2>1. /\ node = Walk(Last)[j] /\ lastNode = Walk(claim.newSize - 1)[j]
        /\ node \in Nat /\ lastNode \in Nat /\ node <= lastNode
    BY <1>3, <1>4, WalkFacts
  <2>2. node = lastNode
    BY <1>1, <2>1
  <2> QED BY <1>1, <2>1, <2>2
<1>6. NewAt(j + 1) = NewAt(j) /\ OldAt(j + 1) = OldAt(j) /\ ProofAt(j + 1) = ProofAt(j)
  <2>1. NewAt(j + 1) = NewAt(j)
    BY <1>3, <1>5, SameNode DEF NewAt
  <2>2. OldAt(j + 1) = OldAt(j)
    BY <1>3, <1>5, OldParent DEF OldAt
  <2>3. ProofAt(j + 1) = ProofAt(j)
    BY <1>3, <1>5, GrowthOnEdge DEF ProofAt
  <2> QED BY <2>1, <2>2, <2>3
<1>7. OldReached(j + 1)'
  <2>1. j + 1 \in Nat
    OBVIOUS
  <2>2. Walking(j + 1)'
    BY <1>1, <1>3, <1>4, HalvedWalk
  <2>3. OnTheWay(NewLeaves, Last, claim.newSize, j + 1)
    BY <1>3, <1>4, GrowthStep
  <2> QED BY <1>1, <1>2, <1>6, <2>1, <2>2, <2>3, SameClaim DEF OldReached
<1> QED BY <1>1, <1>7, OldKeeps

\* At the top of the old tree's walk the old hash decides.
LEMMA CompareOldKeeps == ASSUME GInv, CompareOld PROVE GInv'
<1>1. /\ stage = "old" /\ node = 0
      /\ stage' = IF oldHash = claim.oldRoot THEN "new" ELSE "rejected"
      /\ UNCHANGED <<claim, proof, node, lastNode, oldHash, newHash>>
  BY DEF CompareOld, Decide
<1>2. PICK j \in Nat : OldReached(j)
  BY <1>1, OldFacts
<1>3. Last \in Nat /\ Last + 1 = claim.oldSize /\ claim.oldSize \in 1..(claim.newSize - 1)
  BY <1>1, OldFacts
<1>4. OldAt(j) = TrueOldRoot
  <2>1. Walk((Last + 1) - 1)[j] = 0
    <3>1. Walk((Last + 1) - 1)[j] = Walk(Last)[j]
      BY <1>3, OldEdge
    <3> QED BY <1>1, <1>2, <3>1 DEF OldReached, Walking
  <2>2. Last < Last + 1 /\ Last + 1 \in Nat
    BY <1>3
  <2>3. OldAt(j) = Mth(NewLeaves, 0, Last + 1)
    BY <1>3, <2>1, <2>2, AtTheRoot DEF OldAt
  <2> QED BY <1>3, <2>3 DEF TrueOldRoot
<1>5. CASE oldHash = claim.oldRoot
  <2>1. stage' = "new"
    BY <1>1, <1>5
  <2>2. NewReached(j)
    BY <1>1, <1>2, <1>4, <1>5 DEF OldReached, NewReached
  <2>3. NewReached(j)'
    <3>1. Walking(j)' <=> Walking(j)
      BY <1>1 DEF Walking, Last
    <3> QED BY <1>1, <2>2, <3>1, SameClaim DEF NewReached
  <2>4. GrowthDecided'
    BY <2>1 DEF GrowthDecided, GrowthAccepted, OnlyGrowthAccepted
  <2> QED BY <1>1, <1>3, <2>1, <2>3, <2>4 DEF GInv
<1>6. CASE oldHash # claim.oldRoot
  <2>1. stage' = "rejected" /\ ~IsGrowth
    BY <1>1, <1>2, <1>4, <1>6 DEF OldReached, IsGrowth
  <2> QED BY <1>1, <2>1, RefusalKeeps
<1> QED BY <1>5, <1>6

LEMMA ExtendKeeps == ASSUME GInv, Extend PROVE GInv'
<1>1. /\ stage = "new" /\ lastNode > 0 /\ lastNode' = lastNode \div 2
      /\ UNCHANGED <<claim, node, oldHash, stage>>
  BY DEF Extend
<1>2. PICK h \in Shiftable : proof' = Append(proof, h) /\ newHash' = HashInteriorNode(newHash, h)
  BY DEF Extend, Shift
<1>3. PICK j \in Nat : NewReached(j)
  BY <1>1, NewFacts
<1>4. /\ Last \in Nat /\ claim.newSize \in Nat /\ Last + 1 < claim.newSize /\ Last < claim.newSize
      /\ claim.oldSize \in 1..(claim.newSize - 1)
  BY <1>1, NewFacts
<1>5. node = 0 /\ Walking(j) /\ OnTheWay(NewLeaves, Last, claim.newSize, j)
  BY <1>3 DEF NewReached
<1>6. Walk(Last)[j] % 2 = 0 /\ Walk(Last)[j] < Walk(claim.newSize - 1)[j]
  <2>1. /\ Walk(Last)[j] = 0 /\ Walk(claim.newSize - 1)[j] > 0
    BY <1>1, <1>5 DEF Walking
  <2> QED BY <2>1
<1> DEFINE x == NextAt(j)
           c == NewAt(j)
           c2 == NewAt(j + 1)
           p == ProofAt(j)
           p2 == ProofAt(j + 1)
<1>7. c2 = HashInteriorNode(c, x)
  BY <1>4, <1>6, RightParent DEF NewAt, NextAt
<1>8. p2 = Append(p, x)
  BY <1>4, <1>6, GrowthFromLeft DEF ProofAt, NextAt
<1>9. IsGrowth /\ proof = p => h = x
  BY <1>2, <1>4, <1>5, <1>8, BuilderShiftsSibling DEF IsGrowth
<1>10. /\ newHash = c => claim.oldRoot = TrueOldRoot /\ proof = p
       /\ IsGrowth => newHash = c /\ proof = p
  BY <1>3 DEF NewReached
<1> HIDE DEF x, c, c2, p, p2
<1>11. newHash' = c2 => h = x /\ newHash = c
  BY <1>2, <1>7 DEF HashInteriorNode
<1>12. /\ newHash' = c2 => claim.oldRoot = TrueOldRoot /\ proof' = p2
       /\ IsGrowth => newHash' = c2 /\ proof' = p2
  BY <1>2, <1>7, <1>8, <1>9, <1>10, <1>11
<1>13. NewReached(j + 1)'
  <2>1. j + 1 \in Nat
    OBVIOUS
  <2>2. Walking(j + 1)'
    <3>1. node' = node \div 2
      BY <1>1, <1>5
    <3> QED BY <1>1, <1>4, <1>5, <3>1, HalvedWalk DEF HalveBoth
  <2>3. OnTheWay(NewLeaves, Last, claim.newSize, j + 1)
    BY <1>4, <1>5, GrowthStep
  <2> QED BY <1>1, <1>5, <1>12, <2>1, <2>2, <2>3, SameClaim DEF NewReached, c2, p2
<1> QED BY <1>1, <1>13, NewKeeps

\* Only a list that is not the builder's proof runs out.
LEMMA ProofRunsOutKeeps == ASSUME GInv, ProofRunsOut PROVE GInv'
<1>1. NothingLeft /\ stage' = "rejected" /\ UNCHANGED claim
  BY DEF ProofRunsOut, Decide
<1>2. ~IsGrowth
  <2> SUFFICES ASSUME IsGrowth PROVE FALSE
    OBVIOUS
  <2>0. claim.prover = "builder"
    BY DEF IsGrowth
  <2>1. CASE stage = "climb" /\ node % 2 = 0 /\ node > 0
    <3>1. claim.oldSize \in 1..(claim.newSize - 1) /\ proof = <<>>
      BY <2>1 DEF GInv
    <3>2. PICK j \in Nat : Walking(j) /\ EndsAt(Last, j)
      BY <2>1 DEF GInv
    <3>3. /\ Last \in Nat /\ claim.newSize \in Nat /\ Last + 1 = claim.oldSize
          /\ Last + 1 < claim.newSize /\ claim.oldSize \in 1..claim.newSize
      BY <3>1, WalkSizes
    <3>4. Walk(Last)[j] % 2 = 0 /\ Walk(Last)[j] # 0
      BY <2>1, <3>2 DEF Walking
    <3>5. IsSeed(Last, claim.newSize, j)
      BY <3>2, <3>3, <3>4, EndsAtSeed
    <3> DEFINE x == NewAt(j)
               H == Hashes(NewLeaves)
    <3>6. ProofAt(j) = <<x>> /\ x \in H
      <4>1. /\ GrowthAt(NewLeaves, Last, claim.newSize, j)
                  = <<HashAt(NewLeaves, Last, claim.newSize, j)>>
            /\ HashAt(NewLeaves, Last, claim.newSize, j) \in Hashes(NewLeaves)
        BY <3>3, <3>4, <3>5, GrowthAtSeed
      <4> QED BY <4>1 DEF ProofAt, NewAt
    <3>7. OnTheWay(NewLeaves, Last, claim.newSize, j)
      <4>1. <<x>> \in Seq(H)
        BY <3>6
      <4> QED BY <3>5, <3>6, <4>1 DEF OnTheWay, ProofAt
    <3>8. Begins(ProofAt(j), Built) /\ Built \in Seq(H)
      <4>1. /\ Begins(ProofAt(j), Subproof(Last + 1, NewLeaves, 0, claim.newSize, TRUE))
            /\ Subproof(Last + 1, NewLeaves, 0, claim.newSize, TRUE) \in Seq(H)
        BY <3>3, <3>7, GrowthBeginsWhole DEF ProofAt
      <4> QED BY <3>3, <4>1, TrueRoots
    <3>9. Append(proof, x) = ProofAt(j) /\ proof \in Seq(H)
      <4>1. (\A S : <<>> \in Seq(S)) /\ \A y : Append(<<>>, y) = <<y>>
        OBVIOUS
      <4> QED BY <3>1, <3>6, <4>1
    <3> HIDE DEF x, H
    <3> QED BY <1>1, <2>0, <3>6, <3>8, <3>9, BuilderShifts
  <2>2. CASE stage = "old" /\ node > 0 /\ (node % 2 = 1 \/ node < lastNode)
    <3>1. PICK j \in Nat : OldReached(j)
      BY <2>2, OldFacts
    <3>2. /\ Last \in Nat /\ claim.newSize \in Nat /\ Last + 1 < claim.newSize /\ Last < claim.newSize
          /\ claim.oldSize \in 1..(claim.newSize - 1)
      BY <2>2, OldFacts
    <3>3. Walking(j) /\ OnTheWay(NewLeaves, Last, claim.newSize, j) /\ proof = ProofAt(j)
      BY <3>1 DEF OldReached
    <3>4. node = Walk(Last)[j] /\ lastNode = Walk(claim.newSize - 1)[j] /\ node \in Nat
      BY <3>2, <3>3, WalkFacts
    <3>5. ProofAt(j + 1) = Append(proof, NextAt(j))
      <4>1. CASE node % 2 = 1
        <5>1. Walk(Last)[j] % 2 = 1
          BY <3>4, <4>1
        <5>2. HasNew(Last, claim.newSize, j)
          BY <3>3, <5>1 DEF OnTheWay, IsSeed
        <5> QED BY <3>2, <3>3, <5>1, <5>2, GrowthFromRight DEF ProofAt, NextAt
      <4>2. CASE node % 2 = 0
        <5>1. Walk(Last)[j] % 2 = 0 /\ Walk(Last)[j] < Walk(claim.newSize - 1)[j]
          BY <2>2, <3>4, <4>2
        <5> QED BY <3>2, <3>3, <5>1, GrowthFromLeft DEF ProofAt, NextAt
      <4> QED BY <3>4, <4>1, <4>2
    <3> QED BY <1>1, <2>0, <3>2, <3>3, <3>5, BuilderShiftsSibling
  <2>3. CASE stage = "new" /\ lastNode > 0
    <3>1. PICK j \in Nat : NewReached(j)
      BY <2>3, NewFacts
    <3>2. /\ Last \in Nat /\ claim.newSize \in Nat /\ Last + 1 < claim.newSize /\ Last < claim.newSize
          /\ claim.oldSize \in 1..(claim.newSize - 1)
      BY <2>3, NewFacts
    <3>3. /\ node = 0 /\ Walking(j) /\ OnTheWay(NewLeaves, Last, claim.newSize, j)
          /\ proof = ProofAt(j)
      BY <3>1 DEF NewReached
    <3>4. Walk(Last)[j] % 2 = 0 /\ Walk(Last)[j] < Walk(claim.newSize - 1)[j]
      <4>1. Walk(Last)[j] = 0 /\ Walk(claim.newSize - 1)[j] > 0
        BY <2>3, <3>3 DEF Walking
      <4> QED BY <4>1
    <3>5. ProofAt(j + 1) = Append(proof, NextAt(j))
      BY <3>2, <3>3, <3>4, GrowthFromLeft DEF ProofAt, NextAt
    <3> QED BY <1>1, <2>0, <3>2, <3>3, <3>5, BuilderShiftsSibling
  <2> QED BY <2>1, <2>2, <2>3 DEF ProofRunsOut
<1> QED BY <1>1, <1>2, RefusalKeeps

LEMMA CompareNewKeeps == ASSUME GInv, CompareNew PROVE GInv'
<1>1. stage = "new" /\ lastNode = 0 /\ UNCHANGED claim
  BY DEF CompareNew, Decide, Leftover
<1>2. PICK j \in Nat : NewReached(j)
  BY <1>1, NewFacts
<1>3. /\ Last \in Nat /\ claim.newSize \in Nat /\ Last + 1 = claim.oldSize
      /\ Last + 1 < claim.newSize /\ Last < claim.newSize /\ claim.oldSize \in 1..claim.newSize
  BY <1>1, NewFacts
<1>4. Walk(claim.newSize - 1)[j] = 0
  BY <1>1, <1>2 DEF NewReached, Walking
<1>5. NewAt(j) = NewRoot
  BY <1>3, <1>4, AtTheRoot, TrueRoots DEF NewAt
<1>6. ProofAt(j) = Built
  BY <1>3, <1>4, GrowthAtTop, TrueRoots DEF ProofAt
<1>7. /\ newHash = NewRoot => claim.oldRoot = TrueOldRoot /\ proof = Built
      /\ IsGrowth => newHash = NewRoot /\ proof = Built
  BY <1>2, <1>5, <1>6 DEF NewReached
<1>8. Built \in Seq(Hashes(NewLeaves))
  BY <1>2, <1>6 DEF NewReached, OnTheWay, ProofAt
<1>9. CASE NothingLeft /\ Decide(Outcome(newHash = NewRoot))
  <2>1. UNCHANGED <<claim, proof>> /\ stage' = Outcome(newHash = NewRoot)
    BY <1>9 DEF Decide
  <2>2. CASE newHash = NewRoot
    <3>1. stage' = "accepted"
      BY <2>1, <2>2 DEF Outcome
    <3> QED BY <1>3, <1>7, <2>1, <2>2, <3>1, AcceptanceKeeps
  <2>3. CASE newHash # NewRoot
    <3>1. stage' = "rejected"
      BY <2>1, <2>3 DEF Outcome
    <3> QED BY <1>7, <2>1, <2>3, <3>1, RefusalKeeps
  <2> QED BY <2>2, <2>3
<1>10. CASE Leftover("rejected")
  <2>1. stage' = "rejected" /\ \E h \in Shiftable : TRUE
    BY <1>10 DEF Leftover
  <2>2. IsGrowth => Shiftable = {}
    BY <1>7, <1>8, BuilderEnds DEF IsGrowth
  <2> QED BY <1>1, <2>1, <2>2, RefusalKeeps
<1> QED BY <1>9, <1>10 DEF CompareNew

LEMMA StepGInv == GInv /\ [ConsistencyNext]_consistencyVars => GInv'
<1> SUFFICES ASSUME GInv, [ConsistencyNext]_consistencyVars PROVE GInv'
  OBVIOUS
<1>1. CASE SizesOutOfRange
  BY <1>1, SizesOutOfRangeKeeps
<1>2. CASE EqualSizes
  BY <1>2, EqualSizesKeeps
<1>3. CASE EnterWalk
  BY <1>3, EnterWalkKeeps
<1>4. CASE Climb
  BY <1>4, ClimbGKeeps
<1>5. CASE Seed
  BY <1>5, SeedKeeps
<1>6. CASE ShiftLeft
  BY <1>6, ShiftLeftKeeps
<1>7. CASE ShiftRight
  BY <1>7, ShiftRightKeeps
<1>8. CASE ShiftNothing
  BY <1>8, ShiftNothingKeeps
<1>9. CASE CompareOld
  BY <1>9, CompareOldKeeps
<1>10. CASE Extend
  BY <1>10, ExtendKeeps
<1>11. CASE ProofRunsOut
  BY <1>11, ProofRunsOutKeeps
<1>12. CASE CompareNew
  BY <1>12, CompareNewKeeps
<1>13. CASE UNCHANGED consistencyVars
  <2>1. UNCHANGED <<claim, proof, node, lastNode, oldHash, newHash, stage>>
    BY <1>13 DEF consistencyVars
  <2>2. /\ \A j \in Nat : (Walking(j) /\ EndsAt(Last, j))' <=> Walking(j) /\ EndsAt(Last, j)
        /\ \A j \in Nat : (OldReached(j)' <=> OldReached(j)) /\ (NewReached(j)' <=> NewReached(j))
    <3> SUFFICES ASSUME NEW j \in Nat
                 PROVE  /\ (Walking(j) /\ EndsAt(Last, j))' <=> Walking(j) /\ EndsAt(Last, j)
                        /\ (OldReached(j)' <=> OldReached(j)) /\ (NewReached(j)' <=> NewReached(j))
      OBVIOUS
    <3>1. Walking(j)' <=> Walking(j)
      BY <2>1 DEF Walking, Last
    <3>2. OldReached(j)' <=> OldReached(j)
      BY <2>1, <3>1, SameClaim DEF OldReached
    <3>3. NewReached(j)' <=> NewReached(j)
      BY <2>1, <3>1, SameClaim DEF NewReached
    <3> QED BY <2>1, <3>1, <3>2, <3>3, SameClaim
  <2>3. GrowthDecided' <=> GrowthDecided
    BY <2>1 DEF GrowthDecided, GrowthAccepted, OnlyGrowthAccepted, OldTree, Built, NewLeaves
  <2> QED BY <2>1, <2>2, <2>3 DEF GInv
<1> QED BY <1>1, <1>2, <1>3, <1>4, <1>5, <1>6, <1>7, <1>8, <1>9, <1>10, <1>11, <1>12, <1>13
        DEF ConsistencyNext

\* For trees of any two sizes and any list of hashes: verifyConsistency accepts the
\* root the smaller tree really has with the proof buildConsistencyProof makes for
\* the two sizes, and no other root and no other list.
THEOREM GrowthIsDecided == ConsistencySpec => []GrowthDecided
<1>1. GInv => GrowthDecided
  BY DEF GInv
<1> QED BY InitGInv, StepGInv, <1>1, PTL DEF ConsistencySpec

-----------------------------------------------------------------------------
(* A list hashed in chunks of a power of two has the root of the whole list:  *)
(* the chunks are nodes of its tree, whatever is left for the last of them.   *)

LEMMA PowSum ==
    ASSUME NEW a \in Nat, NEW b \in Nat PROVE Pow2[a + b] = Pow2[a] * Pow2[b]
<1> DEFINE P == {i \in Nat : Pow2[a + i] = Pow2[a] * Pow2[i]}
<1>1. 0 \in P
  <2>1. Pow2[0] = 1 /\ Pow2[a] \in Nat /\ a + 0 = a
    BY PowStep
  <2> QED BY <2>1
<1>2. ASSUME NEW i \in Nat, i \in P PROVE i + 1 \in P
  <2> DEFINE x == Pow2[a]
             y == Pow2[i]
  <2>1. x \in Nat /\ y \in Nat /\ Pow2[i + 1] = 2 * y
    BY PowStep
  <2>2. Pow2[(a + i) + 1] = 2 * Pow2[a + i]
    BY PowStep, a + i \in Nat
  <2>3. Pow2[a + i] = x * y /\ (a + i) + 1 = a + (i + 1)
    BY <1>2
  <2> HIDE DEF x, y
  <2>4. x * (2 * y) = 2 * (x * y)
    BY <2>1
  <2>5. Pow2[a + (i + 1)] = x * Pow2[i + 1]
    BY <2>1, <2>2, <2>3, <2>4
  <2> QED BY <2>5 DEF x
<1> HIDE DEF P
<1>3. Nat \subseteq P
  BY <1>1, <1>2, SetInduction
<1> QED BY <1>3 DEF P

\* Where the b-th chunk of w out of n ends.
ChunkEnd(b, n, w) == IF b * w < n THEN b * w ELSE n

IsChunked(chunks, c, list, n, w) ==
    /\ c \in Nat /\ n \in Nat /\ w \in Nat /\ 0 < c /\ (c - 1) * w < n /\ n <= c * w
    /\ \E e \in Nat : w = Pow2[e]
    /\ \A i \in 1..c : chunks[i] = Mth(list, (i - 1) * w, ChunkEnd(i, n, w))

\* What a split of k chunks at p is to the cells under them.
LEMMA ChunkSplit ==
    ASSUME NEW chunks, NEW c, NEW list, NEW n, NEW w, IsChunked(chunks, c, list, n, w),
           NEW a \in Nat, NEW k \in Nat, k > 1, a + k <= c,
           NEW p, p = LargestPow2LessThan(k)
    PROVE  /\ p \in Nat /\ 0 < p /\ p < k
           /\ SplitsAt(a, a + p, a + k)
           /\ ChunkEnd(a + p, n, w) = (a + p) * w
           /\ SplitsAt(a * w, (a + p) * w, ChunkEnd(a + k, n, w))
<1>1. p \in Nat /\ 0 < p /\ p < k /\ k <= 2 * p /\ \E j \in Nat : p = Pow2[j]
  BY SplitPower
<1>2. PICK j \in Nat : p = Pow2[j]
  BY <1>1
<1>3. PICK e \in Nat : w = Pow2[e]
  BY DEF IsChunked
<1>4. /\ c \in Nat /\ n \in Nat /\ w \in Nat \ {0} /\ (c - 1) * w < n /\ n <= c * w
  BY <1>3, PowGrows DEF IsChunked
<1>5. SplitsAt(a, a + p, a + k)
  <2> DEFINE x == a + p
             y == a + k
  <2>1. x \in Nat /\ y \in Nat /\ x - a = p /\ y - a = k
    BY <1>1
  <2> HIDE DEF x, y
  <2>2. SplitsAt(a, x, y)
    BY <2>1 DEF SplitsAt
  <2> QED BY <2>2 DEF x, y
<1> DEFINE lo == a * w
           pw == p * w
           kw == k * w
           mid == (a + p) * w
           hi == ChunkEnd(a + k, n, w)
<1>6. lo \in Nat /\ pw \in Nat /\ kw \in Nat /\ 0 < pw /\ mid = lo + pw /\ (a + k) * w = lo + kw
      /\ kw <= 2 * pw /\ pw + w <= kw
  <2>1. lo \in Nat /\ pw \in Nat /\ kw \in Nat
    BY <1>1, <1>4
  <2>2. mid = lo + pw /\ (a + k) * w = lo + kw
    BY <1>1, <1>4
  <2>3. p - 1 \in Nat /\ pw = (p - 1) * w + w /\ (p - 1) * w \in Nat
    BY <1>1, <1>4
  <2>4. k - (p + 1) \in Nat /\ kw = (k - (p + 1)) * w + (pw + w) /\ (k - (p + 1)) * w \in Nat
    BY <1>1, <1>4
  <2>5. 2 * p - k \in Nat /\ 2 * pw = (2 * p - k) * w + kw /\ (2 * p - k) * w \in Nat
    BY <1>1, <1>4
  <2> HIDE DEF lo, pw, kw, mid
  <2> QED BY <1>4, <2>1, <2>2, <2>3, <2>4, <2>5
<1>7. lo + kw - w < n
  <2>1. c - (a + k) \in Nat /\ (c - 1) * w = (c - (a + k)) * w + (a + k) * w - w
        /\ (c - (a + k)) * w \in Nat
    BY <1>4
  <2> HIDE DEF lo, kw
  <2> QED BY <1>4, <1>6, <2>1
<1>8. hi = IF lo + kw < n THEN lo + kw ELSE n
  BY <1>6 DEF ChunkEnd
<1>9. mid < n
  <2> HIDE DEF lo, mid, pw, kw
  <2> QED BY <1>4, <1>6, <1>7
<1>10. ChunkEnd(a + p, n, w) = mid
  BY <1>9 DEF ChunkEnd
<1>11. LargestPow2LessThan(hi - lo) = pw /\ hi - lo > 1 /\ hi \in Nat /\ mid \in Nat
  <2>1. pw = Pow2[j + e]
    BY <1>2, <1>3, PowSum
  <2>2. hi - lo \in Nat /\ hi \in Nat /\ mid \in Nat /\ pw < hi - lo /\ hi - lo <= 2 * pw /\ hi - lo > 1
    <3> HIDE DEF lo, mid, pw, kw, hi
    <3> QED BY <1>4, <1>6, <1>7, <1>8
  <2>3. j + e \in Nat
    OBVIOUS
  <2> HIDE DEF lo, mid, pw, kw, hi
  <2> QED BY <2>1, <2>2, <2>3, SplitPoint
<1>12. SplitsAt(lo, mid, hi)
  <2>1. mid - lo = pw
    <3> HIDE DEF lo, mid, pw, kw, hi
    <3> QED BY <1>6
  <2> HIDE DEF lo, mid, pw, kw, hi
  <2> QED BY <1>6, <1>11, <2>1 DEF SplitsAt
<1> QED BY <1>1, <1>5, <1>10, <1>12

LEMMA ChunkedRange ==
    ASSUME NEW chunks, NEW c, NEW list, NEW n, NEW w, IsChunked(chunks, c, list, n, w)
    PROVE  \A k \in Nat : \A a \in Nat : 0 < k /\ a + k <= c =>
              Mth(chunks, a, a + k) = Mth(list, a * w, ChunkEnd(a + k, n, w))
<1> DEFINE Right(a, k) == Mth(chunks, a, a + k) = Mth(list, a * w, ChunkEnd(a + k, n, w))
           T == {k \in Nat : \E a \in Nat : 0 < k /\ a + k <= c /\ ~Right(a, k)}
<1> SUFFICES ASSUME T # {} PROVE FALSE
  OBVIOUS
<1>1. PICK k \in T : \A i \in T : k <= i
  <2>1. T \in SUBSET Nat
    OBVIOUS
  <2> HIDE DEF T
  <2> QED BY <2>1, LeastMember
<1>2. PICK a \in Nat : 0 < k /\ a + k <= c /\ ~Right(a, k)
  OBVIOUS
<1>3. k \in Nat /\ c \in Nat
  BY DEF IsChunked
<1>4. CASE k = 1
  <2>1. Mth(chunks, a, a + 1) = chunks[a + 1]
    BY OneLeaf
  <2>2. a + 1 \in 1..c /\ (a + 1) - 1 = a
    BY <1>2, <1>3, <1>4
  <2>3. chunks[a + 1] = Mth(list, a * w, ChunkEnd(a + 1, n, w))
    <3>1. chunks[a + 1] = Mth(list, ((a + 1) - 1) * w, ChunkEnd(a + 1, n, w))
      BY <2>2 DEF IsChunked
    <3> QED BY <2>2, <3>1
  <2> QED BY <1>2, <1>4, <2>1, <2>3
<1>5. CASE k # 1
  <2> DEFINE p == LargestPow2LessThan(k)
             q == k - p
             mid == a + p
  <2>0. k > 1
    BY <1>2, <1>3, <1>5
  <2>1. /\ p \in Nat /\ 0 < p /\ p < k
        /\ SplitsAt(a, mid, a + k)
        /\ ChunkEnd(mid, n, w) = mid * w
        /\ SplitsAt(a * w, mid * w, ChunkEnd(a + k, n, w))
    BY <1>2, <1>3, <2>0, ChunkSplit
  <2>2. Mth(chunks, a, a + k) = HashInteriorNode(Mth(chunks, a, mid), Mth(chunks, mid, a + k))
    BY <2>1, HashOfHalves
  <2>3. Mth(list, a * w, ChunkEnd(a + k, n, w)) =
           HashInteriorNode(Mth(list, a * w, mid * w), Mth(list, mid * w, ChunkEnd(a + k, n, w)))
    BY <2>1, HashOfHalves
  <2> HIDE DEF p
  <2>4. q \in Nat /\ 0 < q /\ q < k /\ mid \in Nat /\ mid + q = a + k /\ a + p <= c /\ mid + q <= c
    BY <1>2, <1>3, <2>1
  <2>5. p \notin T /\ q \notin T
    <3>1. ~(k <= p) /\ ~(k <= q)
      BY <1>3, <2>1, <2>4
    <3> HIDE DEF T, q
    <3> QED BY <1>1, <3>1
  <2> HIDE DEF Right
  <2>6. Right(a, p) /\ Right(mid, q)
    <3>1. Right(a, p)
      BY <2>1, <2>4, <2>5
    <3> HIDE DEF q, mid
    <3> QED BY <2>1, <2>4, <2>5, <3>1
  <2>7. Mth(chunks, a, mid) = Mth(list, a * w, mid * w)
    BY <2>1, <2>6 DEF Right
  <2>8. Mth(chunks, mid, a + k) = Mth(list, mid * w, ChunkEnd(a + k, n, w))
    BY <2>4, <2>6 DEF Right
  <2> HIDE DEF mid
  <2> QED BY <1>2, <2>2, <2>3, <2>7, <2>8 DEF Right
<1> QED BY <1>4, <1>5

LEMMA ChunkedRoot ==
    ASSUME NEW chunks, NEW c, NEW list, NEW n, NEW w, IsChunked(chunks, c, list, n, w)
    PROVE  Mth(chunks, 0, c) = Mth(list, 0, n)
<1>1. c \in Nat /\ 0 < c /\ 0 + c = c /\ n \in Nat /\ w \in Nat /\ n <= c * w
  BY DEF IsChunked
<1>2. Mth(chunks, 0, c) = Mth(list, 0, ChunkEnd(c, n, w))
  <2> DEFINE z == 0
  <2>1. z \in Nat /\ z + c = c /\ z + c <= c /\ z * w = 0
    BY <1>1
  <2> HIDE DEF z
  <2>2. \A a \in Nat : 0 < c /\ a + c <= c =>
           Mth(chunks, a, a + c) = Mth(list, a * w, ChunkEnd(a + c, n, w))
    BY <1>1, ChunkedRange
  <2>3. Mth(chunks, z, c) = Mth(list, 0, ChunkEnd(c, n, w))
    BY <1>1, <2>1, <2>2
  <2> QED BY <2>3 DEF z
<1>3. ChunkEnd(c, n, w) = n
  <2>1. c * w \in Nat
    BY <1>1
  <2> QED BY <1>1, <2>1 DEF ChunkEnd
<1> QED BY <1>1, <1>2, <1>3

-----------------------------------------------------------------------------
(* The levels over a list, and what a reader finds right of them, are what    *)
(* their definitions say.                                                     *)

LevelsUp(u, n, list, w) == u[0] = list /\ \A i \in Nat : i < n => u[i + 1] = LevelAbove(u[i], w)

LEMMA LevelsStep ==
    ASSUME NEW list, NEW w
    PROVE  /\ LevelsOver(list, w)[0] = list
           /\ \A k \in Nat : LevelsOver(list, w)[k + 1] = LevelAbove(LevelsOver(list, w)[k], w)
<1> DEFINE P == {n \in Nat : \E u : LevelsUp(u, n, list, w)}
           up(n) == CHOOSE u : LevelsUp(u, n, list, w)
           f == [n \in Nat |-> up(n)[n]]
           Solves(g) == g = [k \in Nat |-> IF k = 0 THEN list ELSE LevelAbove(g[k - 1], w)]
<1>1. 0 \in P
  <2>1. LevelsUp([i \in Nat |-> list], 0, list, w)
    BY DEF LevelsUp
  <2> QED BY <2>1
<1>2. ASSUME NEW n \in Nat, n \in P PROVE n + 1 \in P
  <2>1. PICK v : LevelsUp(v, n, list, w)
    BY <1>2
  <2> DEFINE u == [i \in Nat |-> IF i = n + 1 THEN LevelAbove(v[n], w) ELSE v[i]]
  <2>2. u[0] = list
    BY <2>1 DEF LevelsUp
  <2>3. ASSUME NEW i \in Nat, i < n + 1 PROVE u[i + 1] = LevelAbove(u[i], w)
    <3>1. CASE i = n
      BY <3>1
    <3>2. CASE i # n
      <4>1. i < n /\ i + 1 # n + 1 /\ i # n + 1
        BY <2>3, <3>2
      <4> QED BY <2>1, <4>1 DEF LevelsUp
    <3> QED BY <3>1, <3>2
  <2> HIDE DEF u
  <2>4. LevelsUp(u, n + 1, list, w)
    BY <2>2, <2>3 DEF LevelsUp
  <2> QED BY <2>4
<1> HIDE DEF P
<1>3. \A n \in Nat : LevelsUp(up(n), n, list, w)
  BY <1>1, <1>2, SetInduction DEF P
<1>4. ASSUME NEW n \in Nat, NEW u, NEW v, LevelsUp(u, n, list, w), LevelsUp(v, n + 1, list, w)
      PROVE  u[n] = v[n]
  <2> DEFINE Q == {i \in Nat : i <= n => u[i] = v[i]}
  <2>1. 0 \in Q
    BY <1>4 DEF LevelsUp
  <2>2. \A i \in Nat : i \in Q => i + 1 \in Q
    BY <1>4 DEF LevelsUp
  <2> HIDE DEF Q
  <2>3. Nat \subseteq Q
    BY <2>1, <2>2, SetInduction
  <2> QED BY <2>3 DEF Q
<1> HIDE DEF up
<1>5. f[0] = list
  BY <1>3 DEF LevelsUp
<1>6. ASSUME NEW n \in Nat PROVE f[n + 1] = LevelAbove(f[n], w)
  <2>1. n + 1 \in Nat /\ n < n + 1
    OBVIOUS
  <2>2. up(n)[n] = up(n + 1)[n]
    BY <1>3, <1>4, <2>1
  <2>3. up(n + 1)[n + 1] = LevelAbove(up(n + 1)[n], w)
    BY <1>3, <2>1 DEF LevelsUp
  <2> QED BY <2>1, <2>2, <2>3
<1>7. f = [n \in Nat |-> f[n]]
  OBVIOUS
<1> HIDE DEF f
<1>8. \A k \in Nat : f[k] = IF k = 0 THEN list ELSE LevelAbove(f[k - 1], w)
  <2> SUFFICES ASSUME NEW k \in Nat, k # 0 PROVE f[k] = LevelAbove(f[k - 1], w)
    BY <1>5
  <2>1. k - 1 \in Nat /\ (k - 1) + 1 = k
    OBVIOUS
  <2> QED BY <1>6, <2>1
<1>9. Solves(f)
  BY <1>7, <1>8
<1> DEFINE t == CHOOSE g : Solves(g)
<1>10. Solves(t)
  <2> HIDE DEF Solves
  <2> QED BY <1>9
<1>11. LevelsOver(list, w) = t
  BY DEF LevelsOver
<1> HIDE DEF t
<1>12. \A k \in Nat : t[k] = IF k = 0 THEN list ELSE LevelAbove(t[k - 1], w)
  BY <1>10
<1>13. ASSUME NEW k \in Nat PROVE t[k + 1] = LevelAbove(t[k], w)
  <2>1. k + 1 \in Nat /\ k + 1 # 0 /\ (k + 1) - 1 = k
    OBVIOUS
  <2> QED BY <1>12, <2>1
<1> QED BY <1>11, <1>12, <1>13

\* What is right of a level, from what is right of the level below.
Newer(n, k, right) ==
    IF Edge(n, k) \o right = <<>> THEN <<>> ELSE <<Root(Edge(n, k) \o right)>>

RightUp(u, m, n) == u[0] = <<>> /\ \A i \in Nat : i < m => u[i + 1] = Newer(n, i, u[i])

LEMMA RightStep ==
    ASSUME NEW n
    PROVE  /\ RightOf(n)[0] = <<>>
           /\ \A k \in Nat : RightOf(n)[k + 1] = Newer(n, k, RightOf(n)[k])
<1> DEFINE P == {m \in Nat : \E u : RightUp(u, m, n)}
           up(m) == CHOOSE u : RightUp(u, m, n)
           f == [m \in Nat |-> up(m)[m]]
           Solves(g) == g = [k \in Nat |->
                                IF k = 0 THEN <<>>
                                ELSE LET list == Edge(n, k - 1) \o g[k - 1]
                                     IN IF list = <<>> THEN <<>> ELSE <<Root(list)>>]
<1>1. 0 \in P
  <2>1. RightUp([i \in Nat |-> <<>>], 0, n)
    BY DEF RightUp
  <2> QED BY <2>1
<1>2. ASSUME NEW m \in Nat, m \in P PROVE m + 1 \in P
  <2>1. PICK v : RightUp(v, m, n)
    BY <1>2
  <2> DEFINE u == [i \in Nat |-> IF i = m + 1 THEN Newer(n, m, v[m]) ELSE v[i]]
  <2>2. u[0] = <<>>
    BY <2>1 DEF RightUp
  <2>3. ASSUME NEW i \in Nat, i < m + 1 PROVE u[i + 1] = Newer(n, i, u[i])
    <3>1. CASE i = m
      BY <3>1
    <3>2. CASE i # m
      <4>1. i < m /\ i + 1 # m + 1 /\ i # m + 1
        BY <2>3, <3>2
      <4> QED BY <2>1, <4>1 DEF RightUp
    <3> QED BY <3>1, <3>2
  <2> HIDE DEF u
  <2>4. RightUp(u, m + 1, n)
    BY <2>2, <2>3 DEF RightUp
  <2> QED BY <2>4
<1> HIDE DEF P
<1>3. \A m \in Nat : RightUp(up(m), m, n)
  BY <1>1, <1>2, SetInduction DEF P
<1>4. ASSUME NEW m \in Nat, NEW u, NEW v, RightUp(u, m, n), RightUp(v, m + 1, n)
      PROVE  u[m] = v[m]
  <2> DEFINE Q == {i \in Nat : i <= m => u[i] = v[i]}
  <2>1. 0 \in Q
    BY <1>4 DEF RightUp
  <2>2. \A i \in Nat : i \in Q => i + 1 \in Q
    BY <1>4 DEF RightUp
  <2> HIDE DEF Q
  <2>3. Nat \subseteq Q
    BY <2>1, <2>2, SetInduction
  <2> QED BY <2>3 DEF Q
<1> HIDE DEF up
<1>5. f[0] = <<>>
  BY <1>3 DEF RightUp
<1>6. ASSUME NEW m \in Nat PROVE f[m + 1] = Newer(n, m, f[m])
  <2>1. m + 1 \in Nat /\ m < m + 1
    OBVIOUS
  <2>2. up(m)[m] = up(m + 1)[m]
    BY <1>3, <1>4, <2>1
  <2>3. up(m + 1)[m + 1] = Newer(n, m, up(m + 1)[m])
    BY <1>3, <2>1 DEF RightUp
  <2> QED BY <2>1, <2>2, <2>3
<1>7. f = [m \in Nat |-> f[m]]
  OBVIOUS
<1> HIDE DEF f
<1>8. \A k \in Nat : f[k] = IF k = 0 THEN <<>> ELSE Newer(n, k - 1, f[k - 1])
  <2> SUFFICES ASSUME NEW k \in Nat, k # 0 PROVE f[k] = Newer(n, k - 1, f[k - 1])
    BY <1>5
  <2>1. k - 1 \in Nat /\ (k - 1) + 1 = k
    OBVIOUS
  <2> QED BY <1>6, <2>1
<1>9. Solves(f)
  BY <1>7, <1>8 DEF Newer
<1> DEFINE t == CHOOSE g : Solves(g)
<1>10. Solves(t)
  <2> HIDE DEF Solves
  <2> QED BY <1>9
<1>11. RightOf(n) = t
  BY DEF RightOf
<1> HIDE DEF t
<1>12. \A k \in Nat : t[k] = IF k = 0 THEN <<>> ELSE Newer(n, k - 1, t[k - 1])
  BY <1>10 DEF Newer
<1>13. ASSUME NEW k \in Nat PROVE t[k + 1] = Newer(n, k, t[k])
  <2>1. k + 1 \in Nat /\ k + 1 # 0 /\ (k + 1) - 1 = k
    OBVIOUS
  <2> QED BY <1>12, <2>1
<1> QED BY <1>11, <1>12, <1>13

\* The whole cells of each level.
LEMMA CellsStep ==
    ASSUME width \in Nat, width > 1, NEW n \in Nat
    PROVE  /\ Cells(n)[0] = n
           /\ \A k \in Nat : Cells(n)[k] \in Nat /\ Cells(n)[k + 1] = Cells(n)[k] \div width
<1> DEFINE step == [v \in Nat |-> v \div width]
           Solves(g) == g = [k \in Nat |-> IF k = 0 THEN n ELSE g[k - 1] \div width]
<1>1. step \in [Nat -> Nat]
  <2>1. \A v \in Nat : v \div width \in Nat
    OBVIOUS
  <2> QED BY <2>1
<1>2. PICK f \in [Nat -> Nat] : f[0] = n /\ \A k \in Nat : f[k + 1] = step[f[k]]
  <2> HIDE DEF step
  <2>1. \E f \in [Nat -> Nat] : IsIteration(f, n, step)
    BY <1>1, Iterates
  <2> QED BY <2>1 DEF IsIteration
<1>3. \A k \in Nat : f[k] = IF k = 0 THEN n ELSE f[k - 1] \div width
  <2> SUFFICES ASSUME NEW k \in Nat, k # 0 PROVE f[k] = f[k - 1] \div width
    BY <1>2
  <2> DEFINE i == k - 1
  <2>1. i \in Nat /\ i + 1 = k
    OBVIOUS
  <2> HIDE DEF i
  <2>2. f[i] \in Nat /\ f[i + 1] = f[i] \div width
    BY <1>2, <2>1
  <2> QED BY <2>1, <2>2 DEF i
<1>4. Solves(f)
  <2>1. f = [k \in Nat |-> f[k]]
    OBVIOUS
  <2> QED BY <1>3, <2>1
<1> DEFINE t == CHOOSE g : Solves(g)
<1>5. Solves(t)
  <2> HIDE DEF Solves
  <2> QED BY <1>4
<1>6. Cells(n) = t
  BY DEF Cells
<1> HIDE DEF t
<1>7. \A k \in Nat : t[k] = IF k = 0 THEN n ELSE t[k - 1] \div width
  BY <1>5
<1>8. \A k \in Nat : t[k + 1] = t[k] \div width
  <2> SUFFICES ASSUME NEW k \in Nat PROVE t[k + 1] = t[k] \div width
    OBVIOUS
  <2>1. k + 1 \in Nat /\ k + 1 # 0 /\ (k + 1) - 1 = k
    OBVIOUS
  <2> QED BY <1>7, <2>1
<1> DEFINE N == {k \in Nat : t[k] \in Nat}
<1>9. 0 \in N /\ \A k \in Nat : k \in N => k + 1 \in N
  BY <1>1, <1>7, <1>8
<1>10. Nat \subseteq N
  <2> HIDE DEF N
  <2> QED BY <1>9, SetInduction
<1> QED BY <1>6, <1>7, <1>8, <1>10

-----------------------------------------------------------------------------
(* Cells of a level as lists. *)

IsList(list, n) == n \in Nat /\ list = [i \in 1..n |-> list[i]]

LEMMA ListLength ==
    ASSUME NEW list, NEW n, IsList(list, n)
    PROVE  Len(list) = n /\ list \in Seq({list[i] : i \in 1..n})
<1> DEFINE S == {list[i] : i \in 1..n}
<1>1. n \in Nat /\ list \in [1..n -> S]
  BY DEF IsList
<1> HIDE DEF S
<1> QED BY <1>1 DEF S

IsJoin(s, f, x, g, y) ==
    /\ IsList(s, x + y) /\ Len(s) = x + y
    /\ \A i \in 1..x : s[i] = f[i]
    /\ \A i \in 1..y : s[x + i] = g[i]

LEMMA Concatenation ==
    ASSUME NEW f, NEW x, IsList(f, x), NEW g, NEW y, IsList(g, y)
    PROVE  IsJoin(f \o g, f, x, g, y)
<1> DEFINE S == {f[i] : i \in 1..x} \cup {g[i] : i \in 1..y}
<1>1. x \in Nat /\ y \in Nat /\ f \in Seq(S) /\ g \in Seq(S) /\ Len(f) = x /\ Len(g) = y
  <2>1. x \in Nat /\ f \in [1..x -> S]
    BY DEF IsList
  <2>2. y \in Nat /\ g \in [1..y -> S]
    BY DEF IsList
  <2> HIDE DEF S
  <2> QED BY <2>1, <2>2
<1> HIDE DEF S
<1>2. f \o g \in Seq(S) /\ Len(f \o g) = x + y
  BY <1>1
<1>3. f \o g = [i \in 1..(x + y) |-> (f \o g)[i]]
  <2> DEFINE h == f \o g
  <2>1. h \in Seq(S) /\ Len(h) = x + y
    BY <1>2
  <2> HIDE DEF h
  <2>2. h \in [1..(x + y) -> S]
    BY <2>1
  <2>3. h = [i \in 1..(x + y) |-> h[i]]
    BY <2>2
  <2> QED BY <2>3 DEF h
<1>4. \A i \in 1..x : (f \o g)[i] = f[i]
  BY <1>1
<1>5. \A i \in 1..y : (f \o g)[x + i] = g[i]
  BY <1>1
<1> QED BY <1>1, <1>2, <1>3, <1>4, <1>5 DEF IsList, IsJoin

LEMMA Slice ==
    ASSUME NEW list, NEW n, IsList(list, n), NEW x \in Nat, NEW y \in Nat, x + y <= n
    PROVE  /\ IsList(SubSeq(list, x + 1, x + y), y)
           /\ \A i \in 1..y : SubSeq(list, x + 1, x + y)[i] = list[x + i]
<1> DEFINE S == {list[i] : i \in 1..n}
           s == SubSeq(list, x + 1, x + y)
<1>1. n \in Nat /\ list \in Seq(S) /\ Len(list) = n
  BY ListLength DEF IsList
<1> HIDE DEF S
<1>2. s = [i \in 1..((x + y) - (x + 1) + 1) |-> list[i + (x + 1) - 1]]
  BY <1>1
<1>3. (x + y) - (x + 1) + 1 = y
  OBVIOUS
<1>4. s = [i \in 1..y |-> list[i + (x + 1) - 1]]
  BY <1>2, <1>3
<1> HIDE DEF s
<1>5. \A i \in 1..y : s[i] = list[x + i]
  <2> SUFFICES ASSUME NEW i \in 1..y PROVE s[i] = list[x + i]
    OBVIOUS
  <2>1. i + (x + 1) - 1 = x + i
    OBVIOUS
  <2> QED BY <1>4, <2>1
<1>6. s = [i \in 1..y |-> s[i]]
  BY <1>4
<1> QED BY <1>5, <1>6 DEF IsList, s

WidthIsPower == width \in Nat /\ width > 1 /\ \E e \in Nat : width = Pow2[e]

LEMMA WidthFacts == ASSUME width \in Widths PROVE WidthIsPower
<1>1. PICK e \in 1..width : width \in Nat /\ width = Pow2[e]
  BY TileWidths
<1>2. e \in Nat /\ 0 < e /\ e < Pow2[e]
  BY <1>1, PowGrows
<1> QED BY <1>1, <1>2 DEF WidthIsPower

\* The cells of level k of a log of n entries.
Level(n, k) == LevelsOver(Leaves(n), width)[k]

LEMMA LevelCells ==
    ASSUME WidthIsPower, NEW n \in Nat
    PROVE  \A k \in Nat : IsList(Level(n, k), Cells(n)[k])
<1> DEFINE P == {k \in Nat : IsList(Level(n, k), Cells(n)[k])}
<1>0. width \in Nat /\ width > 1
  BY DEF WidthIsPower
<1>1. 0 \in P
  <2>1. Cells(n)[0] = n /\ Level(n, 0) = Leaves(n)
    BY <1>0, CellsStep, LevelsStep DEF Level
  <2>2. IsList(Leaves(n), n)
    BY DEF Leaves, IsList
  <2> QED BY <2>1, <2>2
<1>2. ASSUME NEW k \in Nat, k \in P PROVE k + 1 \in P
  <2> DEFINE c == Cells(n)[k]
             g == Cells(n)[k + 1]
             up == Level(n, k + 1)
  <2>1. c \in Nat /\ k + 1 \in Nat /\ g = c \div width
    BY <1>0, CellsStep
  <2>2. g \in Nat
    BY <1>0, <2>1
  <2>3. Len(Level(n, k)) = c
    BY <1>2, ListLength
  <2>4. up = LevelAbove(Level(n, k), width)
    BY LevelsStep DEF Level
  <2> HIDE DEF c, g, up
  <2>5. up = [i \in 1..g |-> Mth(Level(n, k), (i - 1) * width, i * width)]
    BY <2>1, <2>3, <2>4 DEF LevelAbove
  <2>6. IsList(up, g)
    BY <2>2, <2>5 DEF IsList
  <2> QED BY <2>6 DEF g, up
<1> HIDE DEF P
<1>3. Nat \subseteq P
  BY <1>1, <1>2, SetInduction
<1> QED BY <1>3 DEF P

LEMMA LevelHash ==
    ASSUME WidthIsPower, NEW n \in Nat, NEW k \in Nat, NEW i \in 1..Cells(n)[k + 1]
    PROVE  Level(n, k + 1)[i] = Mth(Level(n, k), (i - 1) * width, i * width)
<1>0. width \in Nat /\ width > 1
  BY DEF WidthIsPower
<1> DEFINE c == Cells(n)[k]
           g == Cells(n)[k + 1]
           up == Level(n, k + 1)
<1>1. c \in Nat /\ k + 1 \in Nat /\ g = c \div width
  BY <1>0, CellsStep
<1>2. IsList(Level(n, k), c)
  BY LevelCells
<1>3. Len(Level(n, k)) = c
  BY <1>2, ListLength
<1>4. up = LevelAbove(Level(n, k), width)
  BY LevelsStep DEF Level
<1> HIDE DEF c, up
<1>5. up = [j \in 1..g |-> Mth(Level(n, k), (j - 1) * width, j * width)]
  BY <1>1, <1>3, <1>4 DEF LevelAbove
<1> HIDE DEF g
<1>6. i \in 1..g
  BY DEF g
<1> QED BY <1>5, <1>6 DEF up

\* The groups of a level fit in it.
LEMMA GroupFits ==
    ASSUME WidthIsPower, NEW n \in Nat, NEW k \in Nat, NEW i \in 1..Cells(n)[k + 1]
    PROVE  /\ i \in Nat /\ (i - 1) * width \in Nat /\ i * width = (i - 1) * width + width
           /\ i * width <= Cells(n)[k]
<1>0. width \in Nat /\ width > 1
  BY DEF WidthIsPower
<1> DEFINE c == Cells(n)[k]
           g == Cells(n)[k + 1]
<1>1. c \in Nat /\ k + 1 \in Nat /\ g = c \div width
  BY <1>0, CellsStep
<1> HIDE DEF c
<1>2. g \in Nat /\ g * width <= c
  BY <1>0, <1>1
<1> HIDE DEF g
<1>3. i \in Nat /\ i \in 1..g /\ g - i \in Nat /\ i - 1 \in Nat
  BY <1>2 DEF g
<1>4. g * width = i * width + (g - i) * width /\ (g - i) * width \in Nat
      /\ i * width = (i - 1) * width + width /\ (i - 1) * width \in Nat
  BY <1>0, <1>2, <1>3
<1>5. i * width <= c
  BY <1>0, <1>1, <1>2, <1>4
<1> QED BY <1>3, <1>4, <1>5 DEF c

\* The cells two logs both have are the same, however either went on.
LEMMA CellsStay ==
    ASSUME WidthIsPower, NEW m \in Nat, NEW n \in Nat
    PROVE  \A k \in Nat : \A i \in 1..Cells(m)[k] :
              i \in 1..Cells(n)[k] => Level(m, k)[i] = Level(n, k)[i]
<1> DEFINE P == {k \in Nat : \A i \in 1..Cells(m)[k] :
                    i \in 1..Cells(n)[k] => Level(m, k)[i] = Level(n, k)[i]}
<1>0. width \in Nat /\ width > 1
  BY DEF WidthIsPower
<1>1. 0 \in P
  <2>1. Cells(n)[0] = n /\ Level(n, 0) = Leaves(n) /\ Cells(m)[0] = m /\ Level(m, 0) = Leaves(m)
    BY <1>0, CellsStep, LevelsStep DEF Level
  <2> QED BY <2>1 DEF Leaves
<1>2. ASSUME NEW k \in Nat, k \in P PROVE k + 1 \in P
  <2> SUFFICES ASSUME NEW i \in 1..Cells(m)[k + 1], i \in 1..Cells(n)[k + 1]
               PROVE  Level(m, k + 1)[i] = Level(n, k + 1)[i]
    OBVIOUS
  <2> DEFINE x == (i - 1) * width
             y == i * width
             cm == Cells(m)[k]
             cn == Cells(n)[k]
  <2>1. x \in Nat /\ y = x + width /\ y <= cm
    BY GroupFits
  <2>2. y <= cn
    BY GroupFits
  <2>3. cm \in Nat /\ cn \in Nat
    BY <1>0, CellsStep
  <2>4. Level(m, k + 1)[i] = Mth(Level(m, k), x, y) /\ Level(n, k + 1)[i] = Mth(Level(n, k), x, y)
    BY LevelHash
  <2> HIDE DEF x, y, cm, cn
  <2>5. \A j \in 1..width : Level(m, k)[x + j] = Level(n, k)[x + j]
    <3> SUFFICES ASSUME NEW j \in 1..width PROVE Level(m, k)[x + j] = Level(n, k)[x + j]
      OBVIOUS
    <3>1. x + j \in 1..cm /\ x + j \in 1..cn
      BY <1>0, <2>1, <2>2, <2>3
    <3> QED BY <1>2, <3>1 DEF cm, cn
  <2>6. Mth(Level(m, k), x, x + width) = Mth(Level(n, k), x, x + width)
    <3>1. SameCells(Level(m, k), x, Level(n, k), x, width)
      BY <1>0, <2>1, <2>5 DEF SameCells
    <3> QED BY <3>1, SameRange
  <2> QED BY <2>1, <2>4, <2>6
<1> HIDE DEF P
<1>3. Nat \subseteq P
  BY <1>1, <1>2, SetInduction
<1> QED BY <1>3 DEF P

\* The levels of a log end.
LEMMA CellsEnd ==
    ASSUME WidthIsPower, NEW n \in Nat
    PROVE  /\ Cells(n)[n] = 0
           /\ \A k \in Nat : Cells(n)[k] < width => \A j \in Nat : j > k => Cells(n)[j] = 0
<1>0. width \in Nat /\ width > 1
  BY DEF WidthIsPower
<1>1. Cells(n)[n] = 0
  <2> DEFINE P == {k \in Nat : Cells(n)[k] + k <= n \/ Cells(n)[k] = 0}
  <2>1. 0 \in P
    BY <1>0, CellsStep
  <2>2. ASSUME NEW k \in Nat, k \in P PROVE k + 1 \in P
    <3> DEFINE c == Cells(n)[k]
               g == Cells(n)[k + 1]
    <3>1. c \in Nat /\ g = c \div width
      BY <1>0, CellsStep
    <3>2. c + k <= n \/ c = 0
      BY <2>2
    <3> HIDE DEF c
    <3>3. g \in Nat /\ g * width <= c
      BY <1>0, <3>1
    <3> HIDE DEF g
    <3>4. g * width = g * (width - 2) + g + g /\ g * (width - 2) \in Nat
      BY <1>0, <3>3
    <3>5. g + (k + 1) <= n \/ g = 0
      BY <1>0, <3>1, <3>2, <3>3, <3>4
    <3> QED BY <3>5 DEF g
  <2> HIDE DEF P
  <2>3. n \in P
    BY <2>1, <2>2, SetInduction
  <2>4. Cells(n)[n] \in Nat
    BY <1>0, CellsStep
  <2> QED BY <2>3, <2>4 DEF P
<1>2. ASSUME NEW k \in Nat, Cells(n)[k] < width PROVE \A j \in Nat : j > k => Cells(n)[j] = 0
  <2> DEFINE P == {d \in Nat : d > k => Cells(n)[d] = 0}
  <2>1. 0 \in P
    OBVIOUS
  <2>2. ASSUME NEW d \in Nat, d \in P PROVE d + 1 \in P
    <3> DEFINE c == Cells(n)[d]
               g == Cells(n)[d + 1]
    <3>1. c \in Nat /\ g = c \div width
      BY <1>0, CellsStep
    <3>2. d >= k => c < width
      <4>1. d > k => c = 0
        BY <2>2
      <4>2. d = k => c < width
        BY <1>2
      <4> HIDE DEF c
      <4> QED BY <1>0, <4>1, <4>2
    <3> HIDE DEF c
    <3>3. c < width => g = 0
      BY <1>0, <3>1
    <3> HIDE DEF g
    <3>4. d + 1 > k => g = 0
      BY <3>2, <3>3
    <3> QED BY <3>4 DEF g
  <2> HIDE DEF P
  <2>3. Nat \subseteq P
    BY <2>1, <2>2, SetInduction
  <2> QED BY <2>3 DEF P
<1> QED BY <1>1, <1>2

-----------------------------------------------------------------------------
(* The files of a log. *)

\* The level computeLevels stops at.
IsTop(n, top) ==
    /\ top \in 0..n
    /\ Cells(n)[top] < width
    /\ \A i \in 0..(top - 1) : Cells(n)[i] >= width

LEMMA TopExists ==
    ASSUME WidthIsPower, NEW n \in Nat PROVE \E top \in 0..n : IsTop(n, top)
<1>0. width \in Nat /\ width > 1
  BY DEF WidthIsPower
<1> DEFINE T == {k \in Nat : Cells(n)[k] < width}
<1>1. n \in T
  BY <1>0, CellsEnd
<1>2. PICK top \in T : \A k \in T : top <= k
  <2>1. T \in SUBSET Nat
    OBVIOUS
  <2> HIDE DEF T
  <2> QED BY <1>1, <2>1, LeastMember
<1>3. top \in Nat /\ top <= n /\ Cells(n)[top] < width
  BY <1>1, <1>2
<1>4. ASSUME NEW i \in 0..(top - 1) PROVE Cells(n)[i] >= width
  <2>1. i \in Nat /\ ~(top <= i)
    BY <1>3
  <2>2. i \notin T
    <3> HIDE DEF T
    <3> QED BY <1>2, <2>1
  <2> DEFINE c == Cells(n)[i]
  <2>3. c \in Nat
    BY <1>0, <2>1, CellsStep
  <2>4. ~(c < width)
    BY <2>1, <2>2
  <2> HIDE DEF c
  <2>5. c >= width
    BY <1>0, <2>3, <2>4
  <2> QED BY <2>5 DEF c
<1>5. top \in 0..n
  BY <1>3
<1>6. IsTop(n, top)
  BY <1>3, <1>4, <1>5 DEF IsTop
<1> QED BY <1>5, <1>6

LEMMA TopUnique ==
    ASSUME WidthIsPower, NEW n \in Nat, NEW top, IsTop(n, top), NEW k \in 0..n,
           Cells(n)[k] < width, \A i \in 0..(k - 1) : Cells(n)[i] >= width
    PROVE  k = top
<1>0. width \in Nat /\ width > 1
  BY DEF WidthIsPower
<1>1. top \in 0..n /\ Cells(n)[top] < width
  BY DEF IsTop
<1>2. top \in Nat /\ k \in Nat
  BY <1>1
<1>3. Cells(n)[top] \in Nat /\ Cells(n)[k] \in Nat
  BY <1>0, <1>2, CellsStep
<1>4. ~(top < k)
  <2> SUFFICES ASSUME top < k PROVE FALSE
    OBVIOUS
  <2>1. top \in 0..(k - 1)
    BY <1>2
  <2>2. Cells(n)[top] >= width
    BY <2>1
  <2> QED BY <1>0, <1>1, <1>3, <2>2
<1>5. ~(k < top)
  <2> SUFFICES ASSUME k < top PROVE FALSE
    OBVIOUS
  <2>1. k \in 0..(top - 1)
    BY <1>2
  <2>2. Cells(n)[k] >= width
    BY <2>1 DEF IsTop
  <2> QED BY <1>0, <1>3, <2>2
<1> QED BY <1>2, <1>4, <1>5

\* Every level with cells is computed.
LEMMA AllLevels ==
    ASSUME WidthIsPower, NEW n \in Nat
    PROVE  \E top \in 0..n :
              /\ ComputeLevels(Leaves(n), width) = [k \in 1..(top + 1) |-> Level(n, k - 1)]
              /\ \A k \in Nat : Cells(n)[k] # 0 => k <= top
<1>0. width \in Nat /\ width > 1
  BY DEF WidthIsPower
<1>1. PICK top \in 0..n : IsTop(n, top)
  BY TopExists
<1> DEFINE level == LevelsOver(Leaves(n), width)
           Stops(k) == Len(level[k]) < width /\ \A i \in 0..(k - 1) : Len(level[i]) >= width
<1>2. Len(Leaves(n)) = n
  BY DEF Leaves
<1>3. \A k \in Nat : Len(level[k]) = Cells(n)[k]
  <2> SUFFICES ASSUME NEW k \in Nat PROVE Len(level[k]) = Cells(n)[k]
    OBVIOUS
  <2>1. IsList(Level(n, k), Cells(n)[k])
    BY LevelCells
  <2>2. Len(Level(n, k)) = Cells(n)[k]
    BY <2>1, ListLength
  <2> QED BY <2>2 DEF Level
<1> HIDE DEF level
<1>4. Stops(top)
  BY <1>1, <1>3 DEF IsTop
<1>5. \A k \in 0..n : Stops(k) => k = top
  <2> SUFFICES ASSUME NEW k \in 0..n, Stops(k) PROVE k = top
    OBVIOUS
  <2>1. Cells(n)[k] < width
    BY <1>3
  <2>2. \A i \in 0..(k - 1) : Cells(n)[i] >= width
    BY <1>3
  <2> QED BY <1>1, <2>1, <2>2, TopUnique
<1>6. (CHOOSE k \in 0..n : Stops(k)) = top
  <2> HIDE DEF Stops
  <2> QED BY <1>1, <1>4, <1>5
<1>7. ComputeLevels(Leaves(n), width) = [k \in 1..(top + 1) |-> level[k - 1]]
  BY <1>2, <1>6 DEF ComputeLevels, level
<1>8. \A k \in Nat : Cells(n)[k] # 0 => k <= top
  <2> SUFFICES ASSUME NEW k \in Nat, ~(k <= top) PROVE Cells(n)[k] = 0
    OBVIOUS
  <2>1. top \in Nat /\ k > top
    BY <1>1
  <2>2. Cells(n)[top] < width
    BY <1>1 DEF IsTop
  <2> QED BY <2>1, <2>2, CellsEnd
<1> QED BY <1>1, <1>7, <1>8 DEF level, Level

\* A file of a log of n entries: full, or the group a level has not filled.
IsTile(n, p, k, g, x) ==
    /\ k \in Nat /\ g \in Nat /\ x \in Nat
    /\ p = [level |-> k, N |-> g, len |-> x]
    /\ \/ x = width
       \/ Cells(n)[k] % width # 0 /\ x = Cells(n)[k] % width /\ g = Cells(n)[k] \div width

LEMMA TileFile ==
    ASSUME WidthIsPower, NEW n \in Nat, NEW p \in DOMAIN Files(n)
    PROVE  /\ \E k \in Nat : \E g \in Nat : \E x \in Nat : IsTile(n, p, k, g, x)
           /\ Files(n)[p] = SubSeq(Level(n, p.level), p.N * width + 1, p.N * width + p.len)
<1>0. width \in Nat /\ width > 1
  BY DEF WidthIsPower
<1>1. PICK top \in 0..n :
         ComputeLevels(Leaves(n), width) = [k \in 1..(top + 1) |-> Level(n, k - 1)]
  BY AllLevels
<1> DEFINE levels == ComputeLevels(Leaves(n), width)
           paths == UNION {{[level |-> k - 1, N |-> g.N, len |-> g.len]
                              : g \in TileGroups(Len(levels[k]))} : k \in DOMAIN levels}
<1>2. Files(n) = [q \in paths |->
                     SubSeq(levels[q.level + 1], q.N * width + 1, q.N * width + q.len)]
  BY DEF Files, LevelTileFiles
<1>3. levels = [k \in 1..(top + 1) |-> Level(n, k - 1)]
  BY <1>1
<1> HIDE DEF levels
<1>4. PICK k \in DOMAIN levels : \E g \in TileGroups(Len(levels[k])) :
         p = [level |-> k - 1, N |-> g.N, len |-> g.len]
  BY <1>2
<1>5. PICK g \in TileGroups(Len(levels[k])) : p = [level |-> k - 1, N |-> g.N, len |-> g.len]
  BY <1>4
<1> HIDE DEF paths
<1> DEFINE i == k - 1
           c == Cells(n)[i]
<1>6. k \in 1..(top + 1) /\ i \in Nat /\ i + 1 = k /\ levels[k] = Level(n, i)
  BY <1>3, <1>4
<1> HIDE DEF i
<1>7. c \in Nat /\ Len(levels[k]) = c
  <2>1. IsList(Level(n, i), Cells(n)[i])
    BY <1>6, LevelCells
  <2>2. Len(Level(n, i)) = Cells(n)[i]
    BY <2>1, ListLength
  <2>3. c \in Nat
    BY <1>0, <1>6, CellsStep
  <2> QED BY <1>6, <2>2, <2>3
<1> HIDE DEF c
<1>8. /\ g.N \in Nat /\ g.len \in Nat
      /\ g.len = width \/ (c % width # 0 /\ g.len = c % width /\ g.N = c \div width)
  <2>1. c % width \in Nat /\ c \div width \in Nat
    BY <1>0, <1>7
  <2>2. g \in TileGroups(c)
    BY <1>5, <1>7
  <2>3. CASE \E h \in 0..(c \div width - 1) : g = [N |-> h, len |-> width]
    BY <1>0, <2>1, <2>3
  <2>4. CASE c % width # 0 /\ g = [N |-> c \div width, len |-> c % width]
    BY <2>1, <2>4
  <2>5. (\E h \in 0..(c \div width - 1) : g = [N |-> h, len |-> width])
        \/ (c % width # 0 /\ g = [N |-> c \div width, len |-> c % width])
    BY <2>2 DEF TileGroups
  <2> QED BY <2>3, <2>4, <2>5
<1>9. p = [level |-> i, N |-> g.N, len |-> g.len]
  BY <1>5 DEF i
<1>10. IsTile(n, p, i, g.N, g.len)
  BY <1>6, <1>8, <1>9 DEF IsTile, c
<1>11. p.level = i /\ levels[p.level + 1] = Level(n, i)
  BY <1>6, <1>9
<1>12. p \in paths
  BY <1>2
<1>13. Files(n)[p] = SubSeq(levels[p.level + 1], p.N * width + 1, p.N * width + p.len)
  BY <1>2, <1>12
<1> QED BY <1>6, <1>8, <1>10, <1>11, <1>13

LEMMA EdgeWritten ==
    ASSUME WidthIsPower, NEW n \in Nat, NEW k \in Nat, Cells(n)[k] % width # 0
    PROVE  EdgeTile(n, k) \in DOMAIN Files(n)
<1>0. width \in Nat /\ width > 1
  BY DEF WidthIsPower
<1>1. PICK top \in 0..n :
         /\ ComputeLevels(Leaves(n), width) = [i \in 1..(top + 1) |-> Level(n, i - 1)]
         /\ \A i \in Nat : Cells(n)[i] # 0 => i <= top
  BY AllLevels
<1> DEFINE levels == ComputeLevels(Leaves(n), width)
           paths == UNION {{[level |-> i - 1, N |-> g.N, len |-> g.len]
                              : g \in TileGroups(Len(levels[i]))} : i \in DOMAIN levels}
           c == Cells(n)[k]
           j == k + 1
<1>2. DOMAIN Files(n) = paths
  BY DEF Files, LevelTileFiles
<1>3. levels = [i \in 1..(top + 1) |-> Level(n, i - 1)]
  BY <1>1
<1> HIDE DEF levels
<1>4. c \in Nat /\ c # 0
  <2>1. c \in Nat
    BY <1>0, CellsStep
  <2>2. c % width # 0
    OBVIOUS
  <2> HIDE DEF c
  <2> QED BY <1>0, <2>1, <2>2
<1>5. j \in 1..(top + 1) /\ j - 1 = k
  <2>1. k <= top
    BY <1>1, <1>4
  <2> QED BY <2>1
<1>6. j \in DOMAIN levels /\ levels[j] = Level(n, k)
  BY <1>3, <1>5
<1> HIDE DEF j
<1>7. Len(levels[j]) = c
  <2>1. IsList(Level(n, k), Cells(n)[k])
    BY LevelCells
  <2>2. Len(Level(n, k)) = Cells(n)[k]
    BY <2>1, ListLength
  <2> QED BY <1>6, <2>2
<1> DEFINE g == [N |-> c \div width, len |-> c % width]
<1>8. c % width # 0
  OBVIOUS
<1>9. EdgeTile(n, k) = [level |-> k, N |-> g.N, len |-> g.len]
  BY DEF EdgeTile
<1> HIDE DEF c
<1>10. g \in TileGroups(Len(levels[j]))
  BY <1>7, <1>8 DEF TileGroups
<1> HIDE DEF g
<1>11. EdgeTile(n, k) = [level |-> j - 1, N |-> g.N, len |-> g.len]
  BY <1>5, <1>9
<1>12. EdgeTile(n, k) \in paths
  BY <1>6, <1>10, <1>11
<1> QED BY <1>2, <1>12

-----------------------------------------------------------------------------
(* What is on disk: every file is that of some log, and none is missing of    *)
(* a log that was published.                                                  *)

DInv ==
    /\ width \in Widths
    /\ sizes \in SUBSET (Nat \ {0})
    /\ sizes # {} => \E n \in sizes : \A m \in sizes : m <= n
    /\ \A p \in DOMAIN disk : \E m \in Nat : p \in DOMAIN Files(m) /\ disk[p] = Files(m)[p]
    /\ \A n \in sizes : DOMAIN Files(n) \subseteq DOMAIN disk

\* A partial tile on disk is that of every log that has as many cells there.
LEMMA EdgeRead ==
    ASSUME DInv, NEW n \in sizes, NEW k \in Nat
    PROVE  /\ Cells(n)[k] % width # 0 => EdgeTile(n, k) \in DOMAIN disk
           /\ IsList(Edge(n, k), Cells(n)[k] % width)
           /\ \A i \in 1..(Cells(n)[k] % width) :
                 Edge(n, k)[i] = Level(n, k)[Cells(n)[k + 1] * width + i]
<1>0. WidthIsPower /\ width \in Nat /\ width > 1 /\ n \in Nat
  <2>1. width \in Widths /\ n \in Nat
    BY DEF DInv
  <2>2. WidthIsPower
    BY <2>1, WidthFacts
  <2> QED BY <2>1, <2>2 DEF WidthIsPower
<1> DEFINE c == Cells(n)[k]
           g == Cells(n)[k + 1]
           x == c % width
           p == EdgeTile(n, k)
<1>1. c \in Nat /\ g = c \div width
  BY <1>0, CellsStep
<1>2. g \in Nat /\ x \in Nat /\ x < width /\ g * width \in Nat /\ c = g * width + x
  <2> HIDE DEF c, g
  <2>1. c \div width \in Nat /\ x \in Nat /\ x < width /\ c = width * (c \div width) + x
    BY <1>0, <1>1
  <2>2. g \in Nat /\ width * g = g * width /\ g * width \in Nat
    BY <1>0, <1>1, <2>1
  <2> HIDE DEF x
  <2> QED BY <1>1, <2>1, <2>2
<1>3. CASE x = 0
  <2>1. Edge(n, k) = <<>>
    BY <1>3 DEF Edge
  <2>2. IsList(Edge(n, k), x)
    BY <1>3, <2>1 DEF IsList
  <2> QED BY <1>3, <2>2
<1>4. CASE x # 0
  <2>1. p \in DOMAIN disk
    <3>1. p \in DOMAIN Files(n)
      BY <1>0, <1>4, EdgeWritten
    <3> QED BY <3>1 DEF DInv
  <2>2. PICK m \in Nat : p \in DOMAIN Files(m) /\ disk[p] = Files(m)[p]
    BY <2>1 DEF DInv
  <2>3. /\ \E i \in Nat : \E h \in Nat : \E y \in Nat : IsTile(m, p, i, h, y)
        /\ Files(m)[p] = SubSeq(Level(m, p.level), p.N * width + 1, p.N * width + p.len)
    BY <1>0, <2>2, TileFile
  <2>4. p.level = k /\ p.N = g /\ p.len = x
    BY <1>1 DEF EdgeTile
  <2>5. PICK i \in Nat : \E h \in Nat : \E y \in Nat : IsTile(m, p, i, h, y)
    BY <2>3
  <2>6. PICK h \in Nat : \E y \in Nat : IsTile(m, p, i, h, y)
    BY <2>5
  <2>7. PICK y \in Nat : IsTile(m, p, i, h, y)
    BY <2>6
  <2>8. i = k /\ h = g /\ y = x
    BY <2>4, <2>7 DEF IsTile
  <2> DEFINE b == Cells(m)[k]
  <2>9. b \in Nat
    BY <1>0, CellsStep
  <2>10. x = b % width /\ g = b \div width
    <3>1. x # width
      BY <1>0, <1>2
    <3> HIDE DEF x, g
    <3> QED BY <2>7, <2>8, <3>1 DEF IsTile
  <2> HIDE DEF b, c, g, x
  <2>11. b = c
    <3>1. b = width * (b \div width) + (b % width)
      BY <1>0, <2>9
    <3>2. width * g = g * width
      BY <1>0, <1>2
    <3> QED BY <1>2, <2>10, <3>1, <3>2
  <2>12. IsList(Level(m, k), c)
    <3>1. IsList(Level(m, k), Cells(m)[k])
      BY <1>0, LevelCells
    <3> QED BY <2>11, <3>1 DEF b
  <2> DEFINE o == g * width
             s == SubSeq(Level(m, k), o + 1, o + x)
  <2>13. Edge(n, k) = s
    <3>1. Edge(n, k) = disk[p]
      BY <1>4 DEF Edge, c, x
    <3> QED BY <2>2, <2>3, <2>4, <3>1
  <2>14. o \in Nat /\ o + x <= c
    BY <1>2
  <2> HIDE DEF s, o
  <2>15. IsList(s, x) /\ \A j \in 1..x : s[j] = Level(m, k)[o + j]
    BY <1>2, <2>12, <2>14, Slice DEF s
  <2>16. \A j \in 1..x : Level(m, k)[o + j] = Level(n, k)[o + j]
    <3> SUFFICES ASSUME NEW j \in 1..x PROVE Level(m, k)[o + j] = Level(n, k)[o + j]
      OBVIOUS
    <3>1. o + j \in 1..c
      BY <1>1, <1>2, <2>14
    <3>2. o + j \in 1..Cells(m)[k] /\ o + j \in 1..Cells(n)[k]
      BY <2>11, <3>1 DEF b, c
    <3> QED BY <1>0, <3>2, CellsStay
  <2>17. IsList(Edge(n, k), x) /\ \A j \in 1..x : Edge(n, k)[j] = Level(n, k)[o + j]
    BY <2>13, <2>15, <2>16
  <2> QED BY <2>1, <2>17 DEF c, x, g, o
<1> QED BY <1>3, <1>4

-----------------------------------------------------------------------------
(* The reader's way up: the cells of a level and what is right of them have   *)
(* the root of the whole list.                                                *)

\* The whole cells of level k and then what is right of them.
Row(n, k) ==
    [i \in 1..(Cells(n)[k] + 1) |->
        IF i <= Cells(n)[k] THEN Level(n, k)[i] ELSE RightOf(n)[k][1]]

\* q hashes, at most one, are right of level k, and the row hashes to the root.
RowIsWhole(n, k, q) ==
    /\ q \in 0..1
    /\ IsList(RightOf(n)[k], q)
    /\ Cells(n)[k] + q > 0
    /\ Mth(Row(n, k), 0, Cells(n)[k] + q) = Root(Leaves(n))

LEMMA BottomRow ==
    ASSUME WidthIsPower, NEW n \in Nat \ {0} PROVE RowIsWhole(n, 0, 0)
<1>0. width \in Nat /\ width > 1
  BY DEF WidthIsPower
<1>1. Cells(n)[0] = n /\ Level(n, 0) = Leaves(n) /\ RightOf(n)[0] = <<>>
  BY <1>0, CellsStep, LevelsStep, RightStep DEF Level
<1>2. IsList(RightOf(n)[0], 0)
  BY <1>1 DEF IsList
<1>3. Len(Leaves(n)) = n
  BY DEF Leaves
<1> DEFINE row == Row(n, 0)
           list == Leaves(n)
<1>4. \A i \in 1..n : row[i] = list[i]
  BY <1>1 DEF Row
<1> HIDE DEF row, list
<1>5. SameCells(row, 0, list, 0, n)
  <2>1. 0 \in Nat /\ n \in Nat /\ 0 < n /\ \A i \in 1..n : 0 + i = i
    OBVIOUS
  <2> QED BY <1>4, <2>1 DEF SameCells
<1>6. Mth(row, 0, 0 + n) = Mth(list, 0, 0 + n)
  BY <1>5, SameRange
<1>7. 0 + n = n /\ n + 0 = n /\ n > 0 /\ 0 \in 0..1
  OBVIOUS
<1>8. Mth(row, 0, n) = Root(Leaves(n))
  BY <1>3, <1>6, <1>7 DEF Root, list
<1> QED BY <1>1, <1>2, <1>7, <1>8 DEF RowIsWhole, row

-----------------------------------------------------------------------------
LEMMA EmptyList ==
    ASSUME NEW list, NEW n, IsList(list, n) PROVE list = <<>> <=> n = 0
<1>1. n \in Nat /\ DOMAIN list = 1..n /\ list = [i \in 1..n |-> list[i]]
  BY DEF IsList
<1>2. CASE n = 0
  <2>1. 1..n = {}
    BY <1>2
  <2> QED BY <1>1, <1>2, <2>1
<1>3. CASE n # 0
  <2>1. 1 \in DOMAIN list
    BY <1>1, <1>3
  <2>2. DOMAIN <<>> = {}
    OBVIOUS
  <2> QED BY <1>3, <2>1, <2>2
<1> QED BY <1>2, <1>3

\* The cells above are the hashes of the full groups of the row.
LEMMA GroupsOfRow ==
    ASSUME WidthIsPower, NEW n \in Nat, NEW k \in Nat, NEW i \in 1..Cells(n)[k + 1]
    PROVE  Row(n, k + 1)[i] = Mth(Row(n, k), (i - 1) * width, i * width)
<1>0. width \in Nat /\ width > 1
  BY DEF WidthIsPower
<1> DEFINE c == Cells(n)[k]
           g == Cells(n)[k + 1]
           x == (i - 1) * width
           y == i * width
<1>1. c \in Nat /\ k + 1 \in Nat /\ g \in Nat
  BY <1>0, CellsStep
<1>2. x \in Nat /\ y = x + width /\ y <= c
  BY GroupFits
<1>3. Level(n, k + 1)[i] = Mth(Level(n, k), x, y)
  BY LevelHash
<1>4. Row(n, k + 1)[i] = Level(n, k + 1)[i]
  <2>1. i \in 1..(g + 1) /\ i <= g
    BY <1>1
  <2> QED BY <2>1 DEF Row
<1> HIDE DEF x, y, c, g
<1>5. \A j \in 1..width : Level(n, k)[x + j] = Row(n, k)[x + j]
  <2> SUFFICES ASSUME NEW j \in 1..width PROVE Level(n, k)[x + j] = Row(n, k)[x + j]
    OBVIOUS
  <2> DEFINE z == x + j
  <2>1. z \in 1..(c + 1) /\ z <= c
    BY <1>0, <1>1, <1>2
  <2> HIDE DEF z
  <2>2. Level(n, k)[z] = Row(n, k)[z]
    BY <2>1 DEF Row, c
  <2> QED BY <2>2 DEF z
<1>6. SameCells(Level(n, k), x, Row(n, k), x, width)
  BY <1>0, <1>2, <1>5 DEF SameCells
<1>7. Mth(Level(n, k), x, x + width) = Mth(Row(n, k), x, x + width)
  BY <1>6, SameRange
<1> QED BY <1>2, <1>3, <1>4, <1>7 DEF x, y

\* The partial tile and what is right of the level are the end of its row.
LEMMA EndOfRow ==
    ASSUME DInv, NEW n \in sizes, NEW k \in Nat, NEW q, RowIsWhole(n, k, q),
           NEW x, x = Cells(n)[k] % width
    PROVE  /\ IsList(Edge(n, k) \o RightOf(n)[k], x + q)
           /\ Len(Edge(n, k) \o RightOf(n)[k]) = x + q
           /\ \A i \in 1..(x + q) : (Edge(n, k) \o RightOf(n)[k])[i] =
                                       Row(n, k)[Cells(n)[k + 1] * width + i]
<1>0. WidthIsPower /\ width \in Nat /\ width > 1 /\ n \in Nat
  <2>1. width \in Widths /\ n \in Nat
    BY DEF DInv
  <2>2. WidthIsPower
    BY <2>1, WidthFacts
  <2> QED BY <2>1, <2>2 DEF WidthIsPower
<1> DEFINE c == Cells(n)[k]
           g == Cells(n)[k + 1]
           o == g * width
           edge == Edge(n, k)
           right == RightOf(n)[k]
           row == Row(n, k)
           tail == edge \o right
<1>1. c \in Nat /\ g = c \div width
  BY <1>0, CellsStep
<1>2. x \in Nat /\ x < width /\ o \in Nat /\ c = o + x
  <2> HIDE DEF c, g
  <2>0. x = c % width
    BY DEF c
  <2>1. c \div width \in Nat /\ x \in Nat /\ x < width /\ c = width * (c \div width) + x
    BY <1>0, <1>1, <2>0
  <2>2. g \in Nat /\ width * g = g * width /\ g * width \in Nat
    BY <1>0, <1>1, <2>1
  <2> QED BY <1>1, <2>1, <2>2
<1>3. q \in 0..1 /\ IsList(right, q)
  BY DEF RowIsWhole
<1>4. IsList(edge, x) /\ \A i \in 1..x : edge[i] = Level(n, k)[o + i]
  BY EdgeRead
<1> HIDE DEF c, g, o, edge, right, row
<1>5. /\ IsList(tail, x + q) /\ Len(tail) = x + q
      /\ \A i \in 1..x : tail[i] = edge[i]
      /\ \A i \in 1..q : tail[x + i] = right[i]
  <2>1. IsList(edge, x) /\ IsList(right, q)
    BY <1>3, <1>4
  <2>2. IsJoin(tail, edge, x, right, q)
    BY <2>1, Concatenation
  <2> QED BY <2>2 DEF IsJoin
<1> HIDE DEF tail
<1>6. \A i \in 1..(x + q) : tail[i] = row[o + i]
  <2> SUFFICES ASSUME NEW i \in 1..(x + q) PROVE tail[i] = row[o + i]
    OBVIOUS
  <2> DEFINE z == o + i
  <2>1. CASE i <= x
    <3>1. i \in 1..x /\ z \in 1..(c + 1) /\ z <= c
      BY <1>1, <1>2, <1>3, <2>1
    <3> HIDE DEF z
    <3>2. row[z] = Level(n, k)[z]
      BY <3>1 DEF Row, row, c
    <3> QED BY <1>4, <1>5, <3>1, <3>2 DEF z
  <2>2. CASE ~(i <= x)
    <3>1. q = 1 /\ i = x + 1 /\ z \in 1..(c + 1) /\ ~(z <= c) /\ 1 \in 1..q
      BY <1>1, <1>2, <1>3, <2>2
    <3> HIDE DEF z
    <3>2. row[z] = right[1]
      BY <3>1 DEF Row, row, c, right
    <3>3. tail[x + 1] = right[1]
      BY <1>5, <3>1
    <3> QED BY <3>1, <3>2, <3>3 DEF z
  <2> QED BY <2>1, <2>2
<1> QED BY <1>5, <1>6 DEF tail, edge, right, row, o, g

\* One level up.
LEMMA RowUp ==
    ASSUME DInv, NEW n \in sizes, NEW k \in Nat, NEW q, RowIsWhole(n, k, q)
    PROVE  \E b \in 0..1 : RowIsWhole(n, k + 1, b)
<1>0. WidthIsPower /\ width \in Nat /\ width > 1 /\ n \in Nat
  <2>1. width \in Widths /\ n \in Nat
    BY DEF DInv
  <2>2. WidthIsPower
    BY <2>1, WidthFacts
  <2> QED BY <2>1, <2>2 DEF WidthIsPower
<1> DEFINE c == Cells(n)[k]
           g == Cells(n)[k + 1]
           x == c % width
           o == g * width
           tail == Edge(n, k) \o RightOf(n)[k]
           right == RightOf(n)[k + 1]
           row == Row(n, k)
           up == Row(n, k + 1)
           root == Root(Leaves(n))
<1>1. c \in Nat /\ g = c \div width
  BY <1>0, CellsStep
<1>2. g \in Nat /\ x \in Nat /\ x < width /\ o \in Nat /\ c = o + x
  <2> HIDE DEF c, g
  <2>1. c \div width \in Nat /\ x \in Nat /\ x < width /\ c = width * (c \div width) + x
    BY <1>0, <1>1
  <2>2. g \in Nat /\ width * g = g * width /\ g * width \in Nat
    BY <1>0, <1>1, <2>1
  <2> HIDE DEF x
  <2> QED BY <1>1, <2>1, <2>2
<1>3. q \in 0..1 /\ c + q > 0 /\ Mth(row, 0, c + q) = root
  BY DEF RowIsWhole
<1>4. /\ IsList(tail, x + q) /\ Len(tail) = x + q
      /\ \A i \in 1..(x + q) : tail[i] = row[o + i]
  BY EndOfRow
<1>5. \A i \in 1..g : up[i] = Mth(row, (i - 1) * width, i * width)
  BY <1>0, GroupsOfRow
<1>6. right = IF tail = <<>> THEN <<>> ELSE <<Root(tail)>>
  BY RightStep DEF Newer
<1>7. PICK e \in Nat : width = Pow2[e]
  BY <1>0 DEF WidthIsPower
<1>8. up = [i \in 1..(g + 1) |-> IF i <= g THEN Level(n, k + 1)[i] ELSE right[1]]
  BY DEF Row
<1> HIDE DEF tail, row, right, c, g, x, up
<1>9. \A i \in 1..g : i * width <= o /\ i \in Nat
  <2> SUFFICES ASSUME NEW i \in 1..g PROVE i * width <= o
    BY <1>2
  <2>1. g - i \in Nat /\ i \in Nat
    BY <1>2
  <2>2. o = i * width + (g - i) * width /\ (g - i) * width \in Nat /\ i * width \in Nat
    BY <1>0, <1>2, <2>1
  <2> HIDE DEF o
  <2> QED BY <2>2
<1>10. g > 0 => (g - 1) * width + width = o /\ (g - 1) * width \in Nat
  <2> SUFFICES ASSUME g > 0 PROVE (g - 1) * width + width = o /\ (g - 1) * width \in Nat
    OBVIOUS
  <2>1. g - 1 \in Nat
    BY <1>2
  <2> QED BY <1>0, <1>2, <2>1
<1>11. CASE x + q = 0
  <2>1. x = 0 /\ q = 0 /\ c = o /\ o > 0
    BY <1>2, <1>3, <1>11
  <2>2. g > 0
    BY <1>0, <1>2, <2>1
  <2>3. tail = <<>>
    BY <1>4, <1>11, EmptyList
  <2>4. right = <<>> /\ IsList(right, 0)
    BY <1>6, <2>3 DEF IsList
  <2>5. \A i \in 1..g : up[i] = Mth(row, (i - 1) * width, ChunkEnd(i, o, width))
    <3> SUFFICES ASSUME NEW i \in 1..g
                 PROVE  up[i] = Mth(row, (i - 1) * width, ChunkEnd(i, o, width))
      OBVIOUS
    <3>1. i * width \in Nat /\ i * width <= o
      BY <1>0, <1>9
    <3>2. ChunkEnd(i, o, width) = i * width
      <4> HIDE DEF o
      <4> QED BY <1>2, <3>1 DEF ChunkEnd
    <3> QED BY <1>5, <3>2
  <2>6. IsChunked(up, g, row, o, width)
    <3>1. (g - 1) * width < o
      <4> HIDE DEF o
      <4> QED BY <1>0, <1>10, <2>2
    <3>2. o <= g * width
      BY <1>2
    <3> HIDE DEF o
    <3> QED BY <1>0, <1>2, <1>7, <2>2, <2>5, <3>1, <3>2 DEF IsChunked
  <2>7. Mth(up, 0, g) = Mth(row, 0, o)
    BY <2>6, ChunkedRoot
  <2>8. c + q = o /\ g + 0 = g
    <3> HIDE DEF o
    <3> QED BY <1>2, <2>1
  <2>9. RowIsWhole(n, k + 1, 0)
    <3> HIDE DEF o
    <3>1. Mth(up, 0, g + 0) = root
      BY <1>3, <2>7, <2>8
    <3>2. g + 0 > 0 /\ 0 \in 0..1
      BY <1>2, <2>2
    <3> QED BY <2>4, <3>1, <3>2 DEF RowIsWhole, right, up, g
  <2> QED BY <2>9
<1>12. CASE x + q # 0
  <2> DEFINE z == x + q
             m == o + z
             a == g + 1
  <2>1. z \in Nat /\ 0 < z /\ z <= width /\ m \in Nat /\ c + q = m /\ a \in Nat /\ a - 1 = g
        /\ a * width = o + width /\ m <= a * width /\ o < m /\ 0 < a
    <3>1. a * width = o + width
      BY <1>0, <1>2
    <3> HIDE DEF o
    <3> QED BY <1>0, <1>2, <1>3, <1>12, <3>1
  <2>2. tail # <<>>
    BY <1>4, <1>12, EmptyList
  <2>3. right = <<Root(tail)>> /\ IsList(right, 1) /\ right[1] = Root(tail)
    BY <1>6, <2>2 DEF IsList
  <2>4. up[a] = Mth(row, o, m)
    <3>1. up[a] = Root(tail)
      <4>1. a \in 1..(g + 1) /\ ~(a <= g)
        BY <1>2
      <4> HIDE DEF a
      <4> QED BY <1>8, <2>3, <4>1
    <3>2. Root(tail) = Mth(tail, 0, z)
      BY <1>4 DEF Root
    <3> HIDE DEF z
    <3>3. SameCells(tail, 0, row, o, z)
      <4>1. \A i \in 1..z : tail[0 + i] = row[o + i]
        <5>1. \A i \in 1..z : 0 + i = i
          BY <2>1
        <5> QED BY <1>4, <5>1 DEF z
      <4> QED BY <1>2, <2>1, <4>1 DEF SameCells
    <3>4. Mth(tail, 0, 0 + z) = Mth(row, o, o + z)
      BY <3>3, SameRange
    <3>5. 0 + z = z
      BY <2>1
    <3> QED BY <3>1, <3>2, <3>4, <3>5
  <2> HIDE DEF z, m
  <2>5. \A i \in 1..a : up[i] = Mth(row, (i - 1) * width, ChunkEnd(i, m, width))
    <3> SUFFICES ASSUME NEW i \in 1..a
                 PROVE  up[i] = Mth(row, (i - 1) * width, ChunkEnd(i, m, width))
      OBVIOUS
    <3>1. CASE i = a
      <4>1. (i - 1) * width = o
        BY <2>1, <3>1
      <4>2. ChunkEnd(i, m, width) = m
        <5> DEFINE v == i * width
        <5>1. v \in Nat /\ m <= v
          BY <1>0, <2>1, <3>1
        <5> HIDE DEF v
        <5>2. (IF v < m THEN v ELSE m) = m
          BY <2>1, <5>1
        <5> QED BY <5>2 DEF ChunkEnd, v
      <4> QED BY <2>4, <3>1, <4>1, <4>2
    <3>2. CASE i # a
      <4>1. i \in 1..g
        BY <1>2, <3>2
      <4>2. i * width \in Nat /\ i * width <= o
        BY <1>0, <1>9, <4>1
      <4>3. i * width < m
        <5> HIDE DEF o
        <5> QED BY <1>2, <2>1, <4>2
      <4>4. ChunkEnd(i, m, width) = i * width
        BY <4>3 DEF ChunkEnd
      <4> QED BY <1>5, <4>1, <4>4
    <3> QED BY <3>1, <3>2
  <2>6. IsChunked(up, a, row, m, width)
    <3>1. (a - 1) * width < m
      BY <2>1
    <3> HIDE DEF a
    <3> QED BY <1>0, <1>7, <2>1, <2>5, <3>1 DEF IsChunked
  <2>7. Mth(up, 0, a) = Mth(row, 0, m)
    BY <2>6, ChunkedRoot
  <2>8. Mth(up, 0, g + 1) = root /\ g + 1 > 0 /\ 1 \in 0..1
    BY <1>2, <1>3, <2>1, <2>7
  <2>9. RowIsWhole(n, k + 1, 1)
    BY <2>3, <2>8 DEF RowIsWhole, right, up, g
  <2> QED BY <2>9
<1> QED BY <1>11, <1>12

LEMMA RightIsRoot == ASSUME DInv, NEW n \in sizes PROVE RightOf(n)[n] = <<Root(Leaves(n))>>
<1>0. WidthIsPower /\ width \in Nat /\ width > 1 /\ n \in Nat \ {0}
  <2>1. width \in Widths /\ n \in Nat \ {0}
    BY DEF DInv
  <2>2. WidthIsPower
    BY <2>1, WidthFacts
  <2> QED BY <2>1, <2>2 DEF WidthIsPower
<1> DEFINE P == {k \in Nat : \E q \in 0..1 : RowIsWhole(n, k, q)}
<1>1. 0 \in P
  <2>1. RowIsWhole(n, 0, 0) /\ 0 \in 0..1
    BY <1>0, BottomRow
  <2> QED BY <2>1
<1>2. ASSUME NEW k \in Nat, k \in P PROVE k + 1 \in P
  <2>1. PICK q \in 0..1 : RowIsWhole(n, k, q)
    BY <1>2
  <2>2. \E b \in 0..1 : RowIsWhole(n, k + 1, b)
    BY <2>1, RowUp
  <2> QED BY <2>2
<1> HIDE DEF P
<1>3. n \in P
  BY <1>0, <1>1, <1>2, SetInduction
<1>4. PICK q \in 0..1 : RowIsWhole(n, n, q)
  BY <1>3 DEF P
<1>5. Cells(n)[n] = 0
  BY <1>0, CellsEnd
<1> DEFINE right == RightOf(n)[n]
           row == Row(n, n)
           h == right[1]
<1>6. /\ IsList(right, q) /\ 0 + q > 0 /\ Mth(row, 0, 0 + q) = Root(Leaves(n))
  BY <1>4, <1>5 DEF RowIsWhole
<1>7. row[1] = h
  <2>1. 1 \in 1..(0 + 1) /\ ~(1 <= 0)
    OBVIOUS
  <2> QED BY <1>5, <2>1 DEF Row
<1> HIDE DEF right, row
<1>8. q = 1
  BY <1>6
<1>9. Mth(row, 0, 0 + 1) = row[0 + 1]
  <2>1. 0 \in Nat
    OBVIOUS
  <2> QED BY <2>1, OneLeaf
<1>10. 0 + 1 = 1
  OBVIOUS
<1>11. h = Root(Leaves(n))
  BY <1>6, <1>7, <1>8, <1>9, <1>10
<1>12. right = <<h>>
  <2>1. right = [i \in 1..1 |-> right[i]]
    BY <1>6, <1>8 DEF IsList
  <2> QED BY <2>1
<1> QED BY <1>11, <1>12 DEF right

-----------------------------------------------------------------------------
LEMMA InitDInv == TilesInit => DInv
<1> SUFFICES ASSUME TilesInit PROVE DInv
  OBVIOUS
<1>1. width \in Widths /\ sizes = {} /\ disk = Files(0)
  BY DEF TilesInit
<1>2. 0 \in Nat
  OBVIOUS
<1> QED BY <1>1, <1>2 DEF DInv

\* What is written depends on the width alone, and it stays.
LEMMA FilesStay ==
    ASSUME width' = width, NEW n PROVE Files(n)' = Files(n)
BY DEF Files, LevelTileFiles, TileGroups

\* A run of the publisher adds a larger log.
LEMMA PublishGrows ==
    ASSUME DInv, Publish
    PROVE  \E n \in Nat \ {0} :
              /\ sizes' = sizes \cup {n}
              /\ \A m \in sizes : m <= n
              /\ disk' = [p \in DOMAIN disk \cup DOMAIN Files(n) |->
                             IF p \in DOMAIN Files(n) THEN Files(n)[p] ELSE disk[p]]
<1>1. Count \in Nat /\ \A m \in sizes : m <= Count
  <2>1. CASE sizes = {}
    BY <2>1 DEF Count
  <2>2. CASE sizes # {}
    <3>1. \E n \in sizes : \A m \in sizes : m <= n
      BY <2>2 DEF DInv
    <3>2. Count = CHOOSE n \in sizes : \A m \in sizes : m <= n
      BY <2>2 DEF Count
    <3>3. Count \in sizes /\ \A m \in sizes : m <= Count
      BY <3>1, <3>2
    <3> QED BY <3>3 DEF DInv
  <2> QED BY <2>1, <2>2
<1>2. PICK n \in (Count + 1)..(Count + MaxBatch) :
         /\ sizes' = sizes \cup {n}
         /\ disk' = [p \in DOMAIN disk \cup DOMAIN Files(n) |->
                        IF p \in DOMAIN Files(n) THEN Files(n)[p] ELSE disk[p]]
  BY DEF Publish
<1>3. n \in Nat \ {0} /\ Count <= n
  BY <1>1, <1>2
<1>4. \A m \in sizes : m <= n
  <2> SUFFICES ASSUME NEW m \in sizes PROVE m <= n
    OBVIOUS
  <2>1. m \in Nat /\ m <= Count
    BY <1>1 DEF DInv
  <2> QED BY <1>1, <1>3, <2>1
<1> QED BY <1>2, <1>3, <1>4

LEMMA PublishKeeps == ASSUME DInv, Publish PROVE DInv'
<1>1. PICK n \in Nat \ {0} :
         /\ sizes' = sizes \cup {n}
         /\ \A m \in sizes : m <= n
         /\ disk' = [p \in DOMAIN disk \cup DOMAIN Files(n) |->
                        IF p \in DOMAIN Files(n) THEN Files(n)[p] ELSE disk[p]]
  BY PublishGrows
<1>2. width' = width
  BY DEF Publish
<1>3. \A m : Files(m)' = Files(m)
  BY <1>2, FilesStay
<1>4. width' \in Widths
  BY <1>2 DEF DInv
<1>5. sizes' \in SUBSET (Nat \ {0})
  BY <1>1 DEF DInv
<1>6. \E m \in sizes' : \A i \in sizes' : i <= m
  BY <1>1
<1>7. ASSUME NEW p \in DOMAIN disk'
      PROVE  \E m \in Nat : p \in DOMAIN Files(m) /\ disk'[p] = Files(m)[p]
  <2>1. CASE p \in DOMAIN Files(n)
    <3>1. disk'[p] = Files(n)[p] /\ n \in Nat
      BY <1>1, <2>1
    <3> QED BY <2>1, <3>1
  <2>2. CASE p \notin DOMAIN Files(n)
    <3>1. p \in DOMAIN disk /\ disk'[p] = disk[p]
      BY <1>1, <1>7, <2>2
    <3> QED BY <3>1 DEF DInv
  <2> QED BY <2>1, <2>2
<1>8. ASSUME NEW m \in sizes' PROVE DOMAIN Files(m) \subseteq DOMAIN disk'
  <2>1. DOMAIN disk' = DOMAIN disk \cup DOMAIN Files(n)
    BY <1>1
  <2>2. m \in sizes \/ m = n
    BY <1>1, <1>8
  <2> QED BY <2>1, <2>2 DEF DInv
<1> QED BY <1>3, <1>4, <1>5, <1>6, <1>7, <1>8 DEF DInv

LEMMA IdleKeepsDisk == ASSUME DInv, UNCHANGED tileVars PROVE DInv'
<1>1. width' = width /\ sizes' = sizes /\ disk' = disk
  BY DEF tileVars
<1>2. \A m : Files(m)' = Files(m)
  BY <1>1, FilesStay
<1> QED BY <1>1, <1>2 DEF DInv

LEMMA DiskGivesRoots == DInv => RootFromTiles
<1> SUFFICES ASSUME DInv PROVE RootFromTiles
  OBVIOUS
<1>1. ASSUME NEW n \in sizes, NEW k \in 0..n, Cells(n)[k] % width # 0
      PROVE  EdgeTile(n, k) \in DOMAIN disk
  <2>1. k \in Nat
    BY <1>1 DEF DInv
  <2> QED BY <1>1, <2>1, EdgeRead
<1>2. ASSUME NEW n \in sizes PROVE RightOf(n)[n] = <<Root(Leaves(n))>>
  BY <1>2, RightIsRoot
<1> QED BY <1>1, <1>2 DEF RootFromTiles

\* However the log has grown, the files left on disk give every published size the
\* root its checkpoint signed, from at most one partial tile a level.
THEOREM RootsFromTiles == TilesSpec => []RootFromTiles
<1>1. DInv /\ [TilesNext]_tileVars => DInv'
  BY PublishKeeps, IdleKeepsDisk DEF TilesNext
<1> QED BY <1>1, InitDInv, DiskGivesRoots, PTL DEF TilesSpec
=============================================================================
