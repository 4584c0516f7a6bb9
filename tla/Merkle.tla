------------------------------- MODULE Merkle -------------------------------
(***************************************************************************)
(* The RFC 6962 tree the registry lineage log is built on: the root of a   *)
(* list of leaf hashes, the consistency proof between two sizes, and the   *)
(* tile levels (scripts/gen-registry-lineage.mjs).  A hash is a term, so   *)
(* two hashes are equal only when what was hashed is: SHA-256 is assumed   *)
(* not to collide.  A list D is a sequence, D[lo + 1 .. hi] the range the  *)
(* code writes (D, lo, hi).  Recursion over ranges is by recursive         *)
(* functions of a length, whose values are functions of where they start.  *)
(***************************************************************************)
EXTENDS Integers, Sequences

HashLeafNode(d) == <<"leaf", d>>
HashInteriorNode(left, right) == <<"node", left, right>>

Pow2[i \in Nat] == IF i = 0 THEN 1 ELSE 2 * Pow2[i - 1]

LargestPow2LessThan(n) ==
    CHOOSE k \in {Pow2[i] : i \in 0..n} : k < n /\ n <= 2 * k

Tree(D) ==
    LET tree[n \in Nat \ {0}] ==
            [lo \in Nat |->
                IF n = 1 THEN D[lo + 1]
                ELSE LET k == LargestPow2LessThan(n)
                     IN HashInteriorNode(tree[k][lo], tree[n - k][lo + k])]
    IN tree

Mth(D, lo, hi) == Tree(D)[hi - lo][lo]

Root(D) == Mth(D, 0, Len(D))

Subproofs(D) ==
    LET sub[n \in Nat \ {0}] ==
            [m \in 1..n |-> [lo \in Nat |-> [b \in BOOLEAN |->
                LET k == LargestPow2LessThan(n)
                IN IF m = n
                   THEN IF b THEN <<>> ELSE <<Mth(D, lo, lo + n)>>
                   ELSE IF m <= k
                   THEN Append(sub[k][m][lo][b], Mth(D, lo + k, lo + n))
                   ELSE Append(sub[n - k][m - k][lo + k][FALSE], Mth(D, lo, lo + k))]]]
    IN sub

Subproof(m, D, lo, hi, haveRootHash) == Subproofs(D)[hi - lo][m][lo][haveRootHash]

BuildConsistencyProof(oldSize, D) ==
    IF oldSize = 0 THEN <<>> ELSE Subproof(oldSize, D, 0, Len(D), TRUE)

Leaves(n) == [i \in 1..n |-> HashLeafNode(i)]

\* Every hash of a tree over D: what whoever offers a proof can choose from.
Subtrees(D) == {Mth(D, r[1], r[2]) : r \in {s \in (0..Len(D)) \X (0..Len(D)) : s[1] < s[2]}}
=============================================================================
