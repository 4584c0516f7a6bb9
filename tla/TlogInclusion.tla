--------------------------- MODULE TlogInclusion ---------------------------
(***************************************************************************)
(* verifyInclusion of chaingraph/kernels/c2sp-tlog-verify.mjs, one loop    *)
(* iteration a step: register-sigsum.mjs and register-rekor.mjs run it on  *)
(* the leaf, index and audit path a log answers with.  The path is chosen  *)
(* hash by hash as in TlogConsistency.                                     *)
(***************************************************************************)
EXTENDS Merkle

CONSTANTS
    MaxHonest,  \* BOUND: the largest tree with a proof of the honest prover
    MaxAny      \* BOUND: the largest tree with any list of hashes for a proof

\* Where proofs come from: the audit path of the log, or anywhere.
Provers == {"log", "anyone"}
MaxSize == [who \in Provers |-> IF who = "anyone" THEN MaxAny ELSE MaxHonest]

VARIABLES
    call,       \* the arguments: prover, leaf, index, size
    path,       \* the part of the path the verifier has come to know
    fn, sn,     \* the walks of the leaf and of the last leaf to the root
    r,          \* the root being recomputed
    phase       \* where the verifier is; at the end, its answer

inclusionVars == <<call, path, fn, sn, r, phase>>

D == Leaves(call.size)

\* Reference: the audit path of a leaf, by the recursion of RFC 6962 2.1.1.
AuditPaths(list, m) ==
    LET audit[n \in Nat \ {0}] ==
            [lo \in Nat |->
                IF n = 1 THEN <<>>
                ELSE LET k == LargestPow2LessThan(n)
                     IN IF m < lo + k
                        THEN Append(audit[k][lo], Mth(list, lo + k, lo + n))
                        ELSE Append(audit[n - k][lo + k], Mth(list, lo, lo + k))]
    IN audit

AuditPath(list, m, lo, hi) == AuditPaths(list, m)[hi - lo][lo]

TruePath == AuditPath(D, call.index, 0, call.size)

\* A tree of no leaf has no root: its calls end before the root is read.
InclusionInit ==
    /\ \E who \in Provers : \E n \in 0..MaxSize[who] : \E i \in -1..n :
          \E leaf \in Subtrees(Leaves(n)) \cup {HashLeafNode(0)} :
             call = [prover |-> who, leaf |-> leaf, index |-> i, size |-> n]
    /\ path = <<>>
    /\ fn = 0 /\ sn = 0
    /\ r = call.leaf
    /\ phase = "start"

Ended(answer) == IF answer THEN "accepted" ELSE "rejected"

Return(answer) == phase' = answer /\ UNCHANGED <<call, path, fn, sn, r>>

InRange == call.index >= 0 /\ call.index < call.size

OutOfRange ==
    /\ phase = "start"
    /\ ~InRange
    /\ Return("rejected")

Enter ==
    /\ phase = "start"
    /\ InRange
    /\ fn' = call.index
    /\ sn' = call.size - 1
    /\ phase' = "climb"
    /\ UNCHANGED <<call, path, r>>

NoneLeft == call.prover = "anyone" \/ Len(path) = Len(TruePath)

Offered ==
    CASE call.prover = "anyone" -> Subtrees(D) \cup {HashLeafNode(0)}
      [] Len(path) < Len(TruePath) -> {TruePath[Len(path) + 1]}
      [] OTHER -> {}

Halve == fn' = fn \div 2 /\ sn' = sn \div 2

IsOdd == fn % 2 = 1

LeftSibling ==
    /\ phase = "climb" /\ sn > 0 /\ IsOdd
    /\ \E h \in Offered : path' = Append(path, h) /\ r' = HashInteriorNode(h, r)
    /\ Halve
    /\ UNCHANGED <<call, phase>>

RightSibling ==
    /\ phase = "climb" /\ sn > 0 /\ ~IsOdd /\ fn < sn
    /\ \E h \in Offered : path' = Append(path, h) /\ r' = HashInteriorNode(r, h)
    /\ Halve
    /\ UNCHANGED <<call, phase>>

\* Mutant: on the right edge the node is paired with itself.
PairWithItself ==
    /\ phase = "climb" /\ sn > 0 /\ ~IsOdd /\ fn >= sn
    /\ r' = HashInteriorNode(r, r)
    /\ Halve
    /\ UNCHANGED <<call, path, phase>>

NoSibling ==
    /\ phase = "climb" /\ sn > 0 /\ ~IsOdd /\ fn >= sn
    /\ Halve
    /\ UNCHANGED <<call, path, r, phase>>

RunOut ==
    /\ phase = "climb" /\ sn > 0 /\ (IsOdd \/ fn < sn)
    /\ NoneLeft
    /\ Return("rejected")

\* Mutant: a path longer than needed is accepted.
CompareLoosely ==
    /\ phase = "climb" /\ sn = 0
    /\ \/ NoneLeft /\ Return(Ended(r = Root(D)))
       \/ /\ \E h \in Offered : path' = Append(path, h)
          /\ phase' = Ended(r = Root(D))
          /\ UNCHANGED <<call, fn, sn, r>>

\* The path must be consumed exactly.
Compare ==
    /\ phase = "climb" /\ sn = 0
    /\ \/ NoneLeft /\ Return(Ended(r = Root(D)))
       \/ /\ \E h \in Offered : path' = Append(path, h)
          /\ phase' = "rejected"
          /\ UNCHANGED <<call, fn, sn, r>>

InclusionNext ==
    \/ OutOfRange \/ Enter \/ LeftSibling \/ RightSibling \/ NoSibling
    \/ RunOut \/ Compare

InclusionSpec == InclusionInit /\ [][InclusionNext]_inclusionVars

-----------------------------------------------------------------------------
\* A leaf that is in the tree, at the index claimed, with the path a log gives
\* for it, is accepted: anchoring an entry the log has included never fails.
MemberAccepted ==
    phase = "rejected" /\ call.prover = "log" /\ InRange
       => call.leaf # D[call.index + 1]

\* Whatever path is offered, an accepted leaf is the one at the claimed index
\* (not an interior node, not its neighbour), and the path is its audit path.
OnlyMemberAccepted ==
    phase = "accepted" => /\ InRange
                       /\ call.leaf = D[call.index + 1]
                       /\ path = TruePath

\* verifyInclusion is right on every input: an included leaf with its audit path
\* is accepted, and nothing else ever is.
MembershipDecided == MemberAccepted /\ OnlyMemberAccepted
=============================================================================
