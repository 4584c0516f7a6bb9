-------------------------- MODULE TlogConsistency --------------------------
(***************************************************************************)
(* verifyConsistency of chaingraph/kernels/c2sp-tlog-verify.mjs, one loop  *)
(* iteration a step.  The publisher runs it as its append-only gate, on a  *)
(* proof it has built itself; anyone else's proof is any list of hashes.   *)
(* The hashes of such a list are chosen as the verifier takes them off the *)
(* proof, and its length when the verifier asks for one hash more.         *)
(***************************************************************************)
EXTENDS Merkle

CONSTANTS
    MaxBuilt,   \* BOUND: the largest tree with a proof of the honest prover
    MaxListed   \* BOUND: the largest tree with any list of hashes for a proof

\* Where proofs come from: buildConsistencyProof, or anywhere.
Sources == {"builder", "anyone"}
MaxTree == [who \in Sources |-> IF who = "anyone" THEN MaxListed ELSE MaxBuilt]

VARIABLES
    claim,              \* the arguments: prover, oldSize, newSize, oldRoot
    proof,              \* the part of the proof the verifier has come to know
    node, lastNode,     \* the two walks towards the root
    oldHash, newHash,   \* the two roots being recomputed
    stage               \* where the verifier is; at the end, its answer

consistencyVars == <<claim, proof, node, lastNode, oldHash, newHash, stage>>

NewLeaves == Leaves(claim.newSize)
NewRoot == Root(NewLeaves)

\* The roots a log may claim for its old tree: those of every prefix of the
\* new one, and those of the old tree with one leaf replaced.
ClaimedRoots(m, n) ==
    {Root(Leaves(k)) : k \in 1..n}
      \cup {Root([Leaves(m) EXCEPT ![j] = HashLeafNode(0)]) : j \in 1..m}

Known == Subtrees(NewLeaves) \cup {claim.oldRoot, HashLeafNode(0)}

Built == BuildConsistencyProof(claim.oldSize, NewLeaves)

ConsistencyInit ==
    /\ \E who \in Sources : \E n \in 1..MaxTree[who] : \E m \in 0..(n + 1) :
          \E root \in ClaimedRoots(m, n) :
             claim = [prover |-> who, oldSize |-> m, newSize |-> n, oldRoot |-> root]
    /\ proof = <<>>
    /\ node = 0 /\ lastNode = 0
    /\ oldHash = claim.oldRoot /\ newHash = claim.oldRoot
    /\ stage = "start"

Decide(answer) ==
    /\ stage' = answer
    /\ UNCHANGED <<claim, proof, node, lastNode, oldHash, newHash>>

\* p.length === 0: an arbitrary proof may end anywhere.
NothingLeft == claim.prover = "anyone" \/ Len(proof) = Len(Built)

\* What p.shift() can return; empty when nothing is left.
Shiftable ==
    CASE claim.prover = "anyone" -> Known
      [] Len(proof) < Len(Built) -> {Built[Len(proof) + 1]}
      [] OTHER -> {}

Shift(h) == proof' = Append(proof, h)

\* p.length !== 0 where the proof should be over: what is left becomes known.
Leftover(answer) ==
    /\ \E h \in Shiftable : Shift(h)
    /\ stage' = answer
    /\ UNCHANGED <<claim, node, lastNode, oldHash, newHash>>

Outcome(answer) == IF answer THEN "accepted" ELSE "rejected"

SizesOutOfRange ==
    /\ stage = "start"
    /\ claim.oldSize = 0 \/ claim.newSize < claim.oldSize
    /\ Decide("rejected")

EqualSizes ==
    /\ stage = "start"
    /\ claim.oldSize = claim.newSize
    /\ \/ NothingLeft /\ Decide(Outcome(claim.oldRoot = NewRoot))
       \/ Leftover("rejected")

EnterWalk ==
    /\ stage = "start"
    /\ claim.oldSize \in 1..(claim.newSize - 1)
    /\ node' = claim.oldSize - 1
    /\ lastNode' = claim.newSize - 1
    /\ stage' = "climb"
    /\ UNCHANGED <<claim, proof, oldHash, newHash>>

HalveBoth ==
    /\ node' = node \div 2
    /\ lastNode' = lastNode \div 2

\* Past the largest complete subtree that ends where the old tree ends.
Climb ==
    /\ stage = "climb" /\ node % 2 = 1
    /\ HalveBoth
    /\ UNCHANGED <<claim, proof, oldHash, newHash, stage>>

\* Mutant: the hash that opens the proof is never asked for.
SeedFromClaim ==
    /\ stage = "climb" /\ node % 2 = 0
    /\ stage' = "old"
    /\ UNCHANGED <<claim, proof, node, lastNode, oldHash, newHash>>

\* Its hash opens the proof, unless the old tree is that subtree.
Seed ==
    /\ stage = "climb" /\ node % 2 = 0
    /\ \/ /\ node > 0
          /\ \E h \in Shiftable : Shift(h) /\ oldHash' = h /\ newHash' = h
       \/ node = 0 /\ UNCHANGED <<proof, oldHash, newHash>>
    /\ stage' = "old"
    /\ UNCHANGED <<claim, node, lastNode>>

ShiftLeft ==
    /\ stage = "old" /\ node > 0 /\ node % 2 = 1
    /\ \E h \in Shiftable :
          /\ Shift(h)
          /\ oldHash' = HashInteriorNode(h, oldHash)
          /\ newHash' = HashInteriorNode(h, newHash)
    /\ HalveBoth
    /\ UNCHANGED <<claim, stage>>

ShiftRight ==
    /\ stage = "old" /\ node > 0 /\ node % 2 = 0 /\ node < lastNode
    /\ \E h \in Shiftable : Shift(h) /\ newHash' = HashInteriorNode(newHash, h)
    /\ HalveBoth
    /\ UNCHANGED <<claim, oldHash, stage>>

ShiftNothing ==
    /\ stage = "old" /\ node > 0 /\ node % 2 = 0 /\ node >= lastNode
    /\ HalveBoth
    /\ UNCHANGED <<claim, proof, oldHash, newHash, stage>>

CompareOld ==
    /\ stage = "old" /\ node = 0
    /\ Decide(IF oldHash = claim.oldRoot THEN "new" ELSE "rejected")

Extend ==
    /\ stage = "new" /\ lastNode > 0
    /\ \E h \in Shiftable : Shift(h) /\ newHash' = HashInteriorNode(newHash, h)
    /\ lastNode' = lastNode \div 2
    /\ UNCHANGED <<claim, node, oldHash, stage>>

ProofRunsOut ==
    /\ \/ stage = "climb" /\ node % 2 = 0 /\ node > 0
       \/ stage = "old" /\ node > 0 /\ (node % 2 = 1 \/ node < lastNode)
       \/ stage = "new" /\ lastNode > 0
    /\ NothingLeft
    /\ Decide("rejected")

\* Mutant: hashes left on the proof are not noticed.
CompareNewLoosely ==
    /\ stage = "new" /\ lastNode = 0
    /\ \/ NothingLeft /\ Decide(Outcome(newHash = NewRoot))
       \/ Leftover(Outcome(newHash = NewRoot))

CompareNew ==
    /\ stage = "new" /\ lastNode = 0
    /\ \/ NothingLeft /\ Decide(Outcome(newHash = NewRoot))
       \/ Leftover("rejected")

ConsistencyNext ==
    \/ SizesOutOfRange \/ EqualSizes \/ EnterWalk \/ Climb \/ Seed
    \/ ShiftLeft \/ ShiftRight \/ ShiftNothing \/ CompareOld
    \/ Extend \/ ProofRunsOut \/ CompareNew

ConsistencySpec == ConsistencyInit /\ [][ConsistencyNext]_consistencyVars

-----------------------------------------------------------------------------
OldTree == Leaves(claim.oldSize)

\* The gate never refuses growth: the proof buildConsistencyProof makes for two
\* sizes of one log, shown with the old root the log really had, is accepted.
\* (generate() aborts, and publishes nothing, when it is not.)
GrowthAccepted ==
    /\ stage = "rejected"
    /\ claim.prover = "builder"
    /\ claim.oldSize \in 1..claim.newSize
    => claim.oldRoot # Root(OldTree)

\* Nothing else passes: whatever list of hashes is offered, an accepted claim is
\* the root of a prefix of the new tree of exactly the size claimed, and the list
\* is the one proof for it.  No other list of any length is accepted.
OnlyGrowthAccepted ==
    stage = "accepted" => /\ claim.oldSize \in 1..claim.newSize
                       /\ claim.oldRoot = Root(OldTree)
                       /\ proof = Built

\* verifyConsistency is right on every input: the publisher's gate lets every true
\* growth of its log through, and nothing else.
GrowthDecided == GrowthAccepted /\ OnlyGrowthAccepted
=============================================================================
