---------------------------- MODULE MCLedgerTab ----------------------------
(* Finite instances of LedgerTab: artifacts as their tools issue them. *)
EXTENDS LedgerTab, TLC

Issued == [hash: Hashes, body: Bodies, anchored: {FALSE}, closure: {"none"}]
IdSymmetry == Permutations(Ids)
=============================================================================
