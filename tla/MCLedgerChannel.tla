--------------------------- MODULE MCLedgerChannel ---------------------------
(* TLC instances of LedgerChannel: the calls, tabs and artifacts of a run are *)
(* interchangeable.                                                           *)
EXTENDS LedgerChannel, TLC

ChannelSymmetry == Permutations(Sends) \cup Permutations(Tabs) \cup Permutations(Artifacts)
=============================================================================
