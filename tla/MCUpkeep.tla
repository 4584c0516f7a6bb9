------------------------------ MODULE MCUpkeep ------------------------------
(* A behaviour has at most Budget events from outside the two bots, which   *)
(* are landings, failures and pushes of builders, in any mixture, and the   *)
(* first landing changes sources only.                                      *)
EXTENDS Upkeep, FiniteSetsExt

CONSTANT Budget     \* BOUND: of landings, failures and builders' pushes together

Pushed == MapThenSumSet(LAMBDA p : heads[p].own, PRs)

Within ==
    /\ landed' + faults' + Pushed' <= Budget
    /\ landed' > 0 => 1 \notin flawed' /\ main'[2].der = 0

MCFairSpec ==
    /\ Init /\ [][Next /\ Within]_vars
    /\ WF_vars(RegenStep /\ Within) /\ WF_vars(SyncStep /\ Within)
    /\ WF_vars(Schedule /\ UNCHANGED regen)
    /\ \A p \in PRs : WF_vars(Age(p) /\ UNCHANGED <<branch, regen>>)
=============================================================================
