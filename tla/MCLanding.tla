------------------------------ MODULE MCLanding ------------------------------
(* Two lineage pull requests in the order of allow.lineage, studied in two  *)
(* ways, of which a behaviour chooses one.  "lane": both of them, with one  *)
(* event run at a time, the shadow check the last to pass, and an entry     *)
(* dropped only by a push.  "queue": the first alone, on a main that only   *)
(* its own merge moves, dropped for any of Faults, with two event runs      *)
(* under way at once.                                                       *)
EXTENDS Landing, TLC

CONSTANTS a, b, r1, r2

MCPRs  == {a, b}
MCRank == a :> 1 @@ b :> 2

VARIABLE study

mcvars == <<vars, study>>

Within ==
    /\ study' = study
    /\ study = "lane"  => timeline' = timeline /\ job'[r2] = Idle /\ shadow' \subseteq green'
    /\ study = "queue" => life'[b] = "unopened" /\ (tip' = tip \/ life' # life)

MCInit == Init /\ study \in {"lane", "queue"}

MCFairSpec ==
    /\ MCInit /\ [][Next /\ Within]_mcvars
    /\ WF_mcvars(LanePass /\ Within) /\ WF_mcvars(Scanning /\ Within)
    /\ \A r \in Runs : WF_mcvars(Visit(r) /\ UNCHANGED lane /\ Within)
=============================================================================
