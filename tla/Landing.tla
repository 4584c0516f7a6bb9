------------------------------- MODULE Landing -------------------------------
(***************************************************************************)
(* How a pull request lands: auto-arm.mjs labels it, the label's event     *)
(* starts automerge-label.yml, which arms it, the queue merges or drops    *)
(* it, and a drop starts the workflow again; the hourly scan picks up what *)
(* was left.                                                               *)
(***************************************************************************)
EXTENDS AutoArm, AutomergeLabel

vars == <<forge, lane, workflow>>

TypeOK == ForgeTypeOK /\ LaneTypeOK /\ WorkflowTypeOK

Init == ForgeInit /\ LaneInit /\ WorkflowInit

World ==
    \/ MainMoves
    \/ \E p \in PRs :
          OpenPR(p) \/ ClosePR(p) \/ ChecksPass(p) \/ ShadowPasses(p) \/ Refresh(p)
              \/ Enqueue(p) \/ Merge(p) \/ Override(p)

Push(p) == p \in Open /\ NewHead(p) /\ Synchronized(p)

LabelledByHand(p) == HandLabel(p) /\ Labeled(p) /\ LabelledLate(p)

Dropped(p, why) ==
    /\ Drop(p, why)
    /\ IF why = "timeout" THEN Dequeued(p, "timeout", Timeouts(timeline'[p]))
       ELSE Dequeued(p, "removal", 0)

Armed ==
    /\ AddLabel
    /\ IF write.pr \in Open THEN Labeled(write.pr) ELSE UNCHANGED job

Updated ==
    /\ UpdateBranch
    /\ IF write.pr \in Open THEN Synchronized(write.pr) ELSE UNCHANGED job

Visit(r) ==
    \/ Guard(r) \/ DecideLabeled(r) \/ DecideTimeout(r) \/ DecideRemoval(r)
    \/ Hold(r) \/ Enable(r) \/ ClearHold(r)

LanePass ==
    /\ \/ (StartPass \/ \E p \in PRs : Decide(p)) /\ UNCHANGED workflow
       \/ (Armed \/ Updated) /\ UNCHANGED scan
    /\ Remember

Scanning == (StartScan \/ \E p \in PRs : ViewPR(p) \/ Rearm(p)) /\ UNCHANGED lane

Next ==
    \/ World /\ UNCHANGED <<lane, workflow>>
    \/ (\E p \in PRs : LabelledByHand(p)) /\ UNCHANGED scan /\ UNCHANGED <<pass, write>>
    \/ (\E p \in PRs : Push(p)) /\ UNCHANGED scan /\ UNCHANGED lane
    \/ (\E p \in PRs, why \in Faults : Dropped(p, why)) /\ UNCHANGED scan /\ UNCHANGED lane
    \/ LanePass
    \/ (\E r \in Runs : Visit(r)) /\ UNCHANGED lane
    \/ Scanning

Spec == Init /\ [][Next]_vars

\* Both workflows are scheduled every hour or oftener, and a run ends.
FairSpec ==
    /\ Spec
    /\ WF_vars(LanePass) /\ WF_vars(Scanning)
    /\ \A r \in Runs : WF_vars(Visit(r) /\ UNCHANGED lane)

-----------------------------------------------------------------------------
(* Properties. *)

\* Passes arm one lineage pull request at a time, because the key set of the
\* log is settled by one merge before the next is tested: whenever a pass labels
\* one, every other lineage pull request that is labelled or on its way was
\* labelled by hand after that pass read its list.  However old the labels are
\* that the pass compares with, nothing it or an earlier pass did slips through.
ArmsOneLineagePR ==
    [][\A p \in Open \cap Lineage :
          Armed /\ write.pr = p =>
             (Open \cap Lineage \cap (labelled \cup auto \cup queue)) \ {p} \subseteq late]_vars

\* The run that a timeout at the cap starts never re-queues, however late the
\* runs of the earlier ones count: as long as no timeout is older than the
\* removals that a read of the timeline returns.
RequeuesCapped ==
    \A r \in Runs :
       job[r].at = "enable" /\ job[r].on = "timeout" /\ job[r].pr \in Open \ lost
          => job[r].nth < TimeoutCap

\* A labelled pull request that is green, not held and not armed is not left
\* so for ever: the scan finds it, whatever event was refused or lost.
Forgotten(p) ==
    /\ p \in Open \cap labelled \cap green \cap shadow
    /\ p \notin held \cup auto \cup queue

NotForgotten == \A p \in PRs : ~<>[]Forgotten(p)

\* The lane moves: the baton's holder, green and with no other lineage pull
\* request on its way, does not stay so for ever: it is labelled, or no longer so.
Due(p) ==
    /\ p \in (Open \cap Eligible \cap green) \ labelled
    /\ p \in Lineage =>
          /\ p \in Listed /\ \A q \in (Listed \cap Open) \ {p} : Rank[p] < Rank[q]
          /\ (Open \cap Lineage \cap labelled) = {}

LaneMoves == \A p \in PRs : ~<>[]Due(p)
=============================================================================
