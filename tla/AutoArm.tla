------------------------------- MODULE AutoArm -------------------------------
(***************************************************************************)
(* scripts/ci/auto-arm.mjs: one pass over the open pull requests, which    *)
(* labels `automerge` those that may land.  The list with its labels and   *)
(* main's tip are read once, at the start; checks, merge ref and queue are *)
(* read when a pull request is decided; the decision is carried out by a   *)
(* later call.  The concurrency group of auto-arm.yml runs one pass at a   *)
(* time.  The parallel lineage slots are off, as in that workflow.         *)
(*                                                                         *)
(* Whether a pull request is lineage-class is read off its listed files,   *)
(* at most a hundred, on each pass; here it has one answer for good, that  *)
(* is, a push changes no pull request's class.                             *)
(***************************************************************************)
EXTENDS Forge

CONSTANTS
    Eligible,   \* allow-listed, no draft, no `hold` label, no workflow file
    Lineage,    \* lineage-class: they touch the keys of the registry's log
    Rank        \* allow.lineage: the place of a pull request's branch in it

Listed == DOMAIN Rank

ASSUME LaneAssumption ==
    /\ Eligible \subseteq PRs /\ Lineage \subseteq PRs
    /\ Listed \subseteq PRs /\ Rank \in [Listed -> Nat]
    /\ \A p, q \in Listed : Rank[p] = Rank[q] => p = q

VARIABLES
    pass,    \* what the pass read at its start, and whom it has yet to decide
    write,   \* the call it is about to make
    late     \* history: those labelled by hand since it read its list

lane == <<pass, write, late>>

NoWrite  == [do |-> "nothing"]
Label(p)  == [do |-> "arm", pr |-> p]
Update(p) == [do |-> "update-branch", pr |-> p]

LaneTypeOK ==
    /\ pass \in [open: SUBSET PRs, labelled: SUBSET PRs, tip: 0..MaxTip, todo: SUBSET PRs]
    /\ write \in {NoWrite} \cup {Label(p) : p \in PRs} \cup {Update(p) : p \in PRs}
    /\ late \subseteq PRs

\* Between passes, and after the last decision of one, nothing is remembered.
NoPass == [open |-> {}, labelled |-> {}, tip |-> 0, todo |-> {}]

With(p, todo) == IF todo = {} THEN NoPass ELSE [p EXCEPT !.todo = todo]

LaneInit == pass = NoPass /\ write = NoWrite /\ late = {}

-----------------------------------------------------------------------------
(* The history: kept while a pass is under way, dropped as it ends. *)

InPass == pass.todo # {} \/ write # NoWrite

LabelledLate(p) == late' = IF InPass THEN late \cup {p} ELSE late

Remember == late' = IF InPass' THEN late ELSE {}

-----------------------------------------------------------------------------
(* decide *)

\* Mutant: the first of the list, open or not.
BatonOfList(p, open) == \A q \in Listed \ {p} : p \in Listed /\ Rank[p] < Rank[q]

\* The baton: the first branch of allow.lineage among the open ones.
HoldsBaton(p, open) ==
    /\ p \in Listed \cap open
    /\ \A q \in (Listed \cap open) \ {p} : Rank[p] < Rank[q]

\* Mutant: the queue alone.
OtherLineageQueued(p) == \E q \in (pass.open \cap Lineage) \ {p} : q \in queue

\* armedLineage: labels as listed, the queue as it is now.
OtherLineageArmed(p) ==
    \E q \in (pass.open \cap Lineage) \ {p} : q \in pass.labelled \cup queue

Waits(p) ==
    \/ p \in Lineage /\ (~HoldsBaton(p, pass.open) \/ OtherLineageArmed(p))
    \/ p \notin green

StartPass ==
    /\ pass.todo = {} /\ write = NoWrite
    /\ pass' = With([NoPass EXCEPT !.open = Open, !.labelled = labelled \cap Open, !.tip = tip],
                    (Open \cap Eligible) \ labelled)
    /\ UNCHANGED <<write, forge>>

Decide(p) ==
    /\ p \in pass.todo /\ write = NoWrite
    /\ pass' = With(pass, pass.todo \ {p})
    /\ write' = IF Waits(p) THEN NoWrite
                ELSE IF mref[p] # pass.tip THEN Update(p) ELSE Label(p)
    /\ UNCHANGED forge

AddLabel ==
    /\ write.do = "arm"
    /\ labelled' = labelled \cup {write.pr}
    /\ write' = NoWrite
    /\ UNCHANGED <<pass, life, held, green, shadow, tip, mref, auto, queue,
                   timeline, lost, failedRun>>

\* The call fails on a pull request closed meanwhile; the pass goes on.
UpdateBranch ==
    /\ write.do = "update-branch"
    /\ IF write.pr \in Open THEN NewHead(write.pr) ELSE UNCHANGED forge
    /\ write' = NoWrite
    /\ UNCHANGED pass
=============================================================================
