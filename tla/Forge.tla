-------------------------------- MODULE Forge --------------------------------
(***************************************************************************)
(* GitHub and the authors, as the landing workflows use them: the pull     *)
(* requests, their two labels, the two check verdicts read of them, their  *)
(* merge refs, and the merge queue.  Nothing here is the repository's own  *)
(* code; what GitHub does is taken from how the workflows rely on it.      *)
(*                                                                         *)
(* The people label `automerge` by hand (HandLabel) and take `mq-ejected`  *)
(* off by hand (Override).  Assumed of them: a closed pull request is not  *)
(* reopened, and nobody takes `automerge` off.                             *)
(***************************************************************************)
EXTENDS Integers, FiniteSets

CONSTANTS
    PRs,          \* the pull requests
    Faults,    \* why the queue may drop an entry in this instance
    ByHand,    \* those that somebody may label by hand in this instance
    Window,    \* how many removals a read of the timeline returns: 10
    MaxTip     \* bound on the commits that reach main

Causes == {"timeout", "fatal", "gate", "conflict", "other"}

\* What a removal is on the timeline; "other" is any reason that is never
\* re-queued on, and stands for no removal yet.
Reasons == {"timeout", "failed", "conflict", "other"}

ASSUME ForgeAssumption ==
    /\ Faults \subseteq Causes
    /\ ByHand \subseteq PRs
    /\ Window \in Nat \ {0} /\ MaxTip \in Nat

VARIABLES
    life,       \* where a pull request is in its life
    labelled,   \* those with the label `automerge`
    held,       \* those with the label `mq-ejected`
    green,      \* those whose required checks are green on the current head
    shadow,     \* those whose merge-group-shadow check is green on it
    tip,        \* main's tip
    mref,       \* the first parent of the merge ref
    auto,       \* those with auto-merge enabled, waiting for their checks
    queue,      \* the entries of the merge queue
    timeline,   \* the reasons of the last Window removals, oldest first
    lost,       \* history: those of which a timeout is older than that
    failedRun   \* the kind of the newest failed merge_group run

forge == <<life, labelled, held, green, shadow, tip, mref, auto, queue,
           timeline, lost, failedRun>>

Open == {p \in PRs : life[p] = "open"}

ForgeTypeOK ==
    /\ life \in [PRs -> {"unopened", "open", "gone"}]
    /\ labelled \subseteq PRs /\ held \subseteq PRs
    /\ green \subseteq PRs /\ shadow \subseteq PRs
    /\ tip \in 0..MaxTip /\ mref \in [PRs -> 0..MaxTip]
    /\ auto \subseteq labelled /\ queue \subseteq labelled /\ auto \cap queue = {}
    /\ timeline \in [PRs -> [1..Window -> Reasons]] /\ lost \subseteq PRs
    /\ failedRun \in [PRs -> {"none", "fatal", "gate"}]

Blank == [i \in 1..Window |-> "other"]

ForgeInit ==
    /\ life = [p \in PRs |-> "unopened"]
    /\ labelled = {} /\ held = {} /\ green = {} /\ shadow = {}
    /\ tip = 0 /\ mref = [p \in PRs |-> 0]
    /\ auto = {} /\ queue = {}
    /\ timeline = [p \in PRs |-> Blank] /\ lost = {}
    /\ failedRun = [p \in PRs |-> "none"]

-----------------------------------------------------------------------------
(* Effects that several actions share. *)

\* A removal from the queue goes on the timeline.
Removed(p, reason) ==
    /\ timeline' = [timeline EXCEPT
                       ![p] = [i \in 1..Window |-> IF i = Window THEN reason ELSE @[i + 1]]]
    /\ lost' = IF timeline[p][1] = "timeout" THEN lost \cup {p} ELSE lost

\* A new head: its checks start over, its merge ref is made anew, and an entry
\* of the queue is dropped.
NewHead(p) ==
    /\ green' = green \ {p} /\ shadow' = shadow \ {p}
    /\ mref' = [mref EXCEPT ![p] = tip]
    /\ queue' = queue \ {p}
    /\ IF p \in queue THEN Removed(p, "other") ELSE UNCHANGED <<timeline, lost>>
    /\ UNCHANGED <<life, labelled, held, tip, auto, failedRun>>

\* Merged or closed: no call on it has an effect any more, and what the calls
\* would read of it is dropped.
Gone(p) ==
    /\ life' = [life EXCEPT ![p] = "gone"]
    /\ held' = held \ {p} /\ green' = green \ {p} /\ shadow' = shadow \ {p}
    /\ mref' = [mref EXCEPT ![p] = 0]
    /\ timeline' = [timeline EXCEPT ![p] = Blank] /\ lost' = lost \ {p}
    /\ failedRun' = [failedRun EXCEPT ![p] = "none"]

\* Mutant: without the fallback a green one is left where it was.
ArmAutoOnly(p) ==
    LET takes == p \in Open \ (auto \cup queue) IN
    /\ auto'  = IF takes /\ p \notin green THEN auto \cup {p} ELSE auto
    /\ UNCHANGED <<life, labelled, held, green, shadow, tip, mref, queue,
                   timeline, lost, failedRun>>

\* Mutant: armed again without a look at whether it is armed already.
ArmAgain(p) ==
    /\ auto'  = IF p \in Open \ green THEN auto \cup {p} ELSE auto
    /\ queue' = IF p \in Open \cap green THEN queue \cup {p} ELSE queue
    /\ UNCHANGED <<life, labelled, held, green, shadow, tip, mref, timeline, lost, failedRun>>

\* `gh pr merge --auto`, and enqueuePullRequest when it left a green one alone.
Arm(p) ==
    LET takes == p \in Open \ (auto \cup queue) IN
    /\ auto'  = IF takes /\ p \notin green THEN auto \cup {p} ELSE auto
    /\ queue' = IF takes /\ p \in green THEN queue \cup {p} ELSE queue
    /\ UNCHANGED <<life, labelled, held, green, shadow, tip, mref, timeline, lost, failedRun>>

-----------------------------------------------------------------------------
(* The authors, the checks, main and the queue. *)

OpenPR(p) ==
    /\ life[p] = "unopened"
    /\ life' = [life EXCEPT ![p] = "open"]
    /\ mref' = [mref EXCEPT ![p] = tip]
    /\ UNCHANGED <<labelled, held, green, shadow, tip, auto, queue, timeline, lost, failedRun>>

\* "A session that finds a PR green just labels it" - or labels it sooner.
HandLabel(p) ==
    /\ p \in (Open \cap ByHand) \ labelled
    /\ labelled' = labelled \cup {p}
    /\ UNCHANGED <<life, held, green, shadow, tip, mref, auto, queue, timeline, lost, failedRun>>

ClosePR(p) ==
    /\ p \in Open \ queue
    /\ Gone(p)
    /\ auto' = auto \ {p}
    /\ UNCHANGED <<labelled, tip, queue>>

ChecksPass(p) ==
    /\ p \in Open \ green
    /\ green' = green \cup {p}
    /\ UNCHANGED <<life, labelled, held, shadow, tip, mref, auto, queue, timeline, lost, failedRun>>

ShadowPasses(p) ==
    /\ p \in Open \ shadow
    /\ shadow' = shadow \cup {p}
    /\ UNCHANGED <<life, labelled, held, green, tip, mref, auto, queue, timeline, lost, failedRun>>

\* Some other commit reaches main, the post-merge regeneration's for one.
MainMoves ==
    /\ tip < MaxTip
    /\ tip' = tip + 1
    /\ UNCHANGED <<life, labelled, held, green, shadow, mref, auto, queue,
                   timeline, lost, failedRun>>

\* GitHub makes the merge ref anew some time after main has moved.
Refresh(p) ==
    /\ p \in Open /\ mref[p] # tip
    /\ mref' = [mref EXCEPT ![p] = tip]
    /\ UNCHANGED <<life, labelled, held, green, shadow, tip, auto, queue,
                   timeline, lost, failedRun>>

\* Auto-merge puts a pull request in the queue once its checks are green.
Enqueue(p) ==
    /\ p \in auto \cap green
    /\ auto' = auto \ {p} /\ queue' = queue \cup {p}
    /\ UNCHANGED <<life, labelled, held, green, shadow, tip, mref, timeline, lost, failedRun>>

Merge(p) ==
    /\ p \in queue /\ tip < MaxTip
    /\ Gone(p)
    /\ queue' = queue \ {p}
    /\ tip' = tip + 1
    /\ UNCHANGED <<labelled, auto>>

\* The queue drops an entry: its checks outlived the limit, a merge_group run
\* failed (its ref was gone at checkout, or a check is red), it conflicts, or
\* somebody took it out.
Drop(p, why) ==
    /\ p \in queue
    /\ queue' = queue \ {p}
    /\ Removed(p, IF why \in {"fatal", "gate"} THEN "failed" ELSE why)
    /\ failedRun' = IF why \in {"fatal", "gate"} THEN [failedRun EXCEPT ![p] = why] ELSE failedRun
    /\ UNCHANGED <<life, labelled, held, green, shadow, tip, mref, auto>>

Override(p) ==
    /\ p \in held
    /\ held' = held \ {p}
    /\ UNCHANGED <<life, labelled, green, shadow, tip, mref, auto, queue,
                   timeline, lost, failedRun>>
=============================================================================
