--------------------------- MODULE AutomergeLabel ---------------------------
(***************************************************************************)
(* .github/workflows/automerge-label.yml: the runs its events start, and   *)
(* the hourly recovery scan.  A run makes one call after another and holds *)
(* what it has read; anything else may happen between two of its calls.    *)
(* The comments it posts are left out; the one that is read back, on a     *)
(* checkout failure, leaves open whether the hour has passed.              *)
(*                                                                         *)
(* Every pull request here is one the first guard lets through: no draft,  *)
(* no fork, and not sensitive or with a green zizmor run.                  *)
(***************************************************************************)
EXTENDS Forge

CONSTANTS
    TimeoutCap,   \* removals for a timeout after which none is re-queued: 3
    Runs          \* bound on the event runs under way at once

ASSUME CapAssumption == TimeoutCap \in Nat

VARIABLES
    job,      \* the event runs: where each stands and what it has read
    scan      \* the recovery scan: whom it has yet to visit, whom it has viewed

workflow == <<job, scan>>

Idle          == [at |-> "idle"]
Run(at, p, on, n) == [at |-> at, pr |-> p, on |-> on, nth |-> n]
Clearing(p)   == [at |-> "clear", pr |-> p]

\* The removals for a timeout that a read of the timeline finds.
Timeouts(t) == Cardinality({i \in 1..Window : t[i] = "timeout"})

\* `nth` is how many it would have found when the event was sent.
Jobs == [at: {"guard", "decide", "refused", "hold", "enable"}, pr: PRs,
         on: {"labeled", "timeout", "removal"}, nth: 0..Window]

RunsTypeOK ==
    /\ job \in [Runs -> {Idle} \cup Jobs \cup {Clearing(p) : p \in PRs}]
    /\ \A r \in Runs : job[r] # Idle /\ job[r].at # "clear" => job[r].pr \in labelled

WorkflowTypeOK ==
    /\ RunsTypeOK
    /\ scan \in [todo: SUBSET labelled, viewed: SUBSET labelled]

WorkflowInit ==
    /\ job = [r \in Runs |-> Idle]
    /\ scan = [todo |-> {}, viewed |-> {}]

-----------------------------------------------------------------------------
(* The events: which start a run, with what in the payload. *)

Starts(j) == \E r \in Runs : job[r] = Idle /\ job' = [job EXCEPT ![r] = j]

\* The job's `if`: `dequeued` of a labelled pull request without `mq-ejected`.
Dequeued(p, on, n) ==
    IF p \in labelled \ held THEN Starts(Run("guard", p, on, n)) ELSE UNCHANGED job

Labeled(p) ==
    IF p \in labelled \cup held THEN UNCHANGED job
    ELSE Starts(Run("guard", p, "labeled", 0))

\* `synchronize` clears a hold in the payload; the head's change also dequeues.
Synchronized(p) ==
    IF p \in held THEN Starts(Clearing(p))
    ELSE IF p \in queue THEN Dequeued(p, "removal", 0)
    ELSE UNCHANGED job

-----------------------------------------------------------------------------
(* The runs. *)

Step(r, j) == job' = [job EXCEPT ![r] = j]

\* merge-group-shadow: the verdict is read here and used by the last step.
Guard(r) ==
    /\ job[r].at = "guard"
    /\ Step(r, [job[r] EXCEPT !.at = IF job[r].pr \in shadow THEN "decide" ELSE "refused"])
    /\ UNCHANGED <<scan, forge>>

\* The last step, skipped when the first ones refused.
Proceed(r) == IF job[r].at = "refused" THEN Idle ELSE [job[r] EXCEPT !.at = "enable"]

DecideLabeled(r) ==
    /\ job[r].at \in {"decide", "refused"} /\ job[r].on = "labeled"
    /\ Step(r, Proceed(r))
    /\ UNCHANGED <<scan, forge>>

\* Mutant: the removal that started the run is not counted.
DecideTimeoutPrior(r) ==
    LET p == job[r].pr IN
    /\ job[r].at \in {"decide", "refused"} /\ job[r].on = "timeout"
    /\ IF Timeouts(timeline[p]) - 1 >= TimeoutCap
       THEN Step(r, Idle) ELSE Step(r, Proceed(r))
    /\ UNCHANGED <<scan, forge>>

\* timeout-cap: the timeouts among the last Window removals, counted now.
DecideTimeout(r) ==
    LET p == job[r].pr IN
    /\ job[r].at \in {"decide", "refused"} /\ job[r].on = "timeout"
    /\ IF Timeouts(timeline[p]) >= TimeoutCap
       THEN Step(r, Idle) ELSE Step(r, Proceed(r))
    /\ UNCHANGED <<scan, forge>>

\* mq-eject: the last removal and the newest failed run, as they are now.  A
\* checkout failure is re-queued once an hour; whether the hour has passed is
\* left open.
DecideRemoval(r) ==
    LET p     == job[r].pr
        last  == timeline[p][Window]
        looks == last \in {"failed", "conflict"} IN
    /\ job[r].at \in {"decide", "refused"} /\ job[r].on = "removal"
    /\ \/ /\ looks /\ failedRun[p] = "gate" /\ last = "failed"
          /\ Step(r, [job[r] EXCEPT !.at = "hold"])
       \/ /\ looks /\ failedRun[p] = "fatal"
          /\ Step(r, Proceed(r))
       \/ /\ ~looks \/ failedRun[p] # "gate" \/ last = "conflict"
          /\ Step(r, Idle)
    /\ UNCHANGED <<scan, forge>>

Hold(r) ==
    /\ job[r].at = "hold"
    /\ held' = held \cup ({job[r].pr} \cap Open)
    /\ Step(r, Idle)
    /\ UNCHANGED <<scan, life, labelled, green, shadow, tip, mref, auto, queue,
                   timeline, lost, failedRun>>

Enable(r) ==
    /\ job[r].at = "enable"
    /\ Arm(job[r].pr)
    /\ Step(r, Idle)
    /\ UNCHANGED scan

\* clear-mq-eject
ClearHold(r) ==
    /\ job[r].at = "clear"
    /\ held' = held \ {job[r].pr}
    /\ Step(r, Idle)
    /\ UNCHANGED <<scan, life, labelled, green, shadow, tip, mref, auto, queue,
                   timeline, lost, failedRun>>

-----------------------------------------------------------------------------
(* rearm-recovered *)

StartScan ==
    /\ scan.todo = {} /\ scan.viewed = {}
    /\ scan' = [scan EXCEPT !.todo = Open \cap labelled]
    /\ UNCHANGED <<job, forge>>

\* VIEW: labels, auto-merge, queue and merge state, read once.
ViewPR(p) ==
    /\ scan.viewed = {} /\ p \in scan.todo
    /\ scan' = [todo |-> scan.todo \ {p},
                viewed |-> IF p \in held \cup auto \cup queue \/ p \notin green THEN {} ELSE {p}]
    /\ UNCHANGED <<job, forge>>

\* The shadow check is read last, then the call.
Rearm(p) ==
    /\ p \in scan.viewed
    /\ scan' = [scan EXCEPT !.viewed = {}]
    /\ IF p \in shadow THEN Arm(p) ELSE UNCHANGED forge
    /\ UNCHANGED job
=============================================================================
