------------------------------ MODULE SyncMain ------------------------------
(***************************************************************************)
(* scripts/ci/pr-sync-main.mjs, run by job sync-main of pr-autofix.yml:    *)
(* when main has moved and settled, it is merged into the open pull        *)
(* requests.  Runs are one concurrency group.  The pull requests are those *)
(* decide never skips for what they are (draft, labelled no-bot-sync, in   *)
(* the queue, armed, red with no file in common with main, in conflict     *)
(* outside the files main owns), and no more than one run may push to.     *)
(***************************************************************************)
EXTENDS Regen

CONSTANTS
    PRs,            \* the open pull requests
    MaxPushes,      \* BOUND: pushes of a builder to one of them
    MaxSyncs        \* MAX_ATTEMPTS_PER_HEAD (2)

MaxPrs == 10        \* DEFAULT_MAX_PRS

ASSUME SyncAssumption ==
    /\ IsFiniteSet(PRs) /\ Cardinality(PRs) <= MaxPrs
    /\ MaxPushes \in Nat /\ MaxSyncs \in Nat \ {0}

VARIABLES
    heads,      \* the head of each: what its builder pushed, and which main is in it
    young,      \* those whose head is fresh, or has its checks running
    attempts,   \* attempt comments on that head
    job,        \* the sync run in progress: pc, eventSha, the rows left
    asked,      \* the commit of the run the group keeps waiting; 0 for none
    settled     \* the newest main a run has gone on to sync

sync == <<heads, young, attempts, job, asked, settled>>

NoJob == [pc |-> "idle", event |-> 0, rows |-> {}]
Row(p, again) == [pr |-> p, head |-> heads[p], again |-> again]

SyncInit ==
    /\ heads = [p \in PRs |-> [own |-> 0, main |-> 1]]
    /\ young = {} /\ attempts = [p \in PRs |-> 0]
    /\ job = NoJob /\ asked = 0 /\ settled = 1

\* A push to main asks for a run on the new tip.
AskSync == asked' = Tip'

\* Mutant: the schedule asks only for a main that has not been synced.
ScheduleIfMoved ==
    /\ asked = 0
    /\ UNCHANGED branch
    /\ asked' = IF settled = Tip THEN asked ELSE Tip
    /\ UNCHANGED <<heads, young, attempts, job, settled>>

\* So does the schedule, on main as it is.
Schedule ==
    /\ asked = 0
    /\ UNCHANGED branch
    /\ AskSync
    /\ UNCHANGED <<heads, young, attempts, job, settled>>

StartSync ==
    /\ job = NoJob /\ asked # 0
    /\ job' = [NoJob EXCEPT !.pc = "read", !.event = asked]
    /\ asked' = 0
    /\ UNCHANGED <<heads, young, attempts, settled>>

\* The regen on this commit is neither running nor waiting.
RegenOver == run.sha # job.event /\ queued.sha # job.event

\* Mutant: a run that finds the regen at work leaves it to the next push.
ReadOrLeave ==
    /\ job.pc = "read"
    /\ job' = IF job.event = Tip /\ RegenOver THEN [job EXCEPT !.pc = "wait"] ELSE NoJob
    /\ UNCHANGED <<heads, young, attempts, asked, settled>>

\* regenGate: main is read; a newer push has its own run.
Read ==
    /\ job.pc = "read"
    /\ job' = IF job.event = Tip THEN [job EXCEPT !.pc = "wait"] ELSE NoJob
    /\ UNCHANGED <<heads, young, attempts, asked, settled>>

\* What decide lets a run merge into: behind, not given up, and old enough.
Behind(p) == heads[p].main < job.event /\ attempts[p] < MaxSyncs /\ p \notin young

\* The regen has finished, or not in time; main is read again, and the open pull
\* requests are listed with their heads.
Wait ==
    /\ job.pc = "wait"
    /\ \/ RegenOver /\ UNCHANGED faults
       \/ ~RegenOver /\ faults < MaxFaults /\ faults' = faults + 1
    /\ \/ job.event # Tip /\ job' = NoJob /\ UNCHANGED settled
       \/ /\ job.event = Tip
          /\ job' = [job EXCEPT !.pc = "sync", !.rows = {Row(p, FALSE) : p \in {q \in PRs : Behind(q)}}]
          /\ settled' = job.event
    /\ UNCHANGED <<heads, young, attempts, asked>>

Drop(row) == job' = [job EXCEPT !.rows = @ \ {row}]

Merged(row) ==
    /\ heads' = [heads EXCEPT ![row.pr] = [row.head EXCEPT !.main = job.event]]
    /\ young' = young \cup {row.pr}
    /\ attempts' = [attempts EXCEPT ![row.pr] = 0]
    /\ Drop(row)
    /\ UNCHANGED <<asked, settled>>

\* Mutant: the merge is pushed with force.
MergeForced(row) == Merged(row)

\* syncOne: the merge of this main into the head that was listed is pushed, and
\* goes through if that is still the head.
Merge(row) == heads[row.pr] = row.head /\ Merged(row)

\* A builder was faster: the new head is read and decided on afresh, and tried
\* once at most.  Young as it is, it is left alone, unless time has passed.  A
\* second failure is a comment under the head that was listed first.
Raced(row) ==
    /\ heads[row.pr] # row.head
    /\ job' = [job EXCEPT !.rows = (@ \ {row})
                 \cup (IF row.again \/ ~Behind(row.pr) THEN {} ELSE {Row(row.pr, TRUE)})]
    /\ UNCHANGED <<heads, young, attempts, asked, settled>>

\* The push is refused although the head is the one listed.
Refused(row) ==
    /\ heads[row.pr] = row.head /\ faults < MaxFaults
    /\ faults' = faults + 1
    /\ attempts' = IF row.again THEN attempts ELSE [attempts EXCEPT ![row.pr] = @ + 1]
    /\ Drop(row)
    /\ UNCHANGED <<heads, young, asked, settled>>

EndSync ==
    /\ job.pc = "sync" /\ job.rows = {}
    /\ job' = NoJob
    /\ UNCHANGED <<heads, young, attempts, asked, settled>>

SyncRow == job.pc = "sync" /\ \E row \in job.rows : Merge(row) \/ Raced(row)

\* A builder pushes, on top of what is there.
Build(p) ==
    /\ heads[p].own < MaxPushes
    /\ heads' = [heads EXCEPT ![p].own = @ + 1]
    /\ young' = young \cup {p}
    /\ attempts' = [attempts EXCEPT ![p] = 0]
    /\ UNCHANGED <<job, asked, settled>>

\* The checks end, and fifteen minutes pass; forty-five, if the checks do not end.
Age(p) == p \in young /\ young' = young \ {p} /\ UNCHANGED <<heads, attempts, job, asked, settled>>

SyncTypeOK ==
    /\ heads \in [PRs -> [own: 0..MaxPushes, main: 1..Tip]]
    /\ young \subseteq PRs /\ attempts \in [PRs -> 0..MaxSyncs]
    /\ job \in [pc: {"idle", "read", "wait", "sync"}, event: 0..Tip,
               rows: SUBSET [pr: PRs, again: BOOLEAN, head: [own: 0..MaxPushes, main: 1..Tip]]]
    /\ job # NoJob => job.event # 0
    /\ asked \in 0..Tip /\ settled \in 1..Tip
=============================================================================
