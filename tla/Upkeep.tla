------------------------------- MODULE Upkeep -------------------------------
(***************************************************************************)
(* What happens after a landing: main's derived files are brought up to    *)
(* date by Regen, and the open pull requests by SyncMain.  Every push to   *)
(* main, the bot's own included, asks both for a run.                      *)
(***************************************************************************)
EXTENDS SyncMain

vars == <<branch, regen, sync>>

TypeOK == MainTypeOK /\ RegenTypeOK /\ SyncTypeOK

Init == MainInit /\ RegenInit /\ SyncInit

Landing(kind) ==
    /\ Land(kind) /\ AskRegen /\ AskSync
    /\ UNCHANGED <<run, retries, alarm, faults, heads, young, attempts, job, settled>>

RegenStep ==
    \/ (Start \/ Regenerate \/ Pull \/ Finish \/ Fault \/ Retry) /\ UNCHANGED sync
    \/ /\ Push
       /\ IF main' # main THEN AskSync ELSE UNCHANGED asked
       /\ UNCHANGED <<heads, young, attempts, job, settled>>

regenButFaults == <<run, queued, retries, alarm, displaced>>

SyncStep ==
    \/ (StartSync \/ Read \/ EndSync \/ SyncRow) /\ UNCHANGED <<branch, regen>>
    \/ Wait /\ UNCHANGED <<branch, regenButFaults>>
    \/ /\ job.pc = "sync" /\ \E row \in job.rows : Refused(row)
       /\ UNCHANGED <<branch, regenButFaults>>

Next ==
    \/ \E kind \in Kinds : Landing(kind)
    \/ RegenStep
    \/ SyncStep
    \/ Schedule /\ UNCHANGED regen
    \/ (\E p \in PRs : Build(p) \/ Age(p)) /\ UNCHANGED <<branch, regen, asked>>

Spec == Init /\ [][Next]_vars

\* Jobs that have started go on, a waiting run starts when its group is free, a
\* retry comes, the schedule fires, and heads grow old.
FairSpec ==
    /\ Spec
    /\ WF_vars(RegenStep) /\ WF_vars(SyncStep)
    /\ WF_vars(Schedule /\ UNCHANGED regen)
    /\ \A p \in PRs : WF_vars(Age(p) /\ UNCHANGED <<branch, regen>>)

-----------------------------------------------------------------------------
\* No landing is lost to the bot: whatever lands between its checkout and its
\* push, main only grows.
NothingOverwritten ==
    [][Len(main) <= Len(main') /\ \A k \in 1..Len(main) : main'[k] = main[k]]_main

\* No push of a builder is lost to a merge made of an older head.
BuildersKeepTheirPushes == [][\A p \in PRs : heads'[p].own >= heads[p].own]_heads

\* A sync run never gives way to a push that does not come: when none runs or
\* waits, one has gone on with the main there is.
SyncedAtRest == job = NoJob /\ asked = 0 => settled = Tip

\* When all is at rest main is fresh, or its issue is open, or a retry has taken
\* the place of the run that was to come: nothing else hides a stale main.
OnlyRetriesHide == RegenAtRest => Fresh \/ alarm \/ displaced

\* Text that the gates refuse is never committed by the bot, which generates
\* main's derived files from the sources alone.
OnlyGatedText ==
    \A k \in 2..Tip :
       main[k].want = main[k - 1].want /\ main[k].der # main[k - 1].der
          => main[k].der \notin flawed

\* The bot's push asks for a run of the bot, but the chain ends.
ChainEnds == <>[]RegenAtRest

\* A pull request the bot may merge into gets the newest main, whoever pushes to
\* it while it is being merged and however often its head is too young to be
\* touched, unless merging into this head has failed as often as is tried.
PRsCatchUp ==
    <>[]\A p \in PRs : heads[p].main = Tip \/ attempts[p] = MaxSyncs
=============================================================================
