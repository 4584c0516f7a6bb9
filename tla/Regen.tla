------------------------------- MODULE Regen -------------------------------
(***************************************************************************)
(* derived-artifacts-regen.yml, which alone writes main's derived files,   *)
(* and derived-regen-deadman.yml, which listens to it.  One run at a time: *)
(* the concurrency group keeps one more, the newest asked for, and cancels *)
(* the one that was waiting.  A run works on the commit of its own event.  *)
(* The listener's report, seconds of work, is part of a run's end.         *)
(***************************************************************************)
EXTENDS MainBranch

CONSTANTS
    MaxAttempts,    \* MAX_ATTEMPTS, of a push (3)
    MaxFaults       \* BOUND: failures that another try would not meet

ASSUME RegenAssumption == MaxAttempts \in Nat \ {0} /\ MaxFaults \in Nat

VARIABLES
    run,        \* the run in progress
    queued,     \* the run the group keeps waiting
    retries,    \* failed runs the listener will run once more, oldest first
    alarm,      \* the tracking issue is open
    displaced,  \* since the last push, a retry has cancelled a waiting run
    faults

regen == <<run, queued, retries, alarm, displaced, faults>>

NoRun == [sha |-> 0, attempt |-> 0]
Idle  == [pc |-> "idle", sha |-> 0, attempt |-> 0, base |-> 0, ours |-> 0, try |-> 0]

RegenInit ==
    /\ run = Idle /\ queued = NoRun /\ retries = <<>>
    /\ alarm = FALSE /\ displaced = FALSE /\ faults = 0

\* A push to main, by anyone, asks for a run on the new tip.
AskRegen == queued' = [sha |-> Tip', attempt |-> 1] /\ displaced' = FALSE

Start ==
    /\ run = Idle /\ queued # NoRun
    /\ run' = [pc |-> "checkout", sha |-> queued.sha, attempt |-> queued.attempt,
               base |-> queued.sha, ours |-> 0, try |-> 1]
    /\ queued' = NoRun
    /\ UNCHANGED <<branch, retries, alarm, displaced, faults>>

\* Mutant: a red run is left to the next landing.
ConcludeWithoutAlarm(green) ==
    /\ run' = Idle
    /\ alarm' = (alarm /\ ~green)
    /\ retries' = IF ~green /\ run.attempt = 1 THEN Append(retries, run.sha) ELSE retries
    /\ UNCHANGED <<queued, displaced>>

\* Mutant: every failure is tried again, a second one too.
ConcludeRetrying(green) ==
    /\ run' = Idle
    /\ alarm' = ~green
    /\ retries' = IF green THEN retries ELSE Append(retries, run.sha)
    /\ UNCHANGED <<queued, displaced>>

\* A run ends: red opens the issue, and a first failure will be run once more;
\* green closes it.
Conclude(green) ==
    /\ run' = Idle
    /\ alarm' = ~green
    /\ retries' = IF ~green /\ run.attempt = 1 THEN Append(retries, run.sha) ELSE retries
    /\ UNCHANGED <<queued, displaced>>

\* The generators, the gates on what they wrote, and the look whether anything
\* changed.
Regenerate ==
    /\ run.pc = "checkout"
    /\ LET want == main[run.sha].want
       IN \/ want \in flawed /\ Conclude(FALSE)
          \/ want \notin flawed /\ want = main[run.sha].der /\ Conclude(TRUE)
          \/ /\ want \notin flawed /\ want # main[run.sha].der
             /\ run' = [run EXCEPT !.pc = "pull", !.ours = want]
             /\ UNCHANGED <<queued, retries, alarm, displaced>>
    /\ UNCHANGED <<branch, faults>>

\* git pull --rebase.  What was changed on both sides is put together, or
\* conflicts: then the derived files are generated afresh on the new tip.
Rebased(ours) == run' = [run EXCEPT !.pc = "push", !.base = Tip, !.ours = ours]

Pull ==
    /\ run.pc = "pull"
    /\ LET before == main[run.base].der
           now    == main[Tip].der
       IN \/ now = before /\ Rebased(run.ours)
          \/ now # before /\ run.ours \in {before, now} /\ Rebased(now)
          \/ /\ now # before /\ run.ours \notin {before, now}
             /\ \E ours \in {Mixed, main[Tip].want} : Rebased(ours)
    /\ UNCHANGED <<branch, queued, retries, alarm, displaced, faults>>

\* Mutant: the last try is counted once too often.
PushAgainOnceMore ==
    IF run.try <= MaxAttempts
    THEN /\ run' = [run EXCEPT !.pc = "pull", !.try = @ + 1]
         /\ UNCHANGED <<queued, retries, alarm, displaced>>
    ELSE Conclude(FALSE)

\* The push was refused: it is tried again, a few times.
PushAgain ==
    IF run.try < MaxAttempts
    THEN /\ run' = [run EXCEPT !.pc = "pull", !.try = @ + 1]
         /\ UNCHANGED <<queued, retries, alarm, displaced>>
    ELSE Conclude(FALSE)

Pushes(c) == main' = Append(main, c) /\ AskRegen

\* Mutant: the push is forced over what has landed since.
PushForced ==
    /\ run.pc = "push"
    /\ IF run.ours = main[run.base].der
       THEN Conclude(TRUE) /\ UNCHANGED branch
       ELSE /\ main' = Append(SubSeq(main, 1, run.base),
                              [main[run.base] EXCEPT !.der = run.ours])
            /\ AskRegen
            /\ run' = [run EXCEPT !.pc = "pushed"]
            /\ UNCHANGED <<landed, flawed, retries, alarm>>
    /\ UNCHANGED faults

\* git push, never forced: it is refused when main has moved, and there may be
\* nothing to push.
Push ==
    /\ run.pc = "push"
    /\ \/ run.base # Tip /\ PushAgain /\ UNCHANGED branch
       \/ /\ run.base = Tip /\ run.ours = main[Tip].der
          /\ Conclude(TRUE) /\ UNCHANGED branch
       \/ /\ run.base = Tip /\ run.ours # main[Tip].der
          /\ Pushes([main[Tip] EXCEPT !.der = run.ours])
          /\ run' = [run EXCEPT !.pc = "pushed"]
          /\ UNCHANGED <<landed, flawed, retries, alarm>>
    /\ UNCHANGED faults

Finish ==
    /\ run.pc = "pushed"
    /\ Conclude(TRUE)
    /\ UNCHANGED <<branch, faults>>

\* Any step may fail for a reason that is not in the tree.
Fault ==
    /\ run # Idle /\ faults < MaxFaults
    /\ faults' = faults + 1
    /\ Conclude(FALSE)
    /\ UNCHANGED branch

\* Ten minutes after a first failure, the run is asked for again, on its own
\* commit: it takes the place of one that waits.
Retry ==
    /\ retries # <<>> /\ run.sha # Head(retries)
    /\ queued' = [sha |-> Head(retries), attempt |-> 2]
    /\ displaced' = (displaced \/ queued # NoRun)
    /\ retries' = Tail(retries)
    /\ UNCHANGED <<branch, run, alarm, faults>>

Step == Start \/ Regenerate \/ Pull \/ Push \/ Finish \/ Fault \/ Retry

RegenAtRest == run = Idle /\ queued = NoRun /\ retries = <<>>

RunTypeOK ==
    /\ run \in [pc: {"idle", "checkout", "pull", "push", "pushed"}, sha: Nat,
               attempt: 0..2, base: Nat, ours: Contents, try: 0..MaxAttempts]
    /\ run # Idle => /\ run.pc # "idle" /\ run.sha \in 1..Tip /\ run.attempt # 0
                    /\ run.base \in run.sha..Tip

RegenTypeOK ==
    /\ RunTypeOK
    /\ queued = NoRun \/ queued \in [sha: 1..Tip, attempt: 1..2]
    /\ retries \in Seq(1..Tip)
    /\ {alarm, displaced} \subseteq BOOLEAN /\ faults \in 0..MaxFaults
=============================================================================
