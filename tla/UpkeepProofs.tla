----------------------------- MODULE UpkeepProofs -----------------------------
(***************************************************************************)
(* What holds of Upkeep for any number of landings, tries, failures, pull  *)
(* requests and pushes of their builders.                                  *)
(***************************************************************************)
EXTENDS Upkeep, TLAPS

Commits == [want: Versions, der: Contents]

-----------------------------------------------------------------------------
(* Types. *)

LEMMA SeqWider ==
  ASSUME NEW S, NEW T, S \subseteq T, NEW s \in Seq(S)
  PROVE  s \in Seq(T)
  OBVIOUS

LEMMA HeadTail ==
  ASSUME NEW S, NEW s \in Seq(S), s # <<>>
  PROVE  Head(s) \in S /\ Tail(s) \in Seq(S)
  OBVIOUS

LEMMA SeqElement ==
  ASSUME NEW S, NEW s \in Seq(S), NEW i \in 1..Len(s)
  PROVE  s[i] \in S
  OBVIOUS

LEMMA LastOrNot ==
  ASSUME NEW n \in Nat, NEW k \in 1..(n + 1)
  PROVE  k \in 1..n \/ k = n + 1
  OBVIOUS

LEMMA MainGrows ==
  ASSUME MainTypeOK, NEW c \in Commits, main' = Append(main, c)
  PROVE  /\ main' \in Seq(Commits) /\ main' # <<>>
         /\ Tip \in Nat \ {0} /\ Tip' = Tip + 1
         /\ \A k \in 1..Tip : main'[k] = main[k]
         /\ main'[Tip'] = c
  BY DEF MainTypeOK, Commits, Tip

LEMMA CommitTyped ==
  ASSUME MainTypeOK, NEW k \in 1..Tip
  PROVE  main[k] \in Commits
<1>1. main \in Seq(Commits)  BY DEF MainTypeOK, Commits
<1> QED  BY <1>1 DEF Tip

LEMMA LandTyped ==
  ASSUME MainTypeOK, NEW kind \in Kinds, Land(kind)
  PROVE  /\ \E c \in Commits : main' = Append(main, c)
         /\ MainTypeOK'
<1> DEFINE v == landed + 1
           c == main[Tip]
           d == CASE kind = "other" -> c
                  [] kind = "hand" -> [want |-> v, der |-> v]
                  [] OTHER -> [c EXCEPT !.want = v]
<1>1. c \in Commits
  <2>1. Tip \in 1..Tip  BY DEF MainTypeOK, Tip
  <2> QED  BY <2>1, CommitTyped
<1>2. v \in Versions /\ v \in Contents /\ v \in 1..MaxLandings
  BY MainAssumption DEF Land, MainTypeOK, Versions, Contents
<1>3. d \in Commits
  <2>1. CASE kind = "other"  BY <1>1, <2>1
  <2>2. CASE kind = "hand"  BY <1>2, <2>2 DEF Commits
  <2>3. CASE kind \notin {"other", "hand"}
    <3>1. d = [c EXCEPT !.want = v]  BY <2>3
    <3> QED  BY <1>1, <1>2, <3>1 DEF Commits
  <2> QED  BY <2>1, <2>2, <2>3
<1>4. main' = Append(main, d)  BY DEF Land
<1>5. landed' \in Versions /\ flawed' \subseteq 1..MaxLandings
  BY <1>2 DEF Land, MainTypeOK
<1>6. main' \in Seq(Commits) /\ main' # <<>>  BY <1>3, <1>4, MainGrows
<1> QED  BY <1>3, <1>4, <1>5, <1>6 DEF MainTypeOK, Commits

\* What is typed by the length of main stays so as main grows.
LEMMA SyncSame ==
  ASSUME SyncTypeOK, Tip \in Nat, Tip' \in Nat, Tip' >= Tip,
         UNCHANGED <<heads, young, attempts, job, settled>>, asked' \in 0..Tip'
  PROVE  SyncTypeOK'
<1>1. 0..Tip \subseteq 0..Tip' /\ 1..Tip \subseteq 1..Tip'  OBVIOUS
<1> DEFINE R(n) == [pr: PRs, again: BOOLEAN, head: [own: 0..MaxPushes, main: 1..n]]
<1>2. R(Tip) \subseteq R(Tip')  BY <1>1
<1>3. heads' \in [PRs -> [own: 0..MaxPushes, main: 1..Tip']]  BY <1>1 DEF SyncTypeOK
<1>4. job' \in [pc: {"idle", "read", "wait", "sync"}, event: 0..Tip', rows: SUBSET R(Tip')]
  <2>1. job \in [pc: {"idle", "read", "wait", "sync"}, event: 0..Tip, rows: SUBSET R(Tip)]
    BY DEF SyncTypeOK
  <2>2. SUBSET R(Tip) \subseteq SUBSET R(Tip')  BY <1>2
  <2> HIDE DEF R
  <2> QED  BY <1>1, <2>1, <2>2
<1> QED  BY <1>1, <1>3, <1>4 DEF SyncTypeOK, NoJob

LEMMA RunSame ==
  ASSUME RegenTypeOK, Tip \in Nat, Tip' \in Nat, Tip' >= Tip,
         UNCHANGED <<run, retries, alarm, faults>>, queued' = [sha |-> Tip', attempt |-> 1],
         displaced' \in BOOLEAN, Tip' # 0
  PROVE  RegenTypeOK'
<1>1. 1..Tip \subseteq 1..Tip'  OBVIOUS
<1>2. retries' \in Seq(1..Tip')
  <2>1. retries \in Seq(1..Tip)  BY DEF RegenTypeOK
  <2> QED  BY <1>1, <2>1, SeqWider
<1>3. queued' \in [sha: 1..Tip', attempt: 1..2]  OBVIOUS
<1>4. RunTypeOK'  BY DEF RegenTypeOK, RunTypeOK, Idle
<1>5. alarm' \in BOOLEAN /\ faults' \in 0..MaxFaults  BY DEF RegenTypeOK
<1> QED  BY <1>2, <1>3, <1>4, <1>5 DEF RegenTypeOK, NoRun

TipIsThere == Tip \in Nat \ {0} /\ Tip \in 1..Tip

LEMMA TipTyped == MainTypeOK => TipIsThere
  BY DEF MainTypeOK, TipIsThere, Tip

\* A step that leaves main as it is, and what waits.
LEMMA RunStep ==
  ASSUME RegenTypeOK, UNCHANGED <<main, queued, retries, alarm, displaced, faults>>, RunTypeOK'
  PROVE  RegenTypeOK'
<1>1. Tip' = Tip  BY DEF Tip
<1> QED  BY <1>1 DEF RegenTypeOK, NoRun

LEMMA ConcludeTyped ==
  ASSUME RegenTypeOK, MainTypeOK, run # Idle, NEW green \in BOOLEAN, Conclude(green),
         UNCHANGED main, faults' \in 0..MaxFaults
  PROVE  RegenTypeOK'
<1>1. Tip' = Tip  BY DEF Tip
<1>2. TipIsThere  BY TipTyped
<1>3. run.sha \in 1..Tip  BY DEF RegenTypeOK, RunTypeOK
<1>4. retries' \in Seq(1..Tip)
  <2>1. Append(retries, run.sha) \in Seq(1..Tip)  BY <1>3 DEF RegenTypeOK
  <2> QED  BY <2>1 DEF Conclude, RegenTypeOK
<1>5. run' = Idle /\ RunTypeOK'
  <2>1. MaxAttempts \in Nat /\ 0 \in Contents
    BY RegenAssumption, MainAssumption DEF Contents, Versions
  <2> QED  BY <2>1 DEF Conclude, RunTypeOK, Idle
<1>6. alarm' \in BOOLEAN /\ UNCHANGED <<queued, displaced>>  BY DEF Conclude
<1> QED  BY <1>1, <1>4, <1>5, <1>6 DEF RegenTypeOK, NoRun

LEMMA StartTyped == RegenTypeOK /\ MainTypeOK /\ Start => RegenTypeOK'
<1> SUFFICES ASSUME RegenTypeOK, MainTypeOK, Start  PROVE RegenTypeOK'
  OBVIOUS
<1>1. Tip' = Tip /\ TipIsThere  BY TipTyped DEF Tip, Start, branch
<1>2. queued \in [sha: 1..Tip, attempt: 1..2]  BY DEF Start, RegenTypeOK
<1>3. RunTypeOK'
  <2>1. 1 \in 0..MaxAttempts /\ 0 \in Contents
    BY RegenAssumption, MainAssumption DEF Contents, Versions
  <2> QED  BY <1>1, <1>2, <2>1 DEF Start, RunTypeOK, TipIsThere, Idle
<1> QED  BY <1>1, <1>3 DEF Start, RegenTypeOK, RunTypeOK, Idle, NoRun

LEMMA RegenerateTyped == RegenTypeOK /\ MainTypeOK /\ Regenerate => RegenTypeOK'
<1> SUFFICES ASSUME RegenTypeOK, MainTypeOK, Regenerate  PROVE RegenTypeOK'
  OBVIOUS
<1> DEFINE want == main[run.sha].want
<1>1. run # Idle /\ UNCHANGED <<main, faults>> /\ faults' \in 0..MaxFaults
  BY DEF Regenerate, branch, RegenTypeOK, Idle
<1>2. CASE \E green \in BOOLEAN : Conclude(green)
  BY <1>1, <1>2, ConcludeTyped
<1>3. CASE /\ run' = [run EXCEPT !.pc = "pull", !.ours = want]
           /\ UNCHANGED <<queued, retries, alarm, displaced>>
  <2>1. main[run.sha] \in Commits  BY <1>1, CommitTyped DEF RegenTypeOK, RunTypeOK
  <2>2. want \in Contents  BY <2>1 DEF Commits, Contents
  <2>3. Tip' = Tip  BY <1>1 DEF Tip
  <2>4. RunTypeOK'
    <3> HIDE DEF want
    <3> QED  BY <1>1, <1>3, <2>2, <2>3 DEF RegenTypeOK, RunTypeOK, Idle
  <2> QED  BY <1>1, <1>3, <2>4, RunStep
<1> QED  BY <1>2, <1>3 DEF Regenerate

LEMMA PullTyped == RegenTypeOK /\ MainTypeOK /\ Pull => RegenTypeOK'
<1> SUFFICES ASSUME RegenTypeOK, MainTypeOK, Pull  PROVE RegenTypeOK'
  OBVIOUS
<1>1. run # Idle /\ UNCHANGED <<main, queued, retries, alarm, displaced, faults>>
  BY DEF Pull, branch, Idle
<1>2. Tip' = Tip /\ TipIsThere  BY <1>1, TipTyped DEF Tip
<1>3. main[Tip] \in Commits  BY <1>2, CommitTyped DEF TipIsThere
<1>4. PICK ours \in Contents : Rebased(ours)
  BY <1>3 DEF Pull, RegenTypeOK, RunTypeOK, Commits, Contents
<1>5. RunTypeOK'
  <2>1. RunTypeOK  BY DEF RegenTypeOK
  <2>2. run' = [run EXCEPT !.pc = "push", !.base = Tip, !.ours = ours]  BY <1>4 DEF Rebased
  <2>3. run' \in [pc: {"idle", "checkout", "pull", "push", "pushed"}, sha: Nat,
                 attempt: 0..2, base: Nat, ours: Contents, try: 0..MaxAttempts]
    BY <1>2, <2>1, <2>2 DEF RunTypeOK, TipIsThere
  <2>4. run'.pc = "push" /\ run'.sha = run.sha /\ run'.attempt = run.attempt /\ run'.base = Tip
    BY <2>1, <2>2 DEF RunTypeOK
  <2>5. Tip \in run.sha..Tip  BY <1>1, <1>2, <2>1 DEF RunTypeOK, TipIsThere
  <2> QED  BY <1>1, <1>2, <2>1, <2>3, <2>4, <2>5 DEF RunTypeOK
<1> QED  BY <1>1, <1>5, RunStep

LEMMA PushTyped == RegenTypeOK /\ MainTypeOK /\ Push => RegenTypeOK' /\ MainTypeOK'
<1> SUFFICES ASSUME RegenTypeOK, MainTypeOK, Push  PROVE RegenTypeOK' /\ MainTypeOK'
  OBVIOUS
<1>1. run # Idle /\ UNCHANGED faults /\ faults' \in 0..MaxFaults
  BY DEF Push, RegenTypeOK, Idle
<1>2. CASE UNCHANGED branch /\ PushAgain
  <2>1. UNCHANGED main /\ MainTypeOK'  BY <1>2 DEF branch, MainTypeOK
  <2>2. CASE run.try < MaxAttempts
    <3>1. UNCHANGED <<queued, retries, alarm, displaced>> /\ Tip' = Tip
      BY <1>2, <2>1, <2>2 DEF PushAgain, Tip
    <3>2. RunTypeOK'
      <4>1. RunTypeOK  BY DEF RegenTypeOK
      <4>2. run' = [run EXCEPT !.pc = "pull", !.try = @ + 1]  BY <1>2, <2>2 DEF PushAgain
      <4>3. run.try + 1 \in 0..MaxAttempts  BY <2>2, <4>1, RegenAssumption DEF RunTypeOK
      <4>4. /\ run'.pc = "pull" /\ run'.sha = run.sha /\ run'.attempt = run.attempt
            /\ run'.base = run.base
        BY <4>1, <4>2 DEF RunTypeOK
      <4> QED  BY <1>1, <3>1, <4>1, <4>2, <4>3, <4>4 DEF RunTypeOK
    <3> QED  BY <1>1, <2>1, <3>1, <3>2, RunStep
  <2>3. CASE ~(run.try < MaxAttempts)
    BY <1>1, <1>2, <2>1, <2>3, ConcludeTyped DEF PushAgain
  <2> QED  BY <2>2, <2>3
<1>3. CASE UNCHANGED branch /\ Conclude(TRUE)
  <2>1. UNCHANGED main /\ MainTypeOK'  BY <1>3 DEF branch, MainTypeOK
  <2> QED  BY <1>1, <1>3, <2>1, ConcludeTyped
<1>4. CASE /\ Pushes([main[Tip] EXCEPT !.der = run.ours])
           /\ run' = [run EXCEPT !.pc = "pushed"]
           /\ UNCHANGED <<landed, flawed, retries, alarm>>
  <2> DEFINE c == [main[Tip] EXCEPT !.der = run.ours]
  <2>1. c \in Commits
    <3>1. main[Tip] \in Commits  BY TipTyped, CommitTyped DEF TipIsThere
    <3> QED  BY <3>1 DEF Commits, RegenTypeOK, RunTypeOK
  <2>2. main' = Append(main, c)  BY <1>4 DEF Pushes
  <2> HIDE DEF c
  <2>3. main' \in Seq(Commits) /\ main' # <<>> /\ Tip \in Nat /\ Tip' = Tip + 1
    BY <2>1, <2>2, MainGrows
  <2>4. MainTypeOK'  BY <1>4, <2>3 DEF MainTypeOK, Commits
  <2>5. queued' = [sha |-> Tip', attempt |-> 1] /\ displaced' = FALSE
    BY <1>4 DEF Pushes, AskRegen
  <2>6. RunTypeOK'
    <3>1. RunTypeOK  BY DEF RegenTypeOK
    <3>2. /\ run'.pc = "pushed" /\ run'.sha = run.sha /\ run'.attempt = run.attempt
          /\ run'.base = run.base
      BY <1>4, <3>1 DEF RunTypeOK
    <3>3. run.sha \in 1..Tip' /\ run.base \in run.sha..Tip'
      BY <1>1, <2>3, <3>1 DEF RunTypeOK
    <3> QED  BY <1>1, <1>4, <3>1, <3>2, <3>3 DEF RunTypeOK
  <2>7. retries' \in Seq(1..Tip')
    <3>1. 1..Tip \subseteq 1..Tip'  BY <2>3
    <3>2. retries \in Seq(1..Tip)  BY DEF RegenTypeOK
    <3> QED  BY <1>4, <3>1, <3>2, SeqWider
  <2>8. queued' \in [sha: 1..Tip', attempt: 1..2]  BY <2>3, <2>5
  <2>9. alarm' \in BOOLEAN  BY <1>4 DEF RegenTypeOK
  <2> QED  BY <1>1, <2>4, <2>5, <2>6, <2>7, <2>8, <2>9 DEF RegenTypeOK, NoRun
<1> QED  BY <1>2, <1>3, <1>4 DEF Push

LEMMA FinishTyped == RegenTypeOK /\ MainTypeOK /\ Finish => RegenTypeOK'
<1> SUFFICES ASSUME RegenTypeOK, MainTypeOK, Finish  PROVE RegenTypeOK'
  OBVIOUS
<1>1. run # Idle /\ UNCHANGED main /\ faults' \in 0..MaxFaults
  BY DEF Finish, branch, RegenTypeOK, Idle
<1> QED  BY <1>1, ConcludeTyped DEF Finish

LEMMA FaultTyped == RegenTypeOK /\ MainTypeOK /\ Fault => RegenTypeOK'
<1> SUFFICES ASSUME RegenTypeOK, MainTypeOK, Fault  PROVE RegenTypeOK'
  OBVIOUS
<1>1. faults' \in 0..MaxFaults  BY RegenAssumption DEF Fault, RegenTypeOK
<1> QED  BY <1>1, ConcludeTyped DEF Fault, branch

LEMMA RetryTyped == RegenTypeOK /\ MainTypeOK /\ Retry => RegenTypeOK'
<1> SUFFICES ASSUME RegenTypeOK, MainTypeOK, Retry  PROVE RegenTypeOK'
  OBVIOUS
<1>1. Tip' = Tip  BY DEF Retry, branch, Tip
<1>2. Head(retries) \in 1..Tip /\ Tail(retries) \in Seq(1..Tip)
  <2>1. retries \in Seq(1..Tip) /\ retries # <<>>  BY DEF Retry, RegenTypeOK
  <2> QED  BY <2>1, HeadTail
<1>3. queued' \in [sha: 1..Tip, attempt: 1..2]  BY <1>2 DEF Retry
<1>4. retries' \in Seq(1..Tip) /\ displaced' \in BOOLEAN
  BY <1>2 DEF Retry, RegenTypeOK
<1>5. UNCHANGED <<run, alarm, faults>>  BY DEF Retry
<1>6. RunTypeOK'  BY <1>1, <1>5 DEF RegenTypeOK, RunTypeOK, Idle
<1> QED  BY <1>1, <1>3, <1>4, <1>5, <1>6 DEF RegenTypeOK, NoRun

Rows == [pr: PRs, again: BOOLEAN, head: [own: 0..MaxPushes, main: 1..Tip]]

LEMMA RowTyped ==
  ASSUME SyncTypeOK, NEW p \in PRs, NEW again \in BOOLEAN
  PROVE  Row(p, again) \in Rows
<1>1. heads[p] \in [own: 0..MaxPushes, main: 1..Tip]  BY DEF SyncTypeOK
<1> QED  BY <1>1 DEF Row, Rows

LEMMA JobTyped ==
  ASSUME SyncTypeOK
  PROVE  /\ job.event \in 0..Tip /\ job.rows \subseteq Rows
         /\ job \in [pc: {"idle", "read", "wait", "sync"}, event: 0..Tip, rows: SUBSET Rows]
  BY DEF SyncTypeOK, Rows

\* A step of a sync run, which leaves main alone.
LEMMA JobStep ==
  ASSUME SyncTypeOK, UNCHANGED <<main, heads, young, attempts>>,
         job' \in [pc: {"idle", "read", "wait", "sync"}, event: 0..Tip, rows: SUBSET Rows],
         job' # NoJob => job'.event # 0, asked' \in 0..Tip, settled' \in 1..Tip
  PROVE  SyncTypeOK'
<1>1. Tip' = Tip  BY DEF Tip
<1> QED  BY <1>1 DEF SyncTypeOK, Rows, NoJob

LEMMA HeadStep ==
  ASSUME SyncTypeOK, UNCHANGED <<main, asked, settled>>,
         NEW p \in PRs, NEW h \in [own: 0..MaxPushes, main: 1..Tip], NEW n \in 0..MaxSyncs,
         heads' = heads \/ heads' = [heads EXCEPT ![p] = h],
         attempts' = attempts \/ attempts' = [attempts EXCEPT ![p] = n],
         young' \subseteq PRs,
         job' = job \/ \E row \in job.rows : Drop(row)
  PROVE  SyncTypeOK'
<1>1. Tip' = Tip  BY DEF Tip
<1>2. heads' \in [PRs -> [own: 0..MaxPushes, main: 1..Tip]]
  <2>1. heads \in [PRs -> [own: 0..MaxPushes, main: 1..Tip]]  BY DEF SyncTypeOK
  <2> DEFINE H == [own: 0..MaxPushes, main: 1..Tip]
  <2> HIDE DEF H
  <2>2. heads \in [PRs -> H] /\ h \in H  BY <2>1 DEF H
  <2>3. heads' \in [PRs -> H]  BY <2>2
  <2> QED  BY <2>3 DEF H
<1>3. attempts' \in [PRs -> 0..MaxSyncs]  BY DEF SyncTypeOK
<1>4. job' \in [pc: {"idle", "read", "wait", "sync"}, event: 0..Tip, rows: SUBSET Rows]
  BY JobTyped DEF Drop
<1>5. job' # NoJob => job'.event # 0
  <2>1. CASE job' = job  BY <2>1 DEF SyncTypeOK
  <2>2. CASE \E row \in job.rows : Drop(row)
    <3>1. job # NoJob  BY <2>2 DEF NoJob
    <3>2. job'.event = job.event  BY <2>2, JobTyped DEF Drop
    <3> QED  BY <3>1, <3>2 DEF SyncTypeOK
  <2> QED  BY <2>1, <2>2
<1>6. asked' \in 0..Tip /\ settled' \in 1..Tip  BY DEF SyncTypeOK
<1> QED  BY <1>1, <1>2, <1>3, <1>4, <1>5, <1>6 DEF SyncTypeOK, Rows, NoJob

LEMMA StartSyncTyped == SyncTypeOK /\ StartSync /\ UNCHANGED main => SyncTypeOK'
<1> SUFFICES ASSUME SyncTypeOK, StartSync, UNCHANGED main  PROVE SyncTypeOK'
  OBVIOUS
<1>1. asked \in 0..Tip /\ asked # 0 /\ Tip \in Nat /\ settled \in 1..Tip
  BY DEF SyncTypeOK, StartSync, Tip
<1>2. job' = [pc |-> "read", event |-> asked, rows |-> {}]  BY DEF StartSync, NoJob
<1>3. job' \in [pc: {"idle", "read", "wait", "sync"}, event: 0..Tip, rows: SUBSET Rows]
  BY <1>1, <1>2
<1> QED  BY <1>1, <1>2, <1>3, JobStep DEF StartSync

LEMMA ReadTyped == SyncTypeOK /\ Tip \in Nat /\ Read /\ UNCHANGED main => SyncTypeOK'
<1> SUFFICES ASSUME SyncTypeOK, Tip \in Nat, Read, UNCHANGED main  PROVE SyncTypeOK'
  OBVIOUS
<1>1. asked \in 0..Tip /\ settled \in 1..Tip  BY DEF SyncTypeOK
<1>2. job # NoJob /\ job.event # 0  BY DEF Read, SyncTypeOK, NoJob
<1>3. CASE job' = NoJob
  <2>1. 0 \in 0..Tip  OBVIOUS
  <2>2. NoJob \in [pc: {"idle", "read", "wait", "sync"}, event: 0..Tip, rows: SUBSET Rows]
    BY <2>1 DEF NoJob
  <2> QED  BY <1>1, <1>3, <2>2, JobStep DEF Read
<1>4. CASE job' = [job EXCEPT !.pc = "wait"]
  <2>1. job' \in [pc: {"idle", "read", "wait", "sync"}, event: 0..Tip, rows: SUBSET Rows]
    BY <1>4, JobTyped
  <2>2. job'.event # 0  BY <1>2, <1>4, JobTyped
  <2> QED  BY <1>1, <2>1, <2>2, JobStep DEF Read
<1> QED  BY <1>3, <1>4 DEF Read

LEMMA WaitTyped == SyncTypeOK /\ Tip \in Nat /\ Wait /\ UNCHANGED main => SyncTypeOK'
<1> SUFFICES ASSUME SyncTypeOK, Tip \in Nat, Wait, UNCHANGED main  PROVE SyncTypeOK'
  OBVIOUS
<1>1. asked \in 0..Tip /\ settled \in 1..Tip  BY DEF SyncTypeOK
<1>2. job # NoJob /\ job.event # 0  BY DEF Wait, SyncTypeOK, NoJob
<1> DEFINE rows == {Row(p, FALSE) : p \in {q \in PRs : Behind(q)}}
<1>3. CASE job' = NoJob /\ UNCHANGED settled
  <2>1. 0 \in 0..Tip  OBVIOUS
  <2>2. NoJob \in [pc: {"idle", "read", "wait", "sync"}, event: 0..Tip, rows: SUBSET Rows]
    BY <2>1 DEF NoJob
  <2> QED  BY <1>1, <1>3, <2>2, JobStep DEF Wait
<1>4. CASE job' = [job EXCEPT !.pc = "sync", !.rows = rows] /\ settled' = job.event
  <2>1. rows \subseteq Rows  BY RowTyped
  <2> HIDE DEF rows
  <2>2. job' \in [pc: {"idle", "read", "wait", "sync"}, event: 0..Tip, rows: SUBSET Rows]
    BY <1>4, <2>1, JobTyped
  <2>3. job'.event # 0  BY <1>2, <1>4, JobTyped
  <2>4. settled' \in 1..Tip  BY <1>2, <1>4, JobTyped
  <2> QED  BY <1>1, <2>2, <2>3, <2>4, JobStep DEF Wait
<1> QED  BY <1>3, <1>4 DEF Wait

LEMMA MergeTyped ==
  ASSUME SyncTypeOK, UNCHANGED main, job.pc = "sync", NEW row \in job.rows, Merge(row)
  PROVE  SyncTypeOK'
<1>1. row \in Rows /\ job.event \in 1..Tip
  BY JobTyped DEF SyncTypeOK, NoJob
<1> DEFINE h == [row.head EXCEPT !.main = job.event]
<1>2. row.pr \in PRs /\ h \in [own: 0..MaxPushes, main: 1..Tip]  BY <1>1 DEF Rows
<1>3. 0 \in 0..MaxSyncs  BY SyncAssumption
<1>4. heads' = [heads EXCEPT ![row.pr] = h] /\ attempts' = [attempts EXCEPT ![row.pr] = 0]
      /\ young' = young \cup {row.pr} /\ Drop(row) /\ UNCHANGED <<asked, settled>>
  BY DEF Merge, Merged
<1>5. young' \subseteq PRs  BY <1>2, <1>4 DEF SyncTypeOK
<1> HIDE DEF h
<1> QED  BY <1>2, <1>3, <1>4, <1>5, HeadStep

LEMMA RacedTyped ==
  ASSUME SyncTypeOK, UNCHANGED main, job.pc = "sync", NEW row \in job.rows, Raced(row)
  PROVE  SyncTypeOK'
<1>1. row \in Rows /\ job.rows \subseteq Rows  BY JobTyped
<1>2. row.pr \in PRs  BY <1>1 DEF Rows
<1> DEFINE rows == (job.rows \ {row})
                     \cup (IF row.again \/ ~Behind(row.pr) THEN {} ELSE {Row(row.pr, TRUE)})
<1>3. rows \subseteq Rows  BY <1>1, <1>2, RowTyped
<1>4. job' = [job EXCEPT !.rows = rows]  BY DEF Raced
<1> HIDE DEF rows
<1>5. job' \in [pc: {"idle", "read", "wait", "sync"}, event: 0..Tip, rows: SUBSET Rows]
  BY <1>3, <1>4, JobTyped
<1>6. job'.event # 0  BY <1>4, JobTyped DEF SyncTypeOK, NoJob
<1>7. asked \in 0..Tip /\ settled \in 1..Tip  BY DEF SyncTypeOK
<1> QED  BY <1>5, <1>6, <1>7, JobStep DEF Raced

LEMMA RefusedTyped ==
  ASSUME SyncTypeOK, UNCHANGED main, job.pc = "sync", NEW row \in job.rows, Refused(row),
         row.again \/ attempts[row.pr] < MaxSyncs
  PROVE  SyncTypeOK'
<1>1. row.pr \in PRs  BY JobTyped DEF Rows
<1>2. UNCHANGED attempts \/ \E n \in 0..MaxSyncs : attempts' = [attempts EXCEPT ![row.pr] = n]
  <2>1. attempts[row.pr] \in 0..MaxSyncs  BY <1>1 DEF SyncTypeOK
  <2>2. CASE row.again  BY <2>2 DEF Refused
  <2>3. CASE ~row.again
    <3>1. attempts[row.pr] + 1 \in 0..MaxSyncs  BY <2>1, <2>3, SyncAssumption
    <3>2. attempts' = [attempts EXCEPT ![row.pr] = attempts[row.pr] + 1]
      BY <2>3 DEF Refused
    <3> QED  BY <3>1, <3>2
  <2> QED  BY <2>2, <2>3
<1>3. heads[row.pr] \in [own: 0..MaxPushes, main: 1..Tip]  BY <1>1 DEF SyncTypeOK
<1>4. 0 \in 0..MaxSyncs  BY SyncAssumption
<1>5. young' \subseteq PRs  BY DEF Refused, SyncTypeOK
<1> QED  BY <1>1, <1>2, <1>3, <1>4, <1>5, HeadStep DEF Refused

LEMMA BuildTyped ==
  ASSUME SyncTypeOK, UNCHANGED <<main, asked>>, NEW p \in PRs, Build(p)
  PROVE  SyncTypeOK'
<1>1. heads[p] \in [own: 0..MaxPushes, main: 1..Tip]  BY DEF SyncTypeOK
<1> DEFINE h == [heads[p] EXCEPT !.own = @ + 1]
<1>2. h \in [own: 0..MaxPushes, main: 1..Tip]
  BY <1>1, SyncAssumption DEF Build
<1>3. heads' = [heads EXCEPT ![p] = h]  BY DEF Build
<1>4. 0 \in 0..MaxSyncs  BY SyncAssumption
<1>5. young' \subseteq PRs  BY DEF Build, SyncTypeOK
<1> HIDE DEF h
<1> QED  BY <1>2, <1>3, <1>4, <1>5, HeadStep DEF Build

LEMMA AgeTyped ==
  ASSUME SyncTypeOK, UNCHANGED <<main, asked>>, NEW p \in PRs, Age(p)
  PROVE  SyncTypeOK'
<1>1. Tip' = Tip  BY DEF Tip
<1> QED  BY <1>1 DEF Age, SyncTypeOK, NoJob

\* A run has one row for a pull request, and on its first try only where the
\* head has a try left: what the bound on attempts rests on.
RowsOK ==
    /\ \A row, other \in job.rows : row.pr = other.pr => row = other
    /\ \A row \in job.rows : row.again \/ attempts[row.pr] < MaxSyncs

LEMMA RowsSame ==
  ASSUME RowsOK, SyncTypeOK, UNCHANGED attempts, job'.rows \subseteq job.rows
  PROVE  RowsOK'
  BY DEF RowsOK

LEMMA RowsReset ==
  ASSUME RowsOK, SyncTypeOK, NEW p \in PRs, attempts' = [attempts EXCEPT ![p] = 0],
         job'.rows \subseteq job.rows
  PROVE  RowsOK'
<1>1. \A row \in job.rows : row.pr \in PRs  BY JobTyped DEF Rows
<1>2. 0 < MaxSyncs  BY SyncAssumption
<1>3. attempts \in [PRs -> 0..MaxSyncs]  BY DEF SyncTypeOK
<1> QED  BY <1>1, <1>2, <1>3 DEF RowsOK

LEMMA RowsStep ==
  ASSUME SyncTypeOK, Tip \in Nat, RowsOK, SyncStep
  PROVE  SyncTypeOK' /\ RowsOK'
<1>1. UNCHANGED main  BY DEF SyncStep, branch
<1>2. CASE StartSync
  <2>1. UNCHANGED attempts /\ job'.rows = {}  BY <1>2 DEF StartSync, NoJob
  <2> QED  BY <1>1, <1>2, <2>1, StartSyncTyped, RowsSame
<1>3. CASE Read
  <2>1. UNCHANGED attempts /\ job'.rows \subseteq job.rows
    BY <1>3, JobTyped DEF Read, NoJob
  <2> QED  BY <1>1, <1>3, <2>1, ReadTyped, RowsSame
<1>4. CASE EndSync
  <2>1. UNCHANGED <<heads, young, attempts>> /\ job' = NoJob /\ asked' \in 0..Tip /\ settled' \in 1..Tip
    BY <1>4 DEF EndSync, SyncTypeOK
  <2>2. 0 \in 0..Tip  OBVIOUS
  <2>3. NoJob \in [pc: {"idle", "read", "wait", "sync"}, event: 0..Tip, rows: SUBSET Rows]
    BY <2>2 DEF NoJob
  <2>4. SyncTypeOK'  BY <1>1, <2>1, <2>3, JobStep
  <2> QED  BY <2>1, <2>4, RowsSame DEF NoJob
<1>5. CASE Wait
  <2>1. UNCHANGED attempts  BY <1>5 DEF Wait
  <2>2. CASE job' = NoJob  BY <1>1, <1>5, <2>1, <2>2, WaitTyped, RowsSame DEF NoJob
  <2>3. CASE job' # NoJob
    <3>1. job'.rows = {Row(p, FALSE) : p \in {q \in PRs : Behind(q)}}
      BY <1>5, <2>3, JobTyped DEF Wait
    <3>2. \A row \in job'.rows : \E p \in PRs : row = Row(p, FALSE) /\ row.pr = p /\ Behind(p)
      BY <3>1 DEF Row
    <3>3. \A row \in job'.rows : attempts'[row.pr] < MaxSyncs
      BY <2>1, <3>2 DEF Behind
    <3>4. \A row, other \in job'.rows : row.pr = other.pr => row = other
      BY <3>2
    <3>5. RowsOK'  BY <3>3, <3>4 DEF RowsOK
    <3> QED  BY <1>1, <1>5, <3>5, WaitTyped
  <2> QED  BY <2>2, <2>3
<1>6. ASSUME NEW row \in job.rows, job.pc = "sync", Merge(row)
      PROVE  SyncTypeOK' /\ RowsOK'
  <2>1. row.pr \in PRs /\ job'.rows \subseteq job.rows
    BY <1>6, JobTyped DEF Merge, Merged, Drop, Rows
  <2>2. attempts' = [attempts EXCEPT ![row.pr] = 0]  BY <1>6 DEF Merge, Merged
  <2> QED  BY <1>1, <1>6, <2>1, <2>2, MergeTyped, RowsReset
<1>7. ASSUME NEW row \in job.rows, job.pc = "sync", Raced(row)
      PROVE  SyncTypeOK' /\ RowsOK'
  <2>1. UNCHANGED attempts  BY <1>7 DEF Raced
  <2>2. job'.rows \subseteq (job.rows \ {row}) \cup {Row(row.pr, TRUE)}
    BY <1>7, JobTyped DEF Raced
  <2>3. Row(row.pr, TRUE).pr = row.pr /\ Row(row.pr, TRUE).again  BY DEF Row
  <2>4. RowsOK'  BY <2>1, <2>2, <2>3 DEF RowsOK
  <2> QED  BY <1>1, <1>7, <2>4, RacedTyped
<1>8. ASSUME NEW row \in job.rows, job.pc = "sync", Refused(row)
      PROVE  SyncTypeOK' /\ RowsOK'
  <2>1. SyncTypeOK'  BY <1>1, <1>8, RefusedTyped DEF RowsOK
  <2>2. job'.rows = job.rows \ {row}  BY <1>8, JobTyped DEF Refused, Drop
  <2>3. \A p \in PRs \ {row.pr} : attempts'[p] = attempts[p]
    BY <1>8 DEF Refused, SyncTypeOK
  <2>4. \A other \in job'.rows : other.pr \in PRs \ {row.pr}
    BY <2>2, JobTyped DEF RowsOK, Rows
  <2>5. RowsOK'  BY <2>2, <2>3, <2>4 DEF RowsOK
  <2> QED  BY <2>1, <2>5
<1> QED  BY <1>2, <1>3, <1>4, <1>5, <1>6, <1>7, <1>8 DEF SyncStep, SyncRow

-----------------------------------------------------------------------------
Inv == TypeOK /\ RowsOK

LEMMA InvInit == Init => Inv
<1> SUFFICES ASSUME Init  PROVE Inv
  OBVIOUS
<1>1. Tip = 1  BY DEF Init, MainInit, Tip
<1>2. 0 \in Versions /\ 0 \in Contents  BY MainAssumption DEF Versions, Contents
<1>3. MainTypeOK
  <2>1. [want |-> 0, der |-> 0] \in [want: Versions, der: Contents]  BY <1>2
  <2> QED  BY <1>2, <2>1 DEF Init, MainInit, MainTypeOK
<1>4. RegenTypeOK
  <2>1. run = Idle /\ RunTypeOK
    BY <1>2, RegenAssumption DEF Init, RegenInit, RunTypeOK, Idle
  <2>2. queued = NoRun /\ retries = <<>> /\ alarm = FALSE /\ displaced = FALSE /\ faults = 0
    BY DEF Init, RegenInit
  <2>3. 0 \in 0..MaxFaults  BY RegenAssumption
  <2>4. retries \in Seq(1..Tip)  BY <2>2
  <2> QED  BY <2>1, <2>2, <2>3, <2>4 DEF RegenTypeOK
<1>5. SyncTypeOK /\ RowsOK
  BY <1>1, SyncAssumption DEF Init, SyncInit, SyncTypeOK, NoJob, RowsOK
<1> QED  BY <1>3, <1>4, <1>5 DEF Inv, TypeOK

LEMMA InvNext == Inv /\ [Next]_vars => Inv'
<1> SUFFICES ASSUME Inv, [Next]_vars  PROVE Inv'
  OBVIOUS
<1> USE DEF Inv, TypeOK
<1>1. TipIsThere  BY TipTyped
<1>2. ASSUME NEW kind \in Kinds, Landing(kind)  PROVE Inv'
  <2>1. (\E c \in Commits : main' = Append(main, c)) /\ MainTypeOK'
    BY <1>2, LandTyped DEF Landing
  <2>2. Tip \in Nat /\ Tip' = Tip + 1  BY <2>1, MainGrows
  <2>3. RegenTypeOK'
    <3>1. /\ queued' = [sha |-> Tip', attempt |-> 1] /\ displaced' = FALSE
          /\ UNCHANGED <<run, retries, alarm, faults>>
      BY <1>2 DEF Landing, AskRegen
    <3>2. Tip' \in Nat /\ Tip' >= Tip /\ Tip' # 0  BY <2>2
    <3> QED  BY <2>2, <3>1, <3>2, RunSame
  <2>4. asked' \in 0..Tip'  BY <1>2, <2>2 DEF Landing, AskSync
  <2>5. SyncTypeOK'  BY <1>2, <2>2, <2>4, SyncSame DEF Landing
  <2>6. RowsOK'  BY <1>2 DEF Landing, RowsOK
  <2> QED  BY <2>1, <2>3, <2>5, <2>6
<1>3. CASE (Start \/ Regenerate \/ Pull \/ Finish \/ Fault \/ Retry) /\ UNCHANGED sync
  <2>1. RegenTypeOK'
    BY <1>3, StartTyped, RegenerateTyped, PullTyped, FinishTyped, FaultTyped, RetryTyped
  <2>2. UNCHANGED branch
    BY <1>3 DEF Start, Regenerate, Pull, Finish, Fault, Retry
  <2>3. MainTypeOK' /\ Tip' = Tip  BY <2>2 DEF branch, MainTypeOK, Tip
  <2>4. SyncTypeOK' /\ RowsOK'  BY <1>3, <2>3 DEF sync, SyncTypeOK, RowsOK
  <2> QED  BY <2>1, <2>3, <2>4
<1>4. CASE /\ Push
           /\ IF main' # main THEN AskSync ELSE UNCHANGED asked
           /\ UNCHANGED <<heads, young, attempts, job, settled>>
  <2>1. RegenTypeOK' /\ MainTypeOK'  BY <1>4, PushTyped
  <2>2. main' = main \/ \E c : main' = Append(main, c)
    BY <1>4 DEF Push, branch, Pushes
  <2>3. Tip \in Nat /\ Tip' \in Nat /\ Tip' >= Tip
    BY <2>2 DEF MainTypeOK, Tip
  <2>4. asked' \in 0..Tip'  BY <1>4, <2>3 DEF AskSync, SyncTypeOK
  <2>5. SyncTypeOK'  BY <1>4, <2>3, <2>4, SyncSame
  <2>6. RowsOK'  BY <1>4 DEF RowsOK
  <2> QED  BY <2>1, <2>5, <2>6
<1>5. CASE SyncStep
  <2>1. SyncTypeOK' /\ RowsOK'  BY <1>1, <1>5, RowsStep DEF TipIsThere
  <2>2. UNCHANGED branch /\ UNCHANGED regenButFaults /\ (UNCHANGED faults \/ (faults < MaxFaults /\ faults' = faults + 1))
    BY <1>5 DEF SyncStep, regen, regenButFaults, Wait, Refused
  <2>3. MainTypeOK' /\ Tip' = Tip  BY <2>2 DEF branch, MainTypeOK, Tip
  <2>4. faults' \in 0..MaxFaults  BY <2>2, RegenAssumption DEF RegenTypeOK
  <2>5. RegenTypeOK'  BY <2>2, <2>3, <2>4 DEF RegenTypeOK, RunTypeOK, regenButFaults
  <2> QED  BY <2>1, <2>3, <2>5
<1>6. CASE Schedule /\ UNCHANGED regen
  <2>1. UNCHANGED <<branch, regen, heads, young, attempts, job, settled>> /\ asked' = Tip'
    BY <1>6 DEF Schedule, AskSync
  <2>2. MainTypeOK' /\ Tip' = Tip  BY <2>1 DEF branch, MainTypeOK, Tip
  <2>3. RegenTypeOK'  BY <2>1, <2>2 DEF regen, RegenTypeOK, RunTypeOK
  <2>4. SyncTypeOK'  BY <1>1, <2>1, <2>2, SyncSame DEF TipIsThere
  <2>5. RowsOK'  BY <2>1 DEF RowsOK
  <2> QED  BY <2>2, <2>3, <2>4, <2>5
<1>7. ASSUME NEW p \in PRs, Build(p), UNCHANGED <<branch, regen, asked>>  PROVE Inv'
  <2>1. MainTypeOK' /\ Tip' = Tip  BY <1>7 DEF branch, MainTypeOK, Tip
  <2>2. RegenTypeOK'  BY <1>7, <2>1 DEF regen, RegenTypeOK, RunTypeOK
  <2>3. SyncTypeOK'  BY <1>7, BuildTyped DEF branch
  <2>4. RowsOK'  BY <1>7, RowsReset DEF Build
  <2> QED  BY <2>1, <2>2, <2>3, <2>4
<1>8. ASSUME NEW p \in PRs, Age(p), UNCHANGED <<branch, regen, asked>>  PROVE Inv'
  <2>1. MainTypeOK' /\ Tip' = Tip  BY <1>8 DEF branch, MainTypeOK, Tip
  <2>2. RegenTypeOK'  BY <1>8, <2>1 DEF regen, RegenTypeOK, RunTypeOK
  <2>3. SyncTypeOK'  BY <1>8, AgeTyped DEF branch
  <2>4. RowsOK'  BY <1>8, RowsSame DEF Age
  <2> QED  BY <2>1, <2>2, <2>3, <2>4
<1>9. CASE UNCHANGED vars
  <2>1. UNCHANGED <<branch, regen, sync>>  BY <1>9 DEF vars
  <2>2. MainTypeOK' /\ Tip' = Tip  BY <2>1 DEF branch, MainTypeOK, Tip
  <2>3. RegenTypeOK'  BY <2>1, <2>2 DEF regen, RegenTypeOK, RunTypeOK
  <2>4. SyncTypeOK' /\ RowsOK'  BY <2>1, <2>2 DEF sync, SyncTypeOK, RowsOK
  <2> QED  BY <2>2, <2>3, <2>4
<1> QED  BY <1>2, <1>3, <1>4, <1>5, <1>6, <1>7, <1>8, <1>9 DEF Next, RegenStep

\* Every reachable state of main, of the bot that regenerates and of the bot
\* that syncs is of its type: derived-artifacts-regen.yml, pr-sync-main.mjs.
THEOREM UpkeepTypes == Spec => []TypeOK
<1>1. Spec => []Inv  BY InvInit, InvNext, PTL DEF Spec
<1> QED  BY <1>1, PTL DEF Inv

-----------------------------------------------------------------------------
(* What the properties rest on. *)

\* Somebody is still to look at the newest main.
Coming == settled = Tip \/ asked = Tip \/ (job.event = Tip /\ job.pc \in {"read", "wait"})

\* Commits wait for their second run in the order in which they failed, and a
\* first run is of a commit newer than all of these.
InOrder ==
    /\ \A i, k \in 1..Len(retries) : i < k => retries[i] < retries[k]
    /\ run.attempt = 1 => \A i \in 1..Len(retries) : retries[i] < run.sha
    /\ queued.attempt = 1 =>
          run.sha < queued.sha /\ \A i \in 1..Len(retries) : retries[i] < queued.sha

\* What a run that has not been rebased is about to push is news.
News ==
    /\ run.pc \in {"pull", "push"} /\ run.base = run.sha => run.ours # main[run.sha].der
    /\ run.pc = "pushed" => run.sha < Tip

\* Nothing comes after the second run of the newest commit.
LastComesLast ==
    /\ queued.sha = Tip /\ queued.attempt = 2 => retries = <<>> /\ run.attempt # 1
    /\ run.sha = Tip /\ run.attempt = 2 => retries = <<>> /\ queued = NoRun

RetryOfTip == retries # <<>> /\ retries[Len(retries)] = Tip

\* A stale main has its run before it, or its issue is open.
Covered ==
    \/ Fresh \/ displaced \/ queued.sha = Tip \/ run.sha = Tip \/ RetryOfTip
    \/ alarm /\ RegenAtRest

LEMMA ComingNext == Inv /\ Coming /\ [Next]_vars => Coming'
<1> SUFFICES ASSUME Inv, Coming, [Next]_vars  PROVE Coming'
  OBVIOUS
<1> USE DEF Coming
<1>1. ASSUME NEW kind \in Kinds, Landing(kind)  PROVE Coming'
  BY <1>1 DEF Landing, AskSync
<1>2. CASE (Start \/ Regenerate \/ Pull \/ Finish \/ Fault \/ Retry) /\ UNCHANGED sync
  <2>1. UNCHANGED branch  BY <1>2 DEF Start, Regenerate, Pull, Finish, Fault, Retry
  <2> QED  BY <1>2, <2>1 DEF branch, sync, Tip
<1>3. CASE /\ Push
           /\ IF main' # main THEN AskSync ELSE UNCHANGED asked
           /\ UNCHANGED <<heads, young, attempts, job, settled>>
  BY <1>3 DEF AskSync, Tip
<1>4. CASE SyncStep
  <2>1. Tip' = Tip  BY <1>4 DEF SyncStep, branch, Tip
  <2>2. CASE StartSync  BY <2>1, <2>2 DEF StartSync, NoJob
  <2>3. CASE Read  BY <2>1, <2>3, JobTyped DEF Read, Inv, TypeOK
  <2>4. CASE Wait  BY <2>1, <2>4, JobTyped DEF Wait, Inv, TypeOK
  <2>5. CASE EndSync  BY <2>1, <2>5 DEF EndSync
  <2>6. CASE job.pc = "sync" /\ UNCHANGED <<asked, settled>>  BY <2>1, <2>6
  <2> QED
    BY <1>4, <2>2, <2>3, <2>4, <2>5, <2>6 DEF SyncStep, SyncRow, Merge, Merged, Raced, Refused
<1>5. CASE Schedule /\ UNCHANGED regen
  BY <1>5 DEF Schedule, AskSync
<1>6. ASSUME NEW p \in PRs, Build(p) \/ Age(p), UNCHANGED <<branch, regen, asked>>
      PROVE  Coming'
  BY <1>6 DEF Build, Age, branch, Tip
<1>7. CASE UNCHANGED vars
  BY <1>7 DEF vars, branch, sync, Tip
<1> QED  BY <1>1, <1>2, <1>3, <1>4, <1>5, <1>6, <1>7 DEF Next, RegenStep

\* A sync run that gives way to a newer push has one behind it: regenGate of
\* pr-sync-main.mjs, and the runs that pushes and the schedule ask for.
THEOREM NobodyGivesWayToNobody == Spec => []SyncedAtRest
<1>1. Init => Coming  BY DEF Init, MainInit, SyncInit, Coming, Tip
<1>2. TypeOK /\ Coming => SyncedAtRest
  BY DEF TypeOK, MainTypeOK, Coming, SyncedAtRest, NoJob, Tip
<1>3. Spec => [](Inv /\ Coming)
  BY <1>1, InvInit, InvNext, ComingNext, PTL DEF Spec
<1> QED  BY <1>2, <1>3, PTL DEF Inv

\* Every push to main is on top of what is there, as git push without --force
\* is: derived-artifacts-regen.yml, "Commit and push".
THEOREM MainOnlyGrows == Spec => NothingOverwritten
<1> DEFINE Grows == Len(main) <= Len(main') /\ \A k \in 1..Len(main) : main'[k] = main[k]
<1>1. Inv /\ [Next]_vars => [Grows]_main
  <2> SUFFICES ASSUME Inv, [Next]_vars, main' # main  PROVE Grows
    OBVIOUS
  <2>1. \E c : main' = Append(main, c)
    <3>1. ASSUME NEW kind \in Kinds, Landing(kind)  PROVE \E c : main' = Append(main, c)
      BY <3>1 DEF Landing, Land
    <3>2. CASE RegenStep
      BY <3>2 DEF RegenStep, Start, Regenerate, Pull, Finish, Fault, Retry, Push, Pushes, branch
    <3>3. CASE SyncStep  BY <3>3 DEF SyncStep, branch
    <3> QED  BY <3>1, <3>2, <3>3 DEF Next, Schedule, vars, branch
  <2> QED  BY <2>1 DEF Inv, TypeOK, MainTypeOK
<1>2. Spec => []Inv  BY InvInit, InvNext, PTL DEF Spec
<1> QED  BY <1>1, <1>2, PTL DEF Spec, NothingOverwritten

\* A merge of main is made of the head it replaces, so no push of a builder is
\* lost to it: syncOne of pr-sync-main.mjs.
THEOREM BuildersPushesStay == Spec => BuildersKeepTheirPushes
<1> DEFINE Kept == \A p \in PRs : heads'[p].own >= heads[p].own
<1>1. Inv /\ [Next]_vars => [Kept]_heads
  <2> SUFFICES ASSUME Inv, [Next]_vars, heads' # heads  PROVE Kept
    OBVIOUS
  <2>1. heads \in [PRs -> [own: 0..MaxPushes, main: 1..Tip]]
    BY DEF Inv, TypeOK, SyncTypeOK
  <2>2. \A p \in PRs : heads[p].own \in Nat  BY <2>1
  <2>3. ASSUME NEW p \in PRs, Build(p)  PROVE Kept
    BY <2>1, <2>2, <2>3 DEF Build
  <2>4. ASSUME NEW row \in job.rows, job.pc = "sync", Merge(row)  PROVE Kept
    <3>1. row.pr \in PRs  BY JobTyped DEF Rows, Inv, TypeOK
    <3>2. heads' = [heads EXCEPT ![row.pr] = [heads[row.pr] EXCEPT !.main = job.event]]
      BY <2>4 DEF Merge, Merged
    <3> QED  BY <2>1, <2>2, <3>1, <3>2
  <2>5. \/ \E p \in PRs : Build(p)
        \/ \E row \in job.rows : job.pc = "sync" /\ Merge(row)
    BY DEF Next, Landing, RegenStep, SyncStep, SyncRow, StartSync, Read, Wait, EndSync,
           Raced, Refused, Age, Schedule, vars, sync
  <2> QED  BY <2>3, <2>4, <2>5
<1>2. Spec => []Inv  BY InvInit, InvNext, PTL DEF Spec
<1> QED  BY <1>1, <1>2, PTL DEF Spec, BuildersKeepTheirPushes

RegenInv == InOrder /\ News /\ LastComesLast /\ Covered

LEMMA RunFacts ==
  ASSUME Inv
  PROVE  /\ retries \in Seq(Nat) /\ Len(retries) \in Nat
         /\ \A i \in 1..Len(retries) : retries[i] \in 1..Tip
         /\ run = Idle \/ (run.sha \in 1..Tip /\ run.attempt \in 1..2 /\ run.base \in run.sha..Tip)
         /\ queued = NoRun \/ (queued.sha \in 1..Tip /\ queued.attempt \in 1..2)
         /\ Tip \in Nat \ {0}
<1>1. retries \in Seq(1..Tip)  BY DEF Inv, TypeOK, RegenTypeOK
<1>2. Tip \in Nat \ {0}  BY TipTyped DEF Inv, TypeOK, TipIsThere
<1>3. retries \in Seq(Nat)
  <2>1. 1..Tip \subseteq Nat  BY <1>2
  <2> QED  BY <1>1, <2>1, SeqWider
<1>4. \A i \in 1..Len(retries) : retries[i] \in 1..Tip  BY <1>1, SeqElement
<1>5. run = Idle \/ (run.sha \in 1..Tip /\ run.attempt \in 1..2 /\ run.base \in run.sha..Tip)
  BY DEF Inv, TypeOK, RegenTypeOK, RunTypeOK
<1>6. queued = NoRun \/ (queued.sha \in 1..Tip /\ queued.attempt \in 1..2)
  BY DEF Inv, TypeOK, RegenTypeOK
<1> QED  BY <1>2, <1>3, <1>4, <1>5, <1>6

\* A run that ends green on the newest main leaves it fresh.
LEMMA ConcludeInv ==
  ASSUME Inv, RegenInv, run # Idle, NEW green \in BOOLEAN, Conclude(green), UNCHANGED main,
         run.sha = Tip /\ green => Fresh
  PROVE  RegenInv'
<1> USE RunFacts DEF Inv, RegenInv
<1>1. Tip' = Tip /\ Fresh' = Fresh  BY DEF Tip, Fresh
<1>2. run' = Idle /\ alarm' = ~green /\ UNCHANGED <<queued, displaced>>  BY DEF Conclude
<1>3. CASE ~green /\ run.attempt = 1
  <2>1. retries' = Append(retries, run.sha)  BY <1>3 DEF Conclude
  <2>2. /\ Len(retries') = Len(retries) + 1 /\ retries'[Len(retries) + 1] = run.sha
        /\ \A i \in 1..Len(retries) : retries'[i] = retries[i]
    BY <2>1
  <2>3. InOrder'
    <3>1. \A i \in 1..Len(retries) : retries[i] < run.sha  BY <1>3 DEF InOrder
    <3>2. \A i, k \in 1..Len(retries') : i < k => retries'[i] < retries'[k]
      <4> SUFFICES ASSUME NEW i \in 1..Len(retries'), NEW k \in 1..Len(retries'), i < k
                   PROVE  retries'[i] < retries'[k]
        OBVIOUS
      <4>1. i \in 1..Len(retries)  BY <2>2
      <4>2. CASE k \in 1..Len(retries)  BY <2>2, <4>1, <4>2 DEF InOrder
      <4>3. CASE k = Len(retries) + 1  BY <2>2, <3>1, <4>1, <4>3
      <4>4. k \in 1..(Len(retries) + 1) /\ Len(retries) \in Nat  BY <2>2
      <4>5. k \in 1..Len(retries) \/ k = Len(retries) + 1  BY <4>4, LastOrNot
      <4> QED  BY <4>2, <4>3, <4>5
    <3>3. ASSUME queued.attempt = 1
          PROVE  /\ run'.sha < queued.sha
                 /\ \A i \in 1..Len(retries') : retries'[i] < queued.sha
      <4>1. queued.sha \in 1..Tip  BY <3>3 DEF NoRun
      <4>2. run.sha < queued.sha /\ \A i \in 1..Len(retries) : retries[i] < queued.sha
        BY <3>3 DEF InOrder
      <4>3. run'.sha = 0  BY <1>2 DEF Idle
      <4> QED  BY <2>2, <4>1, <4>2, <4>3
    <3> QED  BY <1>2, <3>2, <3>3 DEF InOrder, Idle
  <2>4. News'  BY <1>2 DEF News, Idle
  <2>5. LastComesLast'  BY <1>1, <1>2, <1>3 DEF LastComesLast, Idle
  <2>6. Covered'
    <3>1. CASE run.sha = Tip  BY <1>1, <2>1, <2>2, <3>1 DEF Covered, RetryOfTip
    <3>2. CASE run.sha # Tip
      <4>1. ~RetryOfTip  BY <1>3, <3>2 DEF RetryOfTip, InOrder
      <4> QED  BY <1>1, <1>2, <3>2, <4>1 DEF Covered, RegenAtRest
    <3> QED  BY <3>1, <3>2
  <2> QED  BY <2>3, <2>4, <2>5, <2>6
<1>4. CASE ~(~green /\ run.attempt = 1)
  <2>1. retries' = retries  BY <1>4 DEF Conclude
  <2>2. InOrder'  BY <1>2, <2>1 DEF InOrder, Idle, NoRun
  <2>3. News'  BY <1>2 DEF News, Idle
  <2>4. LastComesLast'  BY <1>1, <1>2, <2>1 DEF LastComesLast, Idle
  <2>5. Covered'
    <3>1. CASE run.sha = Tip /\ ~green
      <4>1. retries = <<>> /\ queued = NoRun  BY <1>4, <3>1 DEF LastComesLast
      <4> QED  BY <1>2, <2>1, <3>1, <4>1 DEF Covered, RegenAtRest
    <3>2. CASE ~(run.sha = Tip /\ ~green)
      BY <1>1, <1>2, <2>1, <3>2 DEF Covered, RetryOfTip, RegenAtRest
    <3> QED  BY <3>1, <3>2
  <2> QED  BY <2>2, <2>3, <2>4, <2>5
<1> QED  BY <1>3, <1>4

LEMMA GrowInv ==
  ASSUME Inv, RegenInv, NEW c, main' = Append(main, c),
         queued' = [sha |-> Tip', attempt |-> 1], UNCHANGED retries,
         run' = run \/ (run # Idle /\ run' = [run EXCEPT !.pc = "pushed"])
  PROVE  RegenInv'
<1> USE RunFacts DEF Inv, RegenInv
<1>1. Tip' = Tip + 1 /\ \A k \in 1..Tip : main'[k] = main[k]
  BY DEF TypeOK, MainTypeOK, Tip
<1>2. run'.sha = run.sha /\ run'.attempt = run.attempt /\ run'.base = run.base
  BY DEF TypeOK, RegenTypeOK, RunTypeOK
<1>3. run.sha \in 0..Tip  BY DEF Idle
<1>4. InOrder'  BY <1>1, <1>2, <1>3 DEF InOrder
<1>5. News'
  <2>1. CASE run' = run /\ run # Idle
    <3>1. run.sha \in 1..Tip  BY <2>1
    <3>2. main'[run.sha] = main[run.sha]  BY <1>1, <3>1
    <3>3. run.sha < Tip => run.sha < Tip'  BY <1>1, <3>1
    <3> QED  BY <2>1, <3>2, <3>3 DEF News
  <2>3. CASE run' = run /\ run = Idle  BY <2>3 DEF News, Idle
  <2>2. CASE run # Idle /\ run' = [run EXCEPT !.pc = "pushed"]
    <3>1. run'.pc = "pushed"  BY <2>2 DEF TypeOK, RegenTypeOK, RunTypeOK
    <3> QED  BY <1>1, <1>2, <1>3, <3>1 DEF News
  <2> QED  BY <2>1, <2>2, <2>3
<1>6. LastComesLast'  BY <1>1, <1>2, <1>3 DEF LastComesLast
<1>7. Covered'  BY DEF Covered
<1> QED  BY <1>4, <1>5, <1>6, <1>7

\* A step of the run that tells nobody.
LEMMA RunInv ==
  ASSUME Inv, RegenInv, UNCHANGED <<main, queued, retries, alarm, displaced>>,
         run # Idle, run' # Idle, run'.sha = run.sha, run'.attempt = run.attempt,
         run'.pc # "pushed",
         run'.pc \in {"pull", "push"} /\ run'.base = run.sha => run'.ours # main[run.sha].der
  PROVE  RegenInv'
<1>1. Tip' = Tip /\ Fresh' = Fresh  BY DEF Tip, Fresh
<1>2. InOrder'  BY DEF InOrder, RegenInv
<1>3. News'  BY DEF News
<1>4. LastComesLast'  BY <1>1 DEF LastComesLast, RegenInv
<1>5. Covered'  BY <1>1 DEF Covered, RetryOfTip, RegenAtRest, RegenInv
<1> QED  BY <1>2, <1>3, <1>4, <1>5 DEF RegenInv

LEMMA StartInv == Inv /\ RegenInv /\ Start => RegenInv'
<1> SUFFICES ASSUME Inv, RegenInv, Start  PROVE RegenInv'
  OBVIOUS
<1> USE RunFacts DEF RegenInv
<1>1. Tip' = Tip /\ Fresh' = Fresh /\ UNCHANGED <<retries, alarm, displaced>>
  BY DEF Start, branch, Tip, Fresh
<1>2. /\ run = Idle /\ queued # NoRun /\ queued' = NoRun
      /\ run'.pc = "checkout" /\ run'.sha = queued.sha /\ run'.attempt = queued.attempt
  BY DEF Start
<1>3. InOrder'  BY <1>1, <1>2 DEF InOrder, NoRun
<1>4. News'  BY <1>2 DEF News
<1>5. LastComesLast'  BY <1>1, <1>2 DEF LastComesLast, NoRun
<1>6. Covered'  BY <1>1, <1>2 DEF Covered, RetryOfTip, RegenAtRest, Idle
<1> QED  BY <1>3, <1>4, <1>5, <1>6

LEMMA RegenerateInv == Inv /\ RegenInv /\ Regenerate => RegenInv'
<1> SUFFICES ASSUME Inv, RegenInv, Regenerate  PROVE RegenInv'
  OBVIOUS
<1> DEFINE want == main[run.sha].want
<1>1. run # Idle /\ UNCHANGED main  BY DEF Regenerate, branch, Idle
<1>2. CASE Conclude(FALSE)  BY <1>1, <1>2, ConcludeInv
<1>3. CASE want = main[run.sha].der /\ Conclude(TRUE)
  <2>1. run.sha = Tip => Fresh  BY <1>3 DEF Fresh
  <2> QED  BY <1>1, <1>3, <2>1, ConcludeInv
<1>4. CASE /\ want # main[run.sha].der
           /\ run' = [run EXCEPT !.pc = "pull", !.ours = want]
           /\ UNCHANGED <<queued, retries, alarm, displaced>>
  <2>1. /\ run'.pc = "pull" /\ run'.sha = run.sha /\ run'.attempt = run.attempt
        /\ run'.base = run.base /\ run'.ours = want
    BY <1>4 DEF Inv, TypeOK, RegenTypeOK, RunTypeOK
  <2>2. run' # Idle  BY <2>1 DEF Idle
  <2> HIDE DEF want
  <2> QED  BY <1>1, <1>4, <2>1, <2>2, RunInv
<1> QED  BY <1>2, <1>3, <1>4 DEF Regenerate

LEMMA PullInv == Inv /\ RegenInv /\ Pull => RegenInv'
<1> SUFFICES ASSUME Inv, RegenInv, Pull  PROVE RegenInv'
  OBVIOUS
<1>1. /\ run # Idle /\ run.pc = "pull"
      /\ UNCHANGED <<main, queued, retries, alarm, displaced, faults>>
  BY DEF Pull, branch, Idle
<1>2. PICK ours : Rebased(ours) /\ (main[Tip].der = main[run.base].der => ours = run.ours)
  BY DEF Pull
<1>3. /\ run'.pc = "push" /\ run'.sha = run.sha /\ run'.attempt = run.attempt
      /\ run'.base = Tip /\ run'.ours = ours
  BY <1>2 DEF Rebased, Inv, TypeOK, RegenTypeOK, RunTypeOK
<1>4. run' # Idle  BY <1>3 DEF Idle
<1>5. Tip = run.sha => run'.ours # main[run.sha].der
  <2>1. Tip = run.sha => run.base = run.sha  BY <1>1, RunFacts
  <2> QED  BY <1>1, <1>2, <1>3, <2>1 DEF RegenInv, News
<1> QED  BY <1>1, <1>3, <1>4, <1>5, RunInv

LEMMA PushInv == Inv /\ RegenInv /\ Push => RegenInv'
<1> SUFFICES ASSUME Inv, RegenInv, Push  PROVE RegenInv'
  OBVIOUS
<1>1. run # Idle /\ run.pc = "push"  BY DEF Push, Idle
<1>2. CASE UNCHANGED branch /\ PushAgain
  <2>1. UNCHANGED main  BY <1>2 DEF branch
  <2>2. CASE /\ run' = [run EXCEPT !.pc = "pull", !.try = @ + 1]
             /\ UNCHANGED <<queued, retries, alarm, displaced>>
    <3>1. /\ run'.pc = "pull" /\ run'.sha = run.sha /\ run'.attempt = run.attempt
          /\ run'.base = run.base /\ run'.ours = run.ours
      BY <2>2 DEF Inv, TypeOK, RegenTypeOK, RunTypeOK
    <3>2. run' # Idle  BY <3>1 DEF Idle
    <3> QED  BY <1>1, <2>1, <2>2, <3>1, <3>2, RunInv DEF RegenInv, News
  <2>3. CASE Conclude(FALSE)  BY <1>1, <2>1, <2>3, ConcludeInv
  <2> QED  BY <1>2, <2>2, <2>3 DEF PushAgain
<1>3. CASE /\ run.base = Tip /\ run.ours = main[Tip].der
           /\ Conclude(TRUE) /\ UNCHANGED branch
  <2>1. run.sha # Tip  BY <1>1, <1>3 DEF RegenInv, News
  <2> QED  BY <1>1, <1>3, <2>1, ConcludeInv DEF branch
<1>4. CASE /\ Pushes([main[Tip] EXCEPT !.der = run.ours])
           /\ run' = [run EXCEPT !.pc = "pushed"]
           /\ UNCHANGED <<landed, flawed, retries, alarm>>
  BY <1>1, <1>4, GrowInv DEF Pushes, AskRegen
<1> QED  BY <1>2, <1>3, <1>4 DEF Push

LEMMA FinishInv == Inv /\ RegenInv /\ Finish => RegenInv'
<1> SUFFICES ASSUME Inv, RegenInv, Finish  PROVE RegenInv'
  OBVIOUS
<1>1. run # Idle /\ UNCHANGED main  BY DEF Finish, branch, Idle
<1>2. run.sha # Tip  BY RunFacts DEF Finish, RegenInv, News
<1> QED  BY <1>1, <1>2, ConcludeInv DEF Finish

LEMMA RetryInv == Inv /\ RegenInv /\ Retry => RegenInv'
<1> SUFFICES ASSUME Inv, RegenInv, Retry  PROVE RegenInv'
  OBVIOUS
<1> USE RunFacts DEF RegenInv
<1>1. Tip' = Tip /\ Fresh' = Fresh /\ UNCHANGED <<main, run, alarm>>
  BY DEF Retry, branch, Tip, Fresh
<1>2. retries # <<>> /\ Len(retries) \in Nat \ {0}  BY DEF Retry
<1>3. /\ Len(retries') = Len(retries) - 1
      /\ \A i \in 1..Len(retries') : retries'[i] = retries[i + 1]
  BY <1>2 DEF Retry
<1>4. queued'.sha = retries[1] /\ queued'.attempt = 2 /\ queued' # NoRun
  BY <1>2 DEF Retry, NoRun
<1>5. displaced' = (displaced \/ queued # NoRun)  BY DEF Retry
<1>6. InOrder'
  <2>1. \A i, k \in 1..Len(retries') : i < k => retries'[i] < retries'[k]
    <3> SUFFICES ASSUME NEW i \in 1..Len(retries'), NEW k \in 1..Len(retries'), i < k
                 PROVE  retries'[i] < retries'[k]
      OBVIOUS
    <3>1. i + 1 \in 1..Len(retries) /\ k + 1 \in 1..Len(retries) /\ i + 1 < k + 1
      BY <1>2, <1>3
    <3> QED  BY <1>3, <3>1 DEF InOrder
  <2>2. run.attempt = 1 => \A i \in 1..Len(retries') : retries'[i] < run.sha
    <3> SUFFICES ASSUME run.attempt = 1, NEW i \in 1..Len(retries')
                 PROVE  retries'[i] < run.sha
      OBVIOUS
    <3>1. i + 1 \in 1..Len(retries)  BY <1>2, <1>3
    <3> QED  BY <1>3, <3>1 DEF InOrder
  <2> QED  BY <1>1, <1>4, <2>1, <2>2 DEF InOrder
<1>7. News'  BY <1>1 DEF News
<1>8. LastComesLast'
  <2>1. CASE retries[1] = Tip
    <3>1. Len(retries) = 1
      <4>1. 1 \in 1..Len(retries) /\ Len(retries) \in 1..Len(retries)  BY <1>2
      <4>2. ~(1 < Len(retries))
        <5> SUFFICES ASSUME 1 < Len(retries)  PROVE FALSE
          OBVIOUS
        <5>1. retries[1] < retries[Len(retries)]  BY <4>1 DEF InOrder
        <5>2. retries[Len(retries)] \in 1..Tip  BY <4>1
        <5> QED  BY <2>1, <5>1, <5>2
      <4>3. \A n \in Nat \ {0} : ~(1 < n) => n = 1  OBVIOUS
      <4> QED  BY <1>2, <4>2, <4>3
    <3>2. retries' = <<>>
      <4>1. retries' \in Seq(Nat)  BY <1>2, HeadTail DEF Retry
      <4> QED  BY <1>3, <3>1, <4>1
    <3>3. run.attempt # 1  BY <1>2, <2>1 DEF InOrder, Idle
    <3>4. run.sha # Tip  BY <1>2, <2>1 DEF Retry
    <3> QED  BY <1>1, <3>2, <3>3, <3>4 DEF LastComesLast
  <2>2. CASE retries[1] # Tip  BY <1>1, <1>2, <1>4, <2>2 DEF LastComesLast
  <2> QED  BY <2>1, <2>2
<1>9. Covered'
  <2>1. CASE queued # NoRun  BY <1>5, <2>1 DEF Covered
  <2>2. CASE RetryOfTip
    <3>1. CASE Len(retries) = 1  BY <1>1, <1>4, <2>2, <3>1 DEF Covered, RetryOfTip
    <3>2. CASE Len(retries) # 1
      <4>1. Len(retries') \in Nat \ {0} /\ retries'[Len(retries')] = Tip
        BY <1>2, <1>3, <2>2, <3>2 DEF RetryOfTip
      <4> QED  BY <1>1, <4>1 DEF Covered, RetryOfTip
    <3> QED  BY <3>1, <3>2
  <2>3. CASE queued = NoRun /\ ~RetryOfTip
    BY <1>1, <1>2, <1>5, <2>3 DEF Covered, RegenAtRest, NoRun
  <2> QED  BY <2>1, <2>2, <2>3
<1> QED  BY <1>6, <1>7, <1>8, <1>9

LEMMA RegenInvNext == Inv /\ RegenInv /\ [Next]_vars => RegenInv'
<1> SUFFICES ASSUME Inv, RegenInv, [Next]_vars  PROVE RegenInv'
  OBVIOUS
<1>1. ASSUME NEW kind \in Kinds, Landing(kind)  PROVE RegenInv'
  <2>1. (\E c : main' = Append(main, c)) /\ UNCHANGED <<run, retries>>
        /\ queued' = [sha |-> Tip', attempt |-> 1]
    BY <1>1 DEF Landing, Land, AskRegen
  <2> QED  BY <2>1, GrowInv
<1>2. CASE RegenStep
  <2>1. CASE Fault  BY <2>1, ConcludeInv DEF Fault, branch
  <2> QED
    BY <1>2, <2>1, StartInv, RegenerateInv, PullInv, PushInv, FinishInv, RetryInv
       DEF RegenStep
<1>3. CASE UNCHANGED <<branch, regenButFaults>>
  <2>1. UNCHANGED <<main, run, queued, retries, alarm, displaced>>
    BY <1>3 DEF branch, regenButFaults
  <2>2. Tip' = Tip /\ Fresh' = Fresh  BY <2>1 DEF Tip, Fresh
  <2>3. InOrder' /\ News'  BY <2>1, <2>2 DEF RegenInv, InOrder, News
  <2>4. LastComesLast'  BY <2>1, <2>2 DEF RegenInv, LastComesLast
  <2>5. Covered'  BY <2>1, <2>2 DEF RegenInv, Covered, RetryOfTip, RegenAtRest
  <2> QED  BY <2>3, <2>4, <2>5 DEF RegenInv
<1> QED
  BY <1>1, <1>2, <1>3
     DEF Next, SyncStep, Schedule, vars, regen, regenButFaults

\* A stale main that nobody works on has its issue open, whatever failed, unless
\* a retry has cancelled the run that was waiting: derived-artifacts-regen.yml
\* and derived-regen-deadman.yml.
THEOREM RegenHidesLittle == Spec => []OnlyRetriesHide
<1>1. Init => RegenInv
  BY DEF Init, MainInit, RegenInit, RegenInv, InOrder, News, LastComesLast, Covered, Fresh,
         Idle, NoRun, Tip
<1>2. Inv /\ RegenInv => OnlyRetriesHide
  BY RunFacts DEF RegenInv, Covered, OnlyRetriesHide, RegenAtRest, RetryOfTip, Idle, NoRun
<1>3. Spec => [](Inv /\ RegenInv)
  BY <1>1, InvInit, InvNext, RegenInvNext, PTL DEF Spec
<1> QED  BY <1>2, <1>3, PTL
=============================================================================
