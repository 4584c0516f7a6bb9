---------------------------- MODULE LandingProofs ----------------------------
(***************************************************************************)
(* What holds of Landing for every set of pull requests, every order of    *)
(* the lane, and any number of workflow runs under way at once.            *)
(***************************************************************************)
EXTENDS Landing, FiniteSetTheorems, TLAPS

-----------------------------------------------------------------------------
(* Types. *)

LEMMA TypeInit == Init => TypeOK
  BY ForgeAssumption
     DEF Init, ForgeInit, LaneInit, WorkflowInit, TypeOK, ForgeTypeOK, LaneTypeOK,
         WorkflowTypeOK, RunsTypeOK, NoPass, Idle, Blank, Reasons

LEMMA ForgeSame == ForgeTypeOK /\ UNCHANGED forge => ForgeTypeOK'
  BY DEF ForgeTypeOK, forge

LEMMA LaneSame == LaneTypeOK /\ UNCHANGED lane => LaneTypeOK'
  BY DEF LaneTypeOK, lane

LEMMA RestSame ==
  ASSUME WorkflowTypeOK, RunsTypeOK', UNCHANGED scan, labelled \subseteq labelled'
  PROVE  WorkflowTypeOK'
  BY DEF WorkflowTypeOK

\* The event a step sends starts a run on a labelled pull request, or none.
LEMMA StartsTyped ==
  ASSUME RunsTypeOK, NEW j, Starts(j), labelled \subseteq labelled',
         (j \in Jobs /\ j.pr \in labelled') \/ (\E p \in PRs : j = Clearing(p))
  PROVE  RunsTypeOK'
<1>1. PICK r \in Runs : job[r] = Idle /\ job' = [job EXCEPT ![r] = j]  BY DEF Starts
<1>2. j \in Jobs \cup {Clearing(p) : p \in PRs}  OBVIOUS
<1>3. j.at # "clear" => j.pr \in labelled'  BY DEF Clearing
<1> QED  BY <1>1, <1>2, <1>3 DEF RunsTypeOK

LEMMA StepTyped ==
  ASSUME RunsTypeOK, NEW r \in Runs, NEW j, Step(r, j), labelled \subseteq labelled',
         j = Idle \/ (j \in Jobs /\ j.pr \in labelled)
  PROVE  RunsTypeOK'
  BY DEF RunsTypeOK, Step

LEMMA RemovedTyped ==
  ASSUME ForgeTypeOK, NEW p \in PRs, NEW reason \in Reasons, Removed(p, reason)
  PROVE  timeline' \in [PRs -> [1..Window -> Reasons]] /\ lost' \subseteq PRs
<1> DEFINE next == [i \in 1..Window |-> IF i = Window THEN reason ELSE timeline[p][i + 1]]
<1>1. timeline[p] \in [1..Window -> Reasons]  BY DEF ForgeTypeOK
<1>2. \A i \in 1..Window : i # Window => i + 1 \in 1..Window  BY ForgeAssumption
<1>3. next \in [1..Window -> Reasons]  BY <1>1, <1>2
<1>4. timeline' = [timeline EXCEPT ![p] = next]  BY DEF Removed, ForgeTypeOK
<1> HIDE DEF next
<1> QED  BY <1>3, <1>4 DEF Removed, ForgeTypeOK

LEMMA TimeoutsTyped ==
  ASSUME NEW t
  PROVE  Timeouts(t) \in 0..Window
<1> DEFINE found == {i \in 1..Window : t[i] = "timeout"}
<1>1. IsFiniteSet(1..Window) /\ Cardinality(1..Window) = Window
  BY ForgeAssumption, FS_Interval
<1>2. found \subseteq 1..Window  OBVIOUS
<1>3. IsFiniteSet(found) /\ Cardinality(found) <= Window
  BY <1>1, <1>2, FS_Subset
<1>4. Cardinality(found) \in Nat  BY <1>3, FS_CardinalityType
<1> QED  BY <1>3, <1>4, ForgeAssumption DEF Timeouts

LEMMA DequeuedTyped ==
  ASSUME RunsTypeOK, NEW p \in PRs, NEW on \in {"timeout", "removal"},
         NEW n \in 0..Window, Dequeued(p, on, n), labelled' = labelled
  PROVE  RunsTypeOK'
<1>1. CASE p \in labelled \ held
  <2>1. Run("guard", p, on, n) \in Jobs /\ Run("guard", p, on, n).pr = p  BY DEF Run, Jobs
  <2> QED  BY <1>1, <2>1, StartsTyped DEF Dequeued
<1>2. CASE p \notin labelled \ held
  BY <1>2 DEF Dequeued, RunsTypeOK
<1> QED  BY <1>1, <1>2

LEMMA SynchronizedTyped ==
  ASSUME RunsTypeOK, ForgeTypeOK, NEW p \in PRs, Synchronized(p), labelled' = labelled
  PROVE  RunsTypeOK'
<1>1. CASE p \in held
  BY <1>1, StartsTyped DEF Synchronized
<1>2. CASE p \notin held /\ p \in queue
  <2>1. 0 \in 0..Window  BY ForgeAssumption
  <2> QED  BY <1>2, <2>1, DequeuedTyped DEF Synchronized
<1>3. CASE p \notin held /\ p \notin queue
  BY <1>3 DEF Synchronized, RunsTypeOK
<1> QED  BY <1>1, <1>2, <1>3

LEMMA ArmTyped ==
  ASSUME ForgeTypeOK, NEW p \in labelled, Arm(p)
  PROVE  ForgeTypeOK' /\ UNCHANGED <<life, labelled>>
  BY DEF ForgeTypeOK, Arm, Open

LEMMA NewHeadTyped ==
  ASSUME ForgeTypeOK, NEW p \in PRs, NewHead(p)
  PROVE  ForgeTypeOK' /\ UNCHANGED <<life, labelled>>
<1>1. timeline' \in [PRs -> [1..Window -> Reasons]] /\ lost' \subseteq PRs
  BY RemovedTyped DEF NewHead, Reasons, ForgeTypeOK
<1> QED  BY <1>1 DEF ForgeTypeOK, NewHead

LEMMA GoneTyped ==
  ASSUME ForgeTypeOK, NEW p \in PRs, Gone(p)
  PROVE  /\ life' \in [PRs -> {"unopened", "open", "gone"}]
         /\ held' \subseteq PRs /\ green' \subseteq PRs /\ shadow' \subseteq PRs
         /\ mref' \in [PRs -> 0..MaxTip]
         /\ timeline' \in [PRs -> [1..Window -> Reasons]] /\ lost' \subseteq PRs
         /\ failedRun' \in [PRs -> {"none", "fatal", "gate"}]
<1>1. Blank \in [1..Window -> Reasons] /\ 0 \in 0..MaxTip  BY ForgeAssumption DEF Blank, Reasons
<1> QED  BY <1>1 DEF ForgeTypeOK, Gone

LEMMA HandLabelTyped ==
  ASSUME ForgeTypeOK, NEW p \in PRs, HandLabel(p)
  PROVE  ForgeTypeOK' /\ labelled' = labelled \cup {p} /\ life' = life
  BY DEF ForgeTypeOK, HandLabel

LEMMA WorldTyped ==
  ASSUME ForgeTypeOK, World
  PROVE  ForgeTypeOK' /\ UNCHANGED labelled
<1> USE ForgeAssumption DEF ForgeTypeOK, Open
<1>1. CASE MainMoves  BY <1>1 DEF MainMoves
<1>2. ASSUME NEW p \in PRs, OpenPR(p) PROVE ForgeTypeOK' /\ UNCHANGED labelled
  BY <1>2 DEF OpenPR
<1>3. ASSUME NEW p \in PRs, ClosePR(p) PROVE ForgeTypeOK' /\ UNCHANGED labelled
  BY <1>3, GoneTyped DEF ClosePR
<1>4. ASSUME NEW p \in PRs, ChecksPass(p) \/ ShadowPasses(p) \/ Refresh(p)
      PROVE ForgeTypeOK' /\ UNCHANGED labelled
  BY <1>4 DEF ChecksPass, ShadowPasses, Refresh
<1>5. ASSUME NEW p \in PRs, Enqueue(p) PROVE ForgeTypeOK' /\ UNCHANGED labelled
  BY <1>5 DEF Enqueue
<1>6. ASSUME NEW p \in PRs, Merge(p) PROVE ForgeTypeOK' /\ UNCHANGED labelled
  BY <1>6, GoneTyped DEF Merge
<1>7. ASSUME NEW p \in PRs, Override(p) PROVE ForgeTypeOK' /\ UNCHANGED labelled
  BY <1>7 DEF Override
<1> QED  BY <1>1, <1>2, <1>3, <1>4, <1>5, <1>6, <1>7 DEF World

LEMMA DropTyped ==
  ASSUME ForgeTypeOK, NEW p \in PRs, NEW why \in Faults, Drop(p, why)
  PROVE  ForgeTypeOK' /\ UNCHANGED <<life, labelled>>
<1>1. why \in {"timeout", "fatal", "gate", "conflict", "other"}  BY ForgeAssumption DEF Causes
<1>2. timeline' \in [PRs -> [1..Window -> Reasons]] /\ lost' \subseteq PRs
  BY <1>1, RemovedTyped DEF Drop, Reasons
<1> QED  BY <1>2 DEF ForgeTypeOK, Drop

\* One run's step: what it writes of the pull requests, and where it goes.
LEMMA VisitTyped ==
  ASSUME TypeOK, NEW r \in Runs, Visit(r), UNCHANGED lane
  PROVE  TypeOK' /\ UNCHANGED <<life, labelled>>
<1>0. WorkflowTypeOK /\ RunsTypeOK /\ ForgeTypeOK /\ LaneTypeOK  BY DEF TypeOK, WorkflowTypeOK
<1>1. job[r] \in Jobs \cup {Clearing(p) : p \in PRs} /\ job[r] # Idle
  BY <1>0 DEF RunsTypeOK, Visit, Guard, DecideLabeled, DecideTimeout, DecideRemoval, Hold,
              Enable, ClearHold, Idle
<1>2. job[r].at # "clear" => job[r] \in Jobs /\ job[r].pr \in labelled
  BY <1>0, <1>1 DEF RunsTypeOK, Clearing
<1>3. ASSUME job[r].at # "clear"
      PROVE  /\ Proceed(r) = Idle \/ (Proceed(r) \in Jobs /\ Proceed(r).pr \in labelled)
             /\ \A at \in {"decide", "refused", "hold"} :
                   [job[r] EXCEPT !.at = at] \in Jobs /\ [job[r] EXCEPT !.at = at].pr \in labelled
  <2>1. job[r] \in Jobs /\ job[r].pr \in labelled  BY <1>2, <1>3
  <2>2. \A at \in {"decide", "refused", "hold", "enable"} :
           [job[r] EXCEPT !.at = at] \in Jobs /\ [job[r] EXCEPT !.at = at].pr = job[r].pr
    BY <2>1 DEF Jobs
  <2> QED  BY <2>1, <2>2 DEF Proceed
<1>4. CASE Guard(r)
  <2>1. PICK j : Step(r, j) /\ j \in Jobs /\ j.pr \in labelled
    BY <1>3, <1>4 DEF Guard
  <2>2. UNCHANGED <<scan, forge>>  BY <1>4 DEF Guard
  <2>3. labelled \subseteq labelled' /\ UNCHANGED <<life, labelled>>  BY <2>2 DEF forge
  <2>4. RunsTypeOK'  BY <1>0, <2>1, <2>3, StepTyped
  <2> QED  BY <1>0, <2>2, <2>3, <2>4, ForgeSame, LaneSame, RestSame DEF TypeOK
<1>5. CASE DecideLabeled(r) \/ DecideRemoval(r)
  <2>1. PICK j : Step(r, j) /\ (j = Idle \/ (j \in Jobs /\ j.pr \in labelled))
    <3>1. job[r].at # "clear"  BY <1>5 DEF DecideLabeled, DecideRemoval
    <3>2. CASE DecideLabeled(r)  BY <1>3, <3>1, <3>2 DEF DecideLabeled
    <3>3. CASE DecideRemoval(r)
      <4>1. \/ Step(r, [job[r] EXCEPT !.at = "hold"]) \/ Step(r, Proceed(r)) \/ Step(r, Idle)
        BY <3>3 DEF DecideRemoval
      <4> QED  BY <1>3, <3>1, <4>1
    <3> QED  BY <1>5, <3>2, <3>3
  <2>2. UNCHANGED <<scan, forge>>  BY <1>5 DEF DecideLabeled, DecideRemoval
  <2>3. labelled \subseteq labelled' /\ UNCHANGED <<life, labelled>>  BY <2>2 DEF forge
  <2>4. RunsTypeOK'  BY <1>0, <2>1, <2>3, StepTyped
  <2> QED  BY <1>0, <2>2, <2>3, <2>4, ForgeSame, LaneSame, RestSame DEF TypeOK
<1>6. CASE DecideTimeout(r)
  <2>1. PICK j : Step(r, j) /\ (j = Idle \/ (j \in Jobs /\ j.pr \in labelled))
    <3>1. job[r].at # "clear"  BY <1>6 DEF DecideTimeout
    <3>2. Step(r, Idle) \/ Step(r, Proceed(r))  BY <1>6 DEF DecideTimeout
    <3> QED  BY <1>3, <3>1, <3>2
  <2>2. UNCHANGED <<scan, forge>>  BY <1>6 DEF DecideTimeout
  <2>3. labelled \subseteq labelled' /\ UNCHANGED <<life, labelled>>  BY <2>2 DEF forge
  <2>4. RunsTypeOK'  BY <1>0, <2>1, <2>3, StepTyped
  <2> QED  BY <1>0, <2>2, <2>3, <2>4, ForgeSame, LaneSame, RestSame DEF TypeOK
<1>7. CASE Hold(r) \/ ClearHold(r)
  <2>1. held' \subseteq PRs
    BY <1>0, <1>7 DEF Hold, ClearHold, ForgeTypeOK, Open
  <2>2. Step(r, Idle) /\ UNCHANGED <<scan, life, labelled, green, shadow, tip, mref, auto,
                                     queue, timeline, lost, failedRun>>
    BY <1>7 DEF Hold, ClearHold
  <2>3. RunsTypeOK'
    <3>1. labelled \subseteq labelled'  BY <2>2
    <3> QED  BY <1>0, <2>2, <3>1, StepTyped
  <2>4. ForgeTypeOK'  BY <1>0, <2>1, <2>2 DEF ForgeTypeOK
  <2> QED  BY <1>0, <2>2, <2>3, <2>4, LaneSame, RestSame DEF TypeOK
<1>8. CASE Enable(r)
  <2>1. ForgeTypeOK' /\ UNCHANGED <<life, labelled>>
    BY <1>0, <1>2, <1>8, ArmTyped DEF Enable
  <2>2. Step(r, Idle) /\ UNCHANGED scan  BY <1>8 DEF Enable
  <2>3. RunsTypeOK'
    <3>1. labelled \subseteq labelled'  BY <2>1
    <3> QED  BY <1>0, <2>2, <3>1, StepTyped
  <2> QED  BY <1>0, <2>1, <2>2, <2>3, LaneSame, RestSame DEF TypeOK
<1> QED  BY <1>4, <1>5, <1>6, <1>7, <1>8
         DEF Visit, Guard, DecideLabeled, DecideTimeout, DecideRemoval, Hold, ClearHold, Enable, forge

LEMMA ScanTyped ==
  ASSUME TypeOK, NEW p \in PRs, StartScan \/ ViewPR(p) \/ Rearm(p), UNCHANGED lane
  PROVE  TypeOK' /\ UNCHANGED <<life, labelled, job, timeline, lost>>
<1>0. WorkflowTypeOK /\ RunsTypeOK /\ ForgeTypeOK /\ LaneTypeOK  BY DEF TypeOK, WorkflowTypeOK
<1>1. CASE StartScan
  <2>1. WorkflowTypeOK'  BY <1>0, <1>1 DEF WorkflowTypeOK, RunsTypeOK, StartScan, forge
  <2> QED  BY <1>0, <1>1, <2>1, ForgeSame, LaneSame DEF TypeOK, StartScan, forge
<1>2. CASE ViewPR(p)
  <2>1. WorkflowTypeOK'  BY <1>0, <1>2 DEF WorkflowTypeOK, RunsTypeOK, ViewPR, forge
  <2> QED  BY <1>0, <1>2, <2>1, ForgeSame, LaneSame DEF TypeOK, ViewPR, forge
<1>3. CASE Rearm(p)
  <2>1. p \in labelled  BY <1>0, <1>3 DEF Rearm, WorkflowTypeOK
  <2>2. ForgeTypeOK' /\ UNCHANGED <<life, labelled, timeline, lost>>
    BY <1>0, <1>3, <2>1, ArmTyped, ForgeSame DEF Rearm, Arm, forge
  <2>3. WorkflowTypeOK'  BY <1>0, <1>3, <2>2 DEF WorkflowTypeOK, RunsTypeOK, Rearm
  <2> QED  BY <1>0, <1>3, <2>2, <2>3, LaneSame DEF TypeOK, Rearm
<1> QED  BY <1>1, <1>2, <1>3

\* What a pass has read and is about to write.
PassTypeOK ==
    /\ pass \in [open: SUBSET PRs, labelled: SUBSET PRs, tip: 0..MaxTip, todo: SUBSET PRs]
    /\ write \in {NoWrite} \cup {Label(p) : p \in PRs} \cup {Update(p) : p \in PRs}

LEMMA StartPassTyped ==
  ASSUME ForgeTypeOK, PassTypeOK, StartPass
  PROVE  PassTypeOK' /\ UNCHANGED forge
<1> DEFINE new  == [NoPass EXCEPT !.open = Open, !.labelled = labelled \cap Open, !.tip = tip]
           todo == (Open \cap Eligible) \ labelled
           Passes == [open: SUBSET PRs, labelled: SUBSET PRs, tip: 0..MaxTip, todo: SUBSET PRs]
<1>1. new \in Passes /\ todo \in SUBSET PRs
  BY ForgeAssumption DEF ForgeTypeOK, NoPass, Open
<1>2. NoPass \in Passes  BY ForgeAssumption DEF NoPass
<1>3. With(new, todo) \in Passes  BY <1>1, <1>2 DEF With
<1> QED  BY <1>3 DEF StartPass, PassTypeOK

LEMMA DecideTyped ==
  ASSUME PassTypeOK, NEW p \in PRs, Decide(p)
  PROVE  PassTypeOK' /\ UNCHANGED forge
  BY ForgeAssumption DEF PassTypeOK, Decide, With, NoPass

LEMMA Remembered ==
  ASSUME LaneTypeOK, PassTypeOK', Remember
  PROVE  LaneTypeOK'
  BY DEF LaneTypeOK, PassTypeOK, Remember

LEMMA WriteTyped ==
  ASSUME LaneTypeOK, write # NoWrite
  PROVE  /\ write.pr \in PRs /\ write.do \in {"arm", "update-branch"}
         /\ write = Label(write.pr) \/ write = Update(write.pr)
  BY DEF LaneTypeOK, Label, Update

LEMMA ArmedTyped ==
  ASSUME TypeOK, Armed, UNCHANGED scan, Remember
  PROVE  TypeOK' /\ UNCHANGED <<life, pass>> /\ labelled' = labelled \cup {write.pr}
<1>0. WorkflowTypeOK /\ RunsTypeOK /\ ForgeTypeOK /\ LaneTypeOK  BY DEF TypeOK, WorkflowTypeOK
<1>1. write.pr \in PRs /\ labelled' = labelled \cup {write.pr} /\ write' = NoWrite
  BY <1>0, WriteTyped DEF Armed, AddLabel, NoWrite
<1>2. ForgeTypeOK' /\ LaneTypeOK' /\ UNCHANGED <<life, pass>>
  <2>1. ForgeTypeOK' /\ PassTypeOK' /\ UNCHANGED <<life, pass>>
    BY <1>0, <1>1 DEF ForgeTypeOK, LaneTypeOK, PassTypeOK, Armed, AddLabel
  <2> QED  BY <1>0, <2>1, Remembered
<1>3. RunsTypeOK'
  <2>1. CASE job' = job
    BY <1>0, <1>1, <2>1 DEF RunsTypeOK
  <2>2. CASE job' # job
    <3> DEFINE j == Run("guard", write.pr, "labeled", 0)
    <3>1. Starts(j)  BY <2>2 DEF Armed, Labeled
    <3>2. j \in Jobs /\ j.pr \in labelled'
      BY <1>0, <1>1, ForgeAssumption DEF Run, Jobs, ForgeTypeOK
    <3> QED  BY <1>0, <1>1, <3>1, <3>2, StartsTyped
  <2> QED  BY <2>1, <2>2
<1> QED  BY <1>0, <1>1, <1>2, <1>3, RestSame DEF TypeOK

LEMMA UpdatedTyped ==
  ASSUME TypeOK, Updated, UNCHANGED scan, Remember
  PROVE  TypeOK' /\ UNCHANGED <<life, labelled, pass>> /\ write' = NoWrite
<1>0. WorkflowTypeOK /\ RunsTypeOK /\ ForgeTypeOK /\ LaneTypeOK  BY DEF TypeOK, WorkflowTypeOK
<1>1. write.pr \in PRs /\ write' = NoWrite /\ pass' = pass
  BY <1>0, WriteTyped DEF Updated, UpdateBranch, NoWrite
<1>2. ForgeTypeOK' /\ UNCHANGED <<life, labelled>>
  BY <1>0, <1>1, NewHeadTyped, ForgeSame DEF Updated, UpdateBranch, forge
<1>3. LaneTypeOK'  BY <1>0, <1>1, Remembered DEF LaneTypeOK, PassTypeOK
<1>4. RunsTypeOK'
  <2>1. CASE write.pr \in Open
    BY <1>0, <1>1, <1>2, <2>1, SynchronizedTyped DEF Updated
  <2>2. CASE write.pr \notin Open
    BY <1>0, <1>2, <2>2 DEF Updated, RunsTypeOK
  <2> QED  BY <2>1, <2>2
<1> QED  BY <1>0, <1>1, <1>2, <1>3, <1>4, RestSame DEF TypeOK

LEMMA HandTyped ==
  ASSUME TypeOK, NEW p \in PRs, LabelledByHand(p), UNCHANGED <<scan, pass, write>>
  PROVE  TypeOK' /\ UNCHANGED life /\ labelled' = labelled \cup {p}
<1>0. WorkflowTypeOK /\ RunsTypeOK /\ ForgeTypeOK /\ LaneTypeOK  BY DEF TypeOK, WorkflowTypeOK
<1>1. ForgeTypeOK' /\ labelled' = labelled \cup {p} /\ life' = life
  BY <1>0, HandLabelTyped DEF LabelledByHand
<1>2. LaneTypeOK'  BY <1>0 DEF LaneTypeOK, LabelledByHand, LabelledLate
<1>3. RunsTypeOK'
  <2> DEFINE j == Run("guard", p, "labeled", 0)
  <2>1. j \in Jobs /\ j.pr \in labelled'  BY <1>1, ForgeAssumption DEF Run, Jobs
  <2>2. job' = job \/ Starts(j)  BY DEF LabelledByHand, Labeled
  <2>3. CASE job' = job  BY <1>0, <1>1, <2>3 DEF RunsTypeOK
  <2>4. CASE Starts(j)  BY <1>0, <1>1, <2>1, <2>4, StartsTyped
  <2> QED  BY <2>2, <2>3, <2>4
<1> QED  BY <1>0, <1>1, <1>2, <1>3, RestSame DEF TypeOK

LEMMA PushTyped ==
  ASSUME TypeOK, NEW p \in PRs, Push(p), UNCHANGED scan, UNCHANGED lane
  PROVE  TypeOK' /\ UNCHANGED <<life, labelled>>
<1>0. WorkflowTypeOK /\ RunsTypeOK /\ ForgeTypeOK /\ LaneTypeOK  BY DEF TypeOK, WorkflowTypeOK
<1>1. ForgeTypeOK' /\ UNCHANGED <<life, labelled>>  BY <1>0, NewHeadTyped DEF Push
<1>2. RunsTypeOK'
  BY <1>0, <1>1, SynchronizedTyped DEF Push
<1> QED  BY <1>0, <1>1, <1>2, RestSame, LaneSame DEF TypeOK

LEMMA DroppedTyped ==
  ASSUME TypeOK, NEW p \in PRs, NEW why \in Faults, Dropped(p, why), UNCHANGED scan, UNCHANGED lane
  PROVE  TypeOK' /\ UNCHANGED <<life, labelled>>
<1>0. WorkflowTypeOK /\ RunsTypeOK /\ ForgeTypeOK /\ LaneTypeOK  BY DEF TypeOK, WorkflowTypeOK
<1>1. /\ ForgeTypeOK' /\ UNCHANGED <<life, labelled>>
      /\ Timeouts(timeline'[p]) \in 0..Window /\ 0 \in 0..Window
  BY <1>0, DropTyped, TimeoutsTyped, ForgeAssumption DEF Dropped
<1>2. RunsTypeOK'
  BY <1>0, <1>1, DequeuedTyped DEF Dropped
<1> QED  BY <1>0, <1>1, <1>2, RestSame, LaneSame DEF TypeOK

LEMMA WorldKeepsTypes ==
  ASSUME TypeOK, World, UNCHANGED <<lane, workflow>>
  PROVE  TypeOK' /\ UNCHANGED labelled
  BY WorldTyped, LaneSame DEF TypeOK, WorkflowTypeOK, RunsTypeOK, workflow

LEMMA LanePassTyped ==
  ASSUME TypeOK, LanePass
  PROVE  TypeOK'
<1>1. CASE (StartPass \/ \E p \in PRs : Decide(p)) /\ UNCHANGED workflow
  <2>1. PassTypeOK' /\ UNCHANGED forge
    BY <1>1, StartPassTyped, DecideTyped DEF TypeOK, LaneTypeOK, PassTypeOK
  <2>2. LaneTypeOK'  BY <2>1, Remembered DEF LanePass, TypeOK
  <2> QED  BY <1>1, <2>1, <2>2, ForgeSame DEF TypeOK, WorkflowTypeOK, RunsTypeOK, forge, workflow
<1>2. CASE (Armed \/ Updated) /\ UNCHANGED scan
  BY <1>2, ArmedTyped, UpdatedTyped DEF LanePass
<1> QED  BY <1>1, <1>2 DEF LanePass

LEMMA ScanningTyped ==
  ASSUME TypeOK, Scanning
  PROVE  TypeOK' /\ UNCHANGED <<life, labelled, job, timeline, lost>>
<1>1. CASE StartScan
  BY <1>1, ForgeSame, LaneSame
     DEF Scanning, TypeOK, WorkflowTypeOK, RunsTypeOK, StartScan, forge
<1>2. CASE \E p \in PRs : ViewPR(p) \/ Rearm(p)  BY <1>2, ScanTyped DEF Scanning
<1> QED  BY <1>1, <1>2 DEF Scanning

LEMMA TypeStep == TypeOK /\ [Next]_vars => TypeOK'
<1> SUFFICES ASSUME TypeOK, [Next]_vars PROVE TypeOK'  OBVIOUS
<1>1. CASE World /\ UNCHANGED <<lane, workflow>>  BY <1>1, WorldKeepsTypes
<1>2. CASE (\E p \in PRs : LabelledByHand(p)) /\ UNCHANGED scan /\ UNCHANGED <<pass, write>>
  BY <1>2, HandTyped
<1>3. CASE (\E p \in PRs : Push(p)) /\ UNCHANGED scan /\ UNCHANGED lane  BY <1>3, PushTyped
<1>4. CASE (\E p \in PRs, why \in Faults : Dropped(p, why)) /\ UNCHANGED scan /\ UNCHANGED lane
  BY <1>4, DroppedTyped
<1>5. CASE LanePass  BY <1>5, LanePassTyped
<1>6. CASE (\E r \in Runs : Visit(r)) /\ UNCHANGED lane  BY <1>6, VisitTyped
<1>7. CASE Scanning  BY <1>7, ScanningTyped
<1>8. CASE UNCHANGED vars
  BY <1>8, ForgeSame, LaneSame DEF vars, forge, workflow, TypeOK, WorkflowTypeOK, RunsTypeOK
<1> QED  BY <1>1, <1>2, <1>3, <1>4, <1>5, <1>6, <1>7, <1>8 DEF Next

\* Every variable keeps its type, and nothing is armed, queued, visited or
\* handled by a run that does not carry the label.
THEOREM LandingTypes == Spec => []TypeOK
  BY TypeInit, TypeStep, PTL DEF Spec

-----------------------------------------------------------------------------
(***************************************************************************)
(* The lane.  A pass compares labels it read at its start, so what keeps   *)
(* it from arming a second lineage pull request is not the comparison      *)
(* alone: whoever this pass has armed held the baton of the list it read,  *)
(* and so nobody else of the same list does.  Whoever else is on its way   *)
(* was labelled by hand since.                                             *)
(***************************************************************************)

Way == Open \cap Lineage \cap labelled

LaneInv ==
    /\ \A p \in labelled \cup pass.open \cup pass.todo : life[p] # "unopened"
    /\ pass.labelled \subseteq pass.open
    /\ pass.todo # {} =>
          \A p \in Way : p \in pass.labelled \cup late \/ HoldsBaton(p, pass.open)
    /\ write.do = "arm" => life[write.pr] # "unopened"
    /\ write.do = "arm" /\ write.pr \in Lineage =>
          /\ \A p \in Way : p = write.pr \/ p \in late
          /\ pass.todo # {} => HoldsBaton(write.pr, pass.open)

LEMMA WayInit == Init => LaneInv
  BY DEF Init, ForgeInit, LaneInit, LaneInv, NoPass, NoWrite, Open, Way

LEMMA OneBaton ==
  ASSUME NEW open, NEW p, NEW q, HoldsBaton(p, open), HoldsBaton(q, open)
  PROVE  p = q
<1> SUFFICES ASSUME p # q PROVE FALSE  OBVIOUS
<1>1. Rank[p] < Rank[q] /\ Rank[q] < Rank[p]  BY DEF HoldsBaton
<1>2. Rank[p] \in Nat /\ Rank[q] \in Nat  BY LaneAssumption DEF HoldsBaton, Listed
<1> QED  BY <1>1, <1>2

\* Most steps open or label nothing and leave the pass alone.
LEMMA LaneApart ==
  ASSUME TypeOK, LaneInv, UNCHANGED lane, labelled' = labelled,
         \A p \in PRs : life'[p] = life[p] \/ (life[p] # "unopened" /\ life'[p] = "gone")
                \/ (life[p] = "unopened" /\ life'[p] = "open")
  PROVE  LaneInv'
<1>0. labelled \cup pass.open \cup pass.todo \subseteq PRs /\ (write.do = "arm" => write.pr \in PRs)
  BY WriteTyped DEF TypeOK, ForgeTypeOK, LaneTypeOK, NoWrite
<1>1. Way' \subseteq Way  BY <1>0 DEF LaneInv, Way, Open
<1>2. \A p : HoldsBaton(p, pass.open)' <=> HoldsBaton(p, pass.open)  BY DEF HoldsBaton, lane
<1>3. pass' = pass /\ write' = write /\ late' = late  BY DEF lane
<1>4. \A p \in PRs : life[p] # "unopened" => life'[p] # "unopened"  OBVIOUS
<1> QED  BY <1>0, <1>1, <1>2, <1>3, <1>4 DEF LaneInv

LEMMA WorldMoves ==
  ASSUME TypeOK, LaneInv, World
  PROVE  \A p \in PRs : \/ life'[p] = life[p]
                \/ (life[p] # "unopened" /\ life'[p] = "gone")
                \/ (life[p] = "unopened" /\ life'[p] = "open")
<1>1. life \in [PRs -> {"unopened", "open", "gone"}] 
  BY DEF TypeOK, ForgeTypeOK
<1>2. CASE life' = life  BY <1>2
<1>3. ASSUME NEW q \in PRs, life[q] = "unopened", life' = [life EXCEPT ![q] = "open"]
      PROVE  \A p \in PRs : \/ life'[p] = life[p]
                    \/ (life[p] # "unopened" /\ life'[p] = "gone")
                    \/ (life[p] = "unopened" /\ life'[p] = "open")
  BY <1>1, <1>3
<1>4. ASSUME NEW q \in PRs, life[q] # "unopened", life' = [life EXCEPT ![q] = "gone"]
      PROVE  \A p \in PRs : \/ life'[p] = life[p]
                    \/ (life[p] # "unopened" /\ life'[p] = "gone")
                    \/ (life[p] = "unopened" /\ life'[p] = "open")
  BY <1>1, <1>4
<1>5. \/ life' = life
      \/ \E q \in PRs : OpenPR(q)
      \/ \E q \in PRs : ClosePR(q) \/ Merge(q)
  BY DEF World, MainMoves, ChecksPass, ShadowPasses, Refresh, Enqueue, Override
<1>6. ASSUME NEW q \in PRs, ClosePR(q) \/ Merge(q)
      PROVE  life[q] # "unopened" /\ life' = [life EXCEPT ![q] = "gone"]
  BY <1>6 DEF ClosePR, Merge, Gone, Open, LaneInv, TypeOK, ForgeTypeOK
<1> QED  BY <1>2, <1>3, <1>4, <1>5, <1>6 DEF OpenPR

\* While a pass is under way nobody who was labelled late is forgotten.
LEMMA LateStays ==
  ASSUME Remember, pass'.todo # {} \/ write'.do = "arm"
  PROVE  late' = late
  BY DEF Remember, InPass, NoWrite

LEMMA LaneStep == TypeOK /\ LaneInv /\ [Next]_vars => LaneInv'
<1> SUFFICES ASSUME TypeOK, LaneInv, [Next]_vars PROVE LaneInv'  OBVIOUS
<1>0. /\ labelled \subseteq PRs /\ pass.open \subseteq PRs /\ pass.todo \subseteq PRs
      /\ life \in [PRs -> {"unopened", "open", "gone"}]
  BY DEF TypeOK, ForgeTypeOK, LaneTypeOK
<1>a. ASSUME UNCHANGED <<life, labelled, lane>> PROVE LaneInv'  BY <1>a, LaneApart
<1>1. CASE World /\ UNCHANGED <<lane, workflow>>
  BY <1>1, WorldMoves, WorldKeepsTypes, LaneApart
<1>2. ASSUME NEW p \in PRs, LabelledByHand(p), UNCHANGED <<scan, pass, write>> PROVE LaneInv'
  <2>1. UNCHANGED <<life, pass, write>> /\ labelled' = labelled \cup {p} /\ p \in Open
    BY <1>2, HandTyped DEF LabelledByHand, HandLabel
  <2>2. life'[p] # "unopened"  BY <2>1 DEF Open
  <2>3. Way' \subseteq Way \cup {p}  BY <2>1 DEF Way, Open
  <2>4. pass.todo # {} \/ write.do = "arm" => late' = late \cup {p}
    BY <1>2 DEF LabelledByHand, LabelledLate, InPass, NoWrite
  <2>5. \A q : HoldsBaton(q, pass'.open) <=> HoldsBaton(q, pass.open)  BY <2>1
  <2>6. \A q \in labelled' \cup pass'.open \cup pass'.todo : life'[q] # "unopened"
    BY <2>1, <2>2 DEF LaneInv
  <2>7. pass.todo # {} =>
           \A q \in Way' : q \in pass.labelled \cup late' \/ HoldsBaton(q, pass.open)
    BY <2>3, <2>4 DEF LaneInv
  <2>8. write.do = "arm" /\ write.pr \in Lineage => \A q \in Way' : q = write.pr \/ q \in late'
    BY <2>3, <2>4 DEF LaneInv
  <2> QED  BY <2>1, <2>5, <2>6, <2>7, <2>8 DEF LaneInv
<1>3. CASE (\E p \in PRs : Push(p)) /\ UNCHANGED scan /\ UNCHANGED lane  BY <1>3, <1>a, PushTyped
<1>4. CASE (\E p \in PRs, why \in Faults : Dropped(p, why)) /\ UNCHANGED scan /\ UNCHANGED lane
  BY <1>4, <1>a, DroppedTyped
<1>5. CASE StartPass /\ Remember
  <2> DEFINE new  == [NoPass EXCEPT !.open = Open, !.labelled = labelled \cap Open, !.tip = tip]
             todo == (Open \cap Eligible) \ labelled
  <2>1. /\ UNCHANGED <<life, labelled, write>> /\ write.do # "arm"
        /\ pass' = With(new, todo)
    BY <1>5 DEF StartPass, forge, NoWrite
  <2>2. CASE todo = {}
    <3>1. pass'.open = {} /\ pass'.labelled = {} /\ pass'.todo = {}
      BY <2>1, <2>2 DEF With, NoPass
    <3>2. Way' = Way  BY <2>1 DEF Way, Open
    <3> HIDE DEF new
    <3> QED  BY <2>1, <3>1, <3>2 DEF LaneInv
  <2>3. CASE todo # {}
    <3>1. /\ pass'.open = Open /\ pass'.labelled = labelled \cap Open
          /\ pass'.todo = todo
      BY <2>1, <2>3 DEF With, NoPass
    <3>2. Way \subseteq pass'.labelled  BY <3>1 DEF Way
    <3>3. Way' = Way  BY <2>1 DEF Way, Open
    <3> HIDE DEF new
    <3> QED  BY <2>1, <3>1, <3>2, <3>3 DEF LaneInv, Open
  <2> QED  BY <2>2, <2>3
<1>6. ASSUME NEW p \in PRs, Decide(p), Remember PROVE LaneInv'
  <2>1. UNCHANGED <<life, labelled>> /\ p \in pass.todo /\ pass.todo # {}
    BY <1>6 DEF Decide, forge
  <2>2. \/ pass' = NoPass
        \/ /\ pass'.open = pass.open /\ pass'.labelled = pass.labelled
           /\ pass'.todo = pass.todo \ {p} /\ pass.todo \ {p} # {}
    BY <1>6 DEF Decide, With, TypeOK, LaneTypeOK
  <2>3. Way' = Way  BY <2>1 DEF Way, Open
  <2>4. ASSUME write'.do = "arm", p \in Lineage
        PROVE  HoldsBaton(p, pass.open) /\ \A q \in Way : q = p \/ q \in late
    <3>1. HoldsBaton(p, pass.open) /\ ~OtherLineageArmed(p)
      BY <1>6, <2>4 DEF Decide, Waits, NoWrite, Update
    <3>2. ASSUME NEW q \in Way, q # p, q \notin late PROVE FALSE
      <4>1. CASE q \in pass.labelled
        BY <3>1, <3>2, <4>1 DEF OtherLineageArmed, LaneInv, Way
      <4>2. CASE HoldsBaton(q, pass.open)
        BY <3>1, <3>2, <4>2, OneBaton
      <4> QED  BY <2>1, <3>2, <4>1, <4>2 DEF LaneInv
    <3> QED  BY <3>1, <3>2
  <2>5. write'.do = "arm" => write'.pr = p
    BY <1>6 DEF Decide, NoWrite, Update, Label
  <2>6. life[p] # "unopened"  BY <2>1 DEF LaneInv
  <2>7. pass'.todo # {} \/ write'.do = "arm" => late' = late  BY <1>6, LateStays
  <2>8. CASE pass' = NoPass
    BY <2>1, <2>3, <2>4, <2>5, <2>6, <2>7, <2>8 DEF LaneInv, NoPass
  <2>9. CASE pass' # NoPass
    <3>1. \A q : HoldsBaton(q, pass'.open) <=> HoldsBaton(q, pass.open)
      BY <2>2, <2>9
    <3> QED  BY <2>1, <2>2, <2>3, <2>4, <2>5, <2>6, <2>7, <2>9, <3>1 DEF LaneInv
  <2> QED  BY <2>8, <2>9
<1>7. CASE Armed /\ UNCHANGED scan /\ Remember
  <2>1. /\ UNCHANGED <<life, pass>> /\ labelled' = labelled \cup {write.pr}
        /\ write' = NoWrite /\ write.do = "arm"
    BY <1>7, ArmedTyped DEF Armed, AddLabel
  <2>2. Way' \subseteq Way \cup ({write.pr} \cap Lineage)  BY <2>1 DEF Way, Open
  <2>3. write'.do # "arm"  BY <2>1 DEF NoWrite
  <2>4. pass'.todo # {} => late' = late  BY <1>7, LateStays
  <2>5. pass.todo # {} => \A p \in Way' : p \in pass.labelled \cup late \/ HoldsBaton(p, pass.open)
    BY <2>1, <2>2 DEF LaneInv
  <2>6. \A p : HoldsBaton(p, pass'.open) <=> HoldsBaton(p, pass.open)  BY <2>1
  <2> QED  BY <2>1, <2>3, <2>4, <2>5, <2>6 DEF LaneInv
<1>8. CASE Updated /\ UNCHANGED scan /\ Remember
  <2>1. UNCHANGED <<life, labelled, pass>> /\ write' = NoWrite
    BY <1>8, UpdatedTyped
  <2>2. Way' = Way /\ write'.do # "arm"  BY <2>1 DEF Way, Open, NoWrite
  <2>3. pass'.todo # {} => late' = late  BY <1>8, LateStays
  <2> QED  BY <2>1, <2>2, <2>3 DEF LaneInv
<1>9. CASE (\E r \in Runs : Visit(r)) /\ UNCHANGED lane  BY <1>9, <1>a, VisitTyped
<1>10. CASE Scanning  BY <1>10, <1>a, ScanningTyped DEF Scanning
<1>11. CASE UNCHANGED vars  BY <1>11, <1>a DEF vars, forge
<1> QED  BY <1>1, <1>2, <1>3, <1>4, <1>5, <1>6, <1>7, <1>8, <1>9, <1>10, <1>11 DEF Next, LanePass

\* A pass that labels a lineage pull request finds no other on its way but
\* those that were labelled by hand after it had read its list, whatever it has
\* read, however late it writes, and whatever earlier passes did.
THEOREM PassesArmOne == Spec => ArmsOneLineagePR
<1> DEFINE Alone == \A p \in Open \cap Lineage :
              Armed /\ write.pr = p =>
                 (Open \cap Lineage \cap (labelled \cup auto \cup queue)) \ {p} \subseteq late
<1>1. TypeOK /\ LaneInv /\ [Next]_vars => [Alone]_vars
  BY DEF TypeOK, ForgeTypeOK, LaneInv, Way, Armed, AddLabel
<1>2. Spec => [](TypeOK /\ LaneInv)
  BY TypeInit, TypeStep, WayInit, LaneStep, PTL DEF Spec
<1>3. Spec => [][Alone]_vars  BY <1>1, <1>2, PTL DEF Spec
<1> QED  BY <1>3 DEF ArmsOneLineagePR

-----------------------------------------------------------------------------
(***************************************************************************)
(* The cap.  As long as no timeout has left the window, what a read of the *)
(* timeline finds only grows: the count a run reads is at least the        *)
(* removal that started it, so a run that goes on was started by one of    *)
(* the first.                                                              *)
(***************************************************************************)

CountOK(j, within, line) ==
    j.at \in {"guard", "decide", "refused", "enable"} /\ j.on = "timeout" /\ j.pr \in within =>
       IF j.at = "enable" THEN j.nth < TimeoutCap ELSE j.nth <= Timeouts(line[j.pr])

\* Those of which the timeline still shows every timeout.
Whole == Open \ lost

CapInv == \A r \in Runs : CountOK(job[r], Whole, timeline)

LEMMA CapInit == Init => CapInv
  BY DEF Init, WorkflowInit, CapInv, CountOK, Idle

\* A run keeps what it has counted while the counts only grow and nothing is
\* reopened; a pull request opened only now has no run.
LEMMA CapApart ==
  ASSUME TypeOK, LaneInv, CapInv,
         \A p \in Whole' : \/ life[p] = "unopened"
                           \/ p \in Whole /\ Timeouts(timeline[p]) <= Timeouts(timeline'[p]),
         \A r \in Runs : job'[r] = job[r] \/ CountOK(job'[r], Whole', timeline')
  PROVE  CapInv'
<1> SUFFICES ASSUME NEW r \in Runs, job'[r] = job[r]
             PROVE  CountOK(job[r], Whole', timeline')
  BY DEF CapInv
<1> SUFFICES ASSUME job[r].at \in {"guard", "decide", "refused", "enable"},
                    job[r].on = "timeout", job[r].pr \in Whole'
             PROVE  IF job[r].at = "enable" THEN job[r].nth < TimeoutCap
                    ELSE job[r].nth <= Timeouts(timeline'[job[r].pr])
  BY DEF CountOK
<1>1. job[r] \in Jobs /\ job[r].pr \in labelled
  BY DEF TypeOK, WorkflowTypeOK, RunsTypeOK, Idle, Clearing
<1>2. /\ job[r].pr \in Whole
      /\ Timeouts(timeline[job[r].pr]) <= Timeouts(timeline'[job[r].pr])
  BY <1>1 DEF LaneInv
<1>3. /\ Timeouts(timeline[job[r].pr]) \in Nat /\ Timeouts(timeline'[job[r].pr]) \in Nat
      /\ job[r].nth \in Nat
  BY <1>1, TimeoutsTyped DEF Jobs
<1>4. CountOK(job[r], Whole, timeline)  BY DEF CapInv
<1>5. CASE job[r].at = "enable"  BY <1>2, <1>4, <1>5 DEF CountOK
<1>6. CASE job[r].at # "enable"
  <2>1. job[r].nth <= Timeouts(timeline[job[r].pr])  BY <1>2, <1>4, <1>6 DEF CountOK
  <2> QED  BY <1>2, <1>3, <1>6, <2>1
<1> QED  BY <1>5, <1>6

LEMMA SameCounts ==
  ASSUME TypeOK, LaneInv, CapInv, UNCHANGED <<life, timeline, lost>>,
         \A r \in Runs : job'[r] = job[r] \/ CountOK(job'[r], Whole, timeline)
  PROVE  CapInv'
<1>1. Whole' = Whole  BY DEF Open, Whole
<1>2. \A p : Timeouts(timeline[p]) <= Timeouts(timeline'[p])
  <2> TAKE p
  <2>1. Timeouts(timeline[p]) \in Nat /\ timeline' = timeline  BY TimeoutsTyped
  <2> QED  BY <2>1
<1> QED  BY <1>1, <1>2, CapApart

\* A removal takes a timeout out of the window, or finds as many as before.
LEMMA RemovalsCount ==
  ASSUME ForgeTypeOK, NEW p \in PRs, NEW reason \in Reasons, Removed(p, reason), p \notin lost'
  PROVE  p \notin lost /\ Timeouts(timeline[p]) <= Timeouts(timeline'[p])
<1> DEFINE old == {i \in 1..Window : timeline[p][i] = "timeout"}
           new == {i \in 1..Window : timeline'[p][i] = "timeout"}
           shift == [i \in old |-> i - 1]
<1>1. p \notin lost /\ timeline[p][1] # "timeout"  BY DEF Removed
<1>2. timeline'[p] = [i \in 1..Window |-> IF i = Window THEN reason ELSE timeline[p][i + 1]]
  BY DEF Removed, ForgeTypeOK
<1>3. \A i \in old : i - 1 \in new
  <2> TAKE i \in old
  <2>1. i \in 1..Window /\ timeline[p][i] = "timeout" /\ i # 1  BY <1>1
  <2>2. i - 1 \in 1..Window /\ i - 1 # Window /\ (i - 1) + 1 = i  BY <2>1, ForgeAssumption
  <2> QED  BY <1>2, <2>1, <2>2
<1>4. shift \in Injection(old, new)
  <2>1. shift \in [old -> new]  BY <1>3
  <2>2. \A i, j \in old : shift[i] = shift[j] => i = j  OBVIOUS
  <2> QED  BY <2>1, <2>2 DEF Injection, IsInjective
<1>5. IsFiniteSet(new)
  <2>1. IsFiniteSet(1..Window)  BY ForgeAssumption, FS_Interval
  <2> QED  BY <2>1, FS_Subset
<1> HIDE DEF shift, old, new
<1>6. Cardinality(old) <= Cardinality(new)  BY <1>4, <1>5, FS_Injection
<1> QED  BY <1>1, <1>6 DEF Timeouts, old, new

\* A step that removes one pull request from the queue leaves the others.
LEMMA RemovalsKeepCounts ==
  ASSUME ForgeTypeOK, NEW p \in PRs, NEW reason \in Reasons, Removed(p, reason), life' = life
  PROVE  \A q \in Whole' : q \in Whole /\ Timeouts(timeline[q]) <= Timeouts(timeline'[q])
<1> TAKE q \in Whole'
<1>1. q \in PRs /\ q \in Open /\ q \notin lost'  BY DEF Whole, Open
<1>2. CASE q = p  BY <1>1, <1>2, RemovalsCount DEF Whole
<1>3. CASE q # p
  <2>1. timeline'[q] = timeline[q] /\ q \notin lost  BY <1>1, <1>3 DEF Removed, ForgeTypeOK
  <2>2. Timeouts(timeline[q]) \in Nat  BY TimeoutsTyped
  <2> QED  BY <1>1, <2>1, <2>2 DEF Whole
<1> QED  BY <1>2, <1>3

\* An event puts one run at its first step; a run's step moves that run.
LEMMA OneRunMoves ==
  ASSUME TypeOK, NEW j, Starts(j) \/ (\E r \in Runs : Step(r, j))
  PROVE  \A r \in Runs : job'[r] = job[r] \/ job'[r] = j
  BY DEF Starts, Step, TypeOK, WorkflowTypeOK, RunsTypeOK

LEMMA EventCounted ==
  ASSUME TypeOK, NEW p \in PRs, Synchronized(p) \/ Labeled(p) \/ Dequeued(p, "removal", 0)
  PROVE  \A within, line : \A r \in Runs :
            job'[r] = job[r] \/ CountOK(job'[r], within, line)
<1>1. CASE job' = job  BY <1>1
<1>2. ASSUME NEW j \in {Clearing(p), Run("guard", p, "removal", 0),
                        Run("guard", p, "labeled", 0)}, Starts(j)
      PROVE  \A within, line : \A r \in Runs :
                job'[r] = job[r] \/ CountOK(job'[r], within, line)
  BY <1>2, OneRunMoves DEF CountOK, Clearing, Run
<1> QED  BY <1>1, <1>2 DEF Synchronized, Labeled, Dequeued

LEMMA VisitCounted ==
  ASSUME TypeOK, CapInv, NEW r \in Runs, Visit(r)
  PROVE  /\ UNCHANGED <<timeline, lost>>
         /\ \A q \in Runs : job'[q] = job[q] \/ CountOK(job'[q], Whole, timeline)
<1>0. CountOK(job[r], Whole, timeline)  BY DEF CapInv
<1>a. CountOK(Idle, Whole, timeline)  BY DEF CountOK, Idle
<1>t. job[r] # Idle /\ job[r].at # "clear" => job[r] \in Jobs /\ job[r].pr \in PRs
  BY DEF TypeOK, WorkflowTypeOK, RunsTypeOK, Clearing, Jobs
<1>1. CASE Guard(r)
  <2>1. PICK at \in {"decide", "refused"} : Step(r, [job[r] EXCEPT !.at = at])
    BY <1>1 DEF Guard
  <2>2. job[r] \in Jobs  BY <1>1, <1>t DEF Guard, Idle
  <2>3. CountOK([job[r] EXCEPT !.at = at], Whole, timeline)
    BY <1>0, <1>1, <2>2 DEF CountOK, Guard, Jobs
  <2> QED  BY <1>1, <2>1, <2>3, OneRunMoves DEF Guard, forge
<1>2. CASE DecideLabeled(r) \/ DecideRemoval(r)
  <2>1. job[r] \in Jobs /\ job[r].on # "timeout" /\ UNCHANGED <<timeline, lost>>
    BY <1>2, <1>t DEF DecideLabeled, DecideRemoval, Idle, forge
  <2>2. \A at \in {"enable", "hold"} : CountOK([job[r] EXCEPT !.at = at], Whole, timeline)
    BY <2>1 DEF CountOK, Jobs
  <2>3. Step(r, [job[r] EXCEPT !.at = "hold"]) \/ Step(r, Proceed(r)) \/ Step(r, Idle)
    BY <1>2 DEF DecideLabeled, DecideRemoval
  <2>4. CountOK(Proceed(r), Whole, timeline)  BY <1>a, <2>2 DEF Proceed
  <2> QED  BY <1>a, <2>1, <2>2, <2>3, <2>4, OneRunMoves
<1>3. CASE DecideTimeout(r)
  <2>1. job[r] \in Jobs /\ job[r].pr \in PRs /\ UNCHANGED <<timeline, lost>>
        /\ job[r].at \in {"decide", "refused"} /\ job[r].on = "timeout"
    BY <1>3, <1>t DEF DecideTimeout, Idle, forge
  <2>2. CASE Step(r, Idle)  BY <1>a, <2>1, <2>2, OneRunMoves
  <2>3. CASE Step(r, Proceed(r)) /\ Timeouts(timeline[job[r].pr]) < TimeoutCap
    <3>1. Timeouts(timeline[job[r].pr]) \in Nat /\ job[r].nth \in Nat /\ TimeoutCap \in Nat
      BY <2>1, TimeoutsTyped, CapAssumption DEF Jobs
    <3>2. job[r].pr \in Whole => job[r].nth <= Timeouts(timeline[job[r].pr])
      BY <1>0, <2>1 DEF CountOK
    <3>4. job[r].pr \in Whole => job[r].nth < TimeoutCap  BY <2>3, <3>1, <3>2
    <3>3. CountOK([job[r] EXCEPT !.at = "enable"], Whole, timeline)
      BY <2>1, <3>4 DEF CountOK, Jobs
    <3> QED  BY <1>a, <2>1, <2>3, <3>3, OneRunMoves DEF Proceed
  <2>4. Timeouts(timeline[job[r].pr]) \in Nat /\ TimeoutCap \in Nat
    BY TimeoutsTyped, CapAssumption
  <2> QED  BY <1>3, <2>2, <2>3, <2>4 DEF DecideTimeout
<1>4. CASE Hold(r) \/ ClearHold(r) \/ Enable(r)
  BY <1>4, <1>a, OneRunMoves DEF Hold, ClearHold, Enable, Arm
<1> QED  BY <1>1, <1>2, <1>3, <1>4 DEF Visit

LEMMA CapStep == TypeOK /\ LaneInv /\ CapInv /\ [Next]_vars => CapInv'
<1> SUFFICES ASSUME TypeOK, LaneInv, CapInv, [Next]_vars PROVE CapInv'  OBVIOUS
<1>0. ForgeTypeOK  BY DEF TypeOK
<1>a. ASSUME UNCHANGED <<life, timeline, lost, job>> PROVE CapInv'  BY <1>a, SameCounts
<1>1. CASE World /\ UNCHANGED <<lane, workflow>>
  <2>1. job' = job  BY <1>1 DEF workflow
  <2>2. \A p \in PRs : \/ timeline'[p] = timeline[p] /\ (p \in lost' <=> p \in lost)
                      \/ p \notin Open'
    BY <1>1, <1>0 DEF ForgeTypeOK, World, MainMoves, OpenPR, ClosePR, Merge, Gone,
                      ChecksPass, ShadowPasses, Refresh, Enqueue, Override, Open
  <2>3. ASSUME NEW p \in Whole'
        PROVE  life[p] = "unopened" \/ (p \in Whole /\ Timeouts(timeline[p]) <= Timeouts(timeline'[p]))
    <3>1. p \in PRs /\ p \in Open' /\ p \notin lost'  BY <2>3 DEF Whole, Open
    <3>2. timeline'[p] = timeline[p] /\ p \notin lost  BY <2>2, <3>1
    <3>3. Timeouts(timeline[p]) \in Nat  BY TimeoutsTyped
    <3>4. life[p] = "unopened" \/ p \in Open  BY <1>1, <3>1, WorldMoves DEF Open
    <3> QED  BY <3>2, <3>3, <3>4 DEF Whole
  <2> QED  BY <2>1, <2>3, CapApart
<1>2. ASSUME NEW p \in PRs, LabelledByHand(p), UNCHANGED <<scan, pass, write>> PROVE CapInv'
  BY <1>2, EventCounted, SameCounts DEF LabelledByHand, HandLabel
<1>3. ASSUME NEW p \in PRs, Push(p), UNCHANGED scan, UNCHANGED lane PROVE CapInv'
  <2>1. CASE p \in queue
    <3>1. Removed(p, "other") /\ life' = life  BY <1>3, <2>1 DEF Push, NewHead
    <3>2. \A q \in Whole' : q \in Whole /\ Timeouts(timeline[q]) <= Timeouts(timeline'[q])
      BY <1>0, <3>1, RemovalsKeepCounts DEF Reasons
    <3>3. \A r \in Runs : job'[r] = job[r] \/ CountOK(job'[r], Whole', timeline')
      BY <1>3, EventCounted DEF Push
    <3> QED  BY <3>2, <3>3, CapApart
  <2>2. CASE p \notin queue
    BY <1>3, <2>2, EventCounted, SameCounts DEF Push, NewHead
  <2> QED  BY <2>1, <2>2
<1>4. ASSUME NEW p \in PRs, NEW why \in Faults, Dropped(p, why), UNCHANGED scan, UNCHANGED lane
      PROVE  CapInv'
  <2> DEFINE reason == IF why \in {"fatal", "gate"} THEN "failed" ELSE why
  <2>1. reason \in Reasons /\ Removed(p, reason) /\ life' = life
    BY <1>4, ForgeAssumption DEF Dropped, Drop, Causes, Reasons
  <2>2. \A q \in Whole' : q \in Whole /\ Timeouts(timeline[q]) <= Timeouts(timeline'[q])
    BY <1>0, <2>1, RemovalsKeepCounts
  <2>3. CASE why = "timeout"
    <3> DEFINE n == Timeouts(timeline'[p])
               j == Run("guard", p, "timeout", n)
    <3>1. n \in Nat  BY TimeoutsTyped
    <3>2. CountOK(j, Whole', timeline')  BY <3>1 DEF CountOK, Run
    <3>3. job' = job \/ Starts(j)  BY <1>4, <2>3 DEF Dropped, Dequeued
    <3> HIDE DEF j
    <3>4. \A r \in Runs : job'[r] = job[r] \/ CountOK(job'[r], Whole', timeline')
      BY <3>2, <3>3, OneRunMoves
    <3> QED  BY <2>2, <3>4, CapApart
  <2>4. CASE why # "timeout"
    <3>1. \A r \in Runs : job'[r] = job[r] \/ CountOK(job'[r], Whole', timeline')
      BY <1>4, <2>4, EventCounted DEF Dropped
    <3> QED  BY <2>2, <3>1, CapApart
  <2> QED  BY <2>3, <2>4
<1>5. CASE LanePass
  <2>1. CASE (StartPass \/ \E p \in PRs : Decide(p)) /\ UNCHANGED workflow
    BY <2>1, <1>a DEF StartPass, Decide, forge, workflow
  <2>2. CASE Armed \/ Updated
    <3>1. write.pr \in PRs
      BY <2>2, WriteTyped DEF TypeOK, Armed, Updated, AddLabel, UpdateBranch, NoWrite
    <3>2. CASE Armed
      <4>1. UNCHANGED <<life, timeline, lost>> /\ (job' = job \/ Labeled(write.pr))
        BY <3>2 DEF Armed, AddLabel
      <4> QED  BY <3>1, <4>1, <1>a, EventCounted, SameCounts
    <3>3. CASE Updated
      <4>1. job' = job \/ Synchronized(write.pr)  BY <3>3 DEF Updated
      <4>2. CASE write.pr \in Open /\ write.pr \in queue
        <5>1. Removed(write.pr, "other") /\ life' = life
          BY <3>3, <4>2 DEF Updated, UpdateBranch, NewHead
        <5>2. \A q \in Whole' : q \in Whole /\ Timeouts(timeline[q]) <= Timeouts(timeline'[q])
          BY <1>0, <3>1, <5>1, RemovalsKeepCounts DEF Reasons
        <5>3. \A r \in Runs : job'[r] = job[r] \/ CountOK(job'[r], Whole', timeline')
          BY <3>1, <4>1, EventCounted
        <5> QED  BY <5>2, <5>3, CapApart
      <4>3. CASE ~(write.pr \in Open /\ write.pr \in queue)
        <5>1. UNCHANGED <<life, timeline, lost>>
          BY <3>3, <4>3 DEF Updated, UpdateBranch, NewHead, forge
        <5> QED  BY <3>1, <4>1, <5>1, <1>a, EventCounted, SameCounts
      <4> QED  BY <4>2, <4>3
    <3> QED  BY <2>2, <3>2, <3>3
  <2> QED  BY <1>5, <2>1, <2>2 DEF LanePass
<1>6. CASE (\E r \in Runs : Visit(r)) /\ UNCHANGED lane
  BY <1>6, VisitTyped, VisitCounted, SameCounts
<1>7. CASE Scanning  BY <1>7, <1>a, ScanningTyped
<1>8. CASE UNCHANGED vars  BY <1>8, <1>a DEF vars, forge, workflow
<1> QED  BY <1>1, <1>2, <1>3, <1>4, <1>5, <1>6, <1>7, <1>8 DEF Next

\* A run that re-queues was started by one of the removals below the cap, for
\* any number of runs under way and whatever they overtake, unless a timeout of
\* its pull request is older than what a read of the timeline returns.
THEOREM CapBoundsRequeues == Spec => []RequeuesCapped
<1>1. CapInv => RequeuesCapped  BY DEF CapInv, CountOK, RequeuesCapped, Whole
<1> QED  BY <1>1, TypeInit, TypeStep, WayInit, LaneStep, CapInit, CapStep, PTL DEF Spec
=============================================================================
