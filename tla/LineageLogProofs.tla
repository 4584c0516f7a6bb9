-------------------------- MODULE LineageLogProofs --------------------------
(***************************************************************************)
(* What LineageLog promises for every value of its constants: types, the   *)
(* log never forks and only grows, a run that ends well leaves a log that  *)
(* checks, and the anchor record names a published checkpoint, all of it   *)
(* even when a dying run truncates files; and, when a dying run leaves     *)
(* only whole files, every checkpoint ever published stays verifiable from *)
(* the files on disk, and a registered anchor stays registered.            *)
(***************************************************************************)
EXTENDS LineageLog, TLAPS

(***************************************************************************)
(* Sequences and tiles                                                     *)
(***************************************************************************)

\* A record file is a sequence of records.
LEMMA HistorySeq ==
    ASSUME NEW s \in Histories
    PROVE  s \in Seq(Records) /\ Len(s) \in Nat /\ DOMAIN s = 1..Len(s)
  BY LineageAssumption DEF Histories

\* Extending is reflexive and transitive, as being append-only has to be.
LEMMA ExtendsRefl ==
    ASSUME NEW s \in Histories
    PROVE  Extends(s, s)
  BY HistorySeq DEF Extends

LEMMA ExtendsTrans ==
    ASSUME NEW r \in Histories, NEW s \in Histories, NEW t \in Histories,
           Extends(t, s), Extends(s, r)
    PROVE  Extends(t, r)
  BY HistorySeq DEF Extends

\* A file of the tree s lies inside s: tileGroups never reads past the end.
LEMMA TileInside ==
    ASSUME NEW s \in Histories, NEW k \in Kinds, NEW f \in TileGroups(k, Len(s))
    PROVE  /\ f \in Files
           /\ FirstLeaf(f) \in Nat \ {0}
           /\ LastLeaf(f) \in Nat
           /\ LastLeaf(f) <= Len(s)
  <1>1. f \in Files /\ LastLeaf(f) <= Len(s)
    BY DEF TileGroups
  <1>2. f.n \in Nat /\ f.len \in Nat /\ W \in Nat /\ Span[f.kind] \in Nat
    BY <1>1, LineageAssumption DEF Files
  <1>3. f.n * W \in Nat /\ (f.n * W) * Span[f.kind] \in Nat
    BY <1>2
  <1>4. f.n * W + f.len \in Nat
    BY <1>2, <1>3
  <1>5. (f.n * W + f.len) * Span[f.kind] \in Nat
    BY <1>2, <1>4
  <1>6. QED
    BY <1>1, <1>3, <1>5 DEF FirstLeaf, LastLeaf

\* A file the trees of s and of an extension t both have holds the same bytes
\* in both: the reason a tile, once published, is never published differently.
LEMMA SameContent ==
    ASSUME NEW s \in Histories, NEW t \in Histories, Extends(t, s),
           NEW k \in Kinds, NEW f \in TileGroups(k, Len(s))
    PROVE  Content(f, t) = Content(f, s)
  <1>1. /\ FirstLeaf(f) \in Nat \ {0}
        /\ LastLeaf(f) \in Nat
        /\ LastLeaf(f) <= Len(s)
    BY TileInside
  <1>2. /\ s \in Seq(Records) /\ t \in Seq(Records)
        /\ Len(s) \in Nat /\ Len(t) \in Nat
    BY HistorySeq
  <1>3. /\ Len(s) <= Len(t)
        /\ \A i \in 1..Len(s) : t[i] = s[i]
    BY DEF Extends
  <1> DEFINE a == FirstLeaf(f)
             b == LastLeaf(f)
  <1> HIDE DEF a, b
  <1>4. /\ a \in Nat \ {0} /\ b \in Nat /\ b <= Len(s)
    BY <1>1 DEF a, b
  <1>5. SubSeq(t, a, b) = SubSeq(s, a, b)
    BY <1>2, <1>3, <1>4
  <1>6. QED
    BY <1>5 DEF Content, a, b

LEMMA ContentType ==
    ASSUME NEW s \in Histories, NEW f \in TreeFiles(s)
    PROVE  f \in Files /\ Content(f, s) \in Seq(Records)
  <1>1. PICK k \in Kinds : f \in TileGroups(k, Len(s))
    BY DEF TreeFiles
  <1>2. /\ f \in Files
        /\ FirstLeaf(f) \in Nat \ {0}
        /\ LastLeaf(f) \in Nat
        /\ LastLeaf(f) <= Len(s)
    BY <1>1, TileInside
  <1>3. s \in Seq(Records) /\ Len(s) \in Nat
    BY HistorySeq
  <1> DEFINE a == FirstLeaf(f)
             b == LastLeaf(f)
  <1> HIDE DEF a, b
  <1>4. SubSeq(s, a, b) \in Seq(Records)
    BY <1>2, <1>3 DEF a, b
  <1>5. QED
    BY <1>2, <1>4 DEF Content, a, b

LEMMA EmptyTree ==
    /\ << >> \in Histories
    /\ NoPlan \in [tree: Histories, anchor: AnchorRecord \cup {NoFile}]
  <1>1. << >> \in [1..0 -> Records]
    OBVIOUS
  <1>2. << >> \in Histories
    BY <1>1, LineageAssumption DEF Histories
  <1>3. QED
    BY <1>2 DEF NoPlan

\* The two marks are not record files.
LEMMA MarksAreNotTrees == NoFile \notin Histories /\ Torn \notin Histories
  BY HistorySeq, LineageAssumption

-----------------------------------------------------------------------------
(***************************************************************************)
(* The inductive invariant.  NeverForks alone is not inductive: a run      *)
(* publishes what it planned, so the plan must extend the checkpoint that  *)
(* is on disk, and that checkpoint everything published before it.         *)
(***************************************************************************)
PlanExtends ==
    pc # "idle" =>
        /\ checkpoint # Torn
        /\ checkpoint # NoFile => Extends(plan.tree, checkpoint)

HeadIsNewest ==
    /\ checkpoint = NoFile => published = {}
    /\ Readable => \A s \in published : Extends(checkpoint, s)

IInv == TypeOK /\ PlanExtends /\ HeadIsNewest /\ NeverForks

\* Type correctness of a step: the run's plan and files stay what they are.
LEMMA TypeStep == TypeOK /\ [Next]_vars => TypeOK'
  <1> SUFFICES ASSUME TypeOK, [Next]_vars
               PROVE  TypeOK'
    OBVIOUS
  <1> USE MarksAreNotTrees, EmptyTree
  <1>1. ASSUME NEW s \in Histories, EditRecords(s)
        PROVE  TypeOK'
    BY <1>1 DEF EditRecords, TypeOK
  <1>2. CASE StartRun
    BY <1>2 DEF StartRun, TypeOK, NoPlan
  <1>3. CASE SubmitAccepted
    <2>1. [kind |-> "anchored", of |-> plan.tree] \in AnchorRecord
      BY HistorySeq DEF TypeOK, AnchorRecord
    <2>2. QED
      BY <1>3, <2>1 DEF SubmitAccepted, ReadyToWrite, TypeOK
  <1>4. CASE KeysAbsent
    <2>1. [kind |-> "pending", of |-> plan.tree] \in AnchorRecord
      BY HistorySeq DEF TypeOK, AnchorRecord
    <2>2. FullyFormedAnchor => anchor \in AnchorRecord
      BY DEF FullyFormedAnchor, TypeOK
    <2>3. QED
      BY <1>4, <2>1, <2>2 DEF KeysAbsent, ReadyToWrite, TypeOK
  <1>5. CASE SubmitFailed
    BY <1>5 DEF SubmitFailed, EndRun, TypeOK
  <1>6. ASSUME NEW f \in Files, WriteTile(f)
        PROVE  TypeOK'
    <2>1. f \in TreeFiles(plan.tree) /\ plan.tree \in Histories
      BY <1>6 DEF WriteTile, TypeOK
    <2>2. Content(f, plan.tree) \in Seq(Records)
      BY <2>1, ContentType
    <2>3. QED
      BY <1>6, <2>2 DEF WriteTile, TypeOK
  <1>7. CASE WriteCheckpoint
    BY <1>7 DEF WriteCheckpoint, TypeOK
  <1>8. CASE WriteAnchor
    BY <1>8 DEF WriteAnchor, EndRun, TypeOK
  <1>9. CASE Crash
    <2>1. /\ disk' \in [Files -> Seq(Records) \cup {NoFile, Torn}]
          /\ checkpoint' \in Histories \cup {NoFile, Torn}
          /\ anchor' \in AnchorRecord \cup {NoFile, Torn}
      BY <1>9 DEF Crash, HalfWritten, TypeOK
    <2>2. crashes' \in 0..MaxCrashes
      BY <1>9, LineageAssumption DEF Crash, TypeOK
    <2>3. QED
      BY <1>9, <2>1, <2>2 DEF Crash, EndRun, TypeOK
  <1>10. CASE DeskStamp
    <2>1. checkpoint \in Seq(Records)
      BY <1>10, HistorySeq DEF DeskStamp, Readable, TypeOK
    <2>2. [kind |-> "anchored", of |-> checkpoint] \in AnchorRecord
      BY <2>1 DEF AnchorRecord
    <2>3. QED
      BY <1>10, <2>2 DEF DeskStamp, TypeOK
  <1>11. CASE UNCHANGED vars
    BY <1>11 DEF vars, TypeOK
  <1>12. QED
    BY <1>1, <1>2, <1>3, <1>4, <1>5, <1>6, <1>7, <1>8, <1>9, <1>10, <1>11 DEF Next

LEMMA InitIInv == Init => IInv
  <1> SUFFICES ASSUME Init
               PROVE  IInv
    OBVIOUS
  <1>1. TypeOK
    BY EmptyTree, LineageAssumption DEF Init, TypeOK
  <1>2. PlanExtends /\ HeadIsNewest /\ NeverForks
    BY DEF Init, PlanExtends, HeadIsNewest, NeverForks, Readable
  <1>3. QED
    BY <1>1, <1>2 DEF IInv

\* A step keeps the plan an extension of the head, the head an extension of
\* the past, and the past a chain.
LEMMA ChainStep == IInv /\ [Next]_vars => (PlanExtends /\ HeadIsNewest /\ NeverForks)'
  <1> SUFFICES ASSUME IInv, [Next]_vars
               PROVE  (PlanExtends /\ HeadIsNewest /\ NeverForks)'
    OBVIOUS
  <1> USE DEF IInv
  <1>1. ASSUME UNCHANGED <<checkpoint, published>>
        PROVE  (HeadIsNewest /\ NeverForks)'
    BY <1>1 DEF HeadIsNewest, NeverForks, Readable
  <1>2. ASSUME NEW s \in Histories, EditRecords(s)
        PROVE  (PlanExtends /\ HeadIsNewest /\ NeverForks)'
    BY <1>1, <1>2 DEF EditRecords, PlanExtends
  <1>3. CASE StartRun
    BY <1>1, <1>3 DEF StartRun, ConsistencyGate, PlanExtends, NoPlan
  <1>4. CASE SubmitAccepted \/ KeysAbsent
    <2>1. plan'.tree = plan.tree /\ pc = "anchoring"
      BY <1>4 DEF SubmitAccepted, KeysAbsent, ReadyToWrite, TypeOK
    <2>2. QED
      BY <1>1, <1>4, <2>1 DEF SubmitAccepted, KeysAbsent, ReadyToWrite, PlanExtends
  <1>5. CASE SubmitFailed \/ WriteAnchor
    BY <1>1, <1>5 DEF SubmitFailed, WriteAnchor, EndRun, PlanExtends
  <1>6. ASSUME NEW f \in Files, WriteTile(f)
        PROVE  (PlanExtends /\ HeadIsNewest /\ NeverForks)'
    BY <1>1, <1>6 DEF WriteTile, PlanExtends
  <1>7. CASE WriteCheckpoint
    <2>1. plan.tree \in Histories /\ published \subseteq Histories
      BY DEF TypeOK
    <2>2. \A s \in published : Extends(plan.tree, s)
      <3>1. CASE checkpoint = NoFile
        BY <3>1 DEF HeadIsNewest
      <3>2. CASE checkpoint # NoFile
        <4>1. Readable /\ checkpoint \in Histories /\ Extends(plan.tree, checkpoint)
          BY <1>7, <3>2 DEF WriteCheckpoint, PlanExtends, Readable, TypeOK
        <4>2. QED
          BY <2>1, <4>1, ExtendsTrans DEF HeadIsNewest
      <3>3. QED
        BY <3>1, <3>2
    <2>3. \A s \in published' : Extends(plan.tree, s)
      BY <1>7, <2>1, <2>2, ExtendsRefl DEF WriteCheckpoint
    <2>4. HeadIsNewest'
      BY <1>7, <2>1, <2>3, MarksAreNotTrees DEF WriteCheckpoint, HeadIsNewest
    <2>5. NeverForks'
      BY <1>7, <2>3 DEF WriteCheckpoint, NeverForks
    <2>6. PlanExtends'
      BY <1>7, <2>1, ExtendsRefl, MarksAreNotTrees DEF WriteCheckpoint, PlanExtends
    <2>7. QED
      BY <2>4, <2>5, <2>6
  <1>8. CASE Crash
    <2>1. /\ pc' = "idle"
          /\ published' = published
          /\ checkpoint' = checkpoint \/ checkpoint' = Torn
      BY <1>8 DEF Crash, EndRun, HalfWritten
    <2>2. HeadIsNewest'
      BY <2>1, LineageAssumption DEF HeadIsNewest, Readable
    <2>3. QED
      BY <2>1, <2>2 DEF PlanExtends, NeverForks
  <1>9. CASE DeskStamp
    BY <1>1, <1>9 DEF DeskStamp, PlanExtends
  <1>10. CASE UNCHANGED vars
    BY <1>1, <1>10 DEF vars, PlanExtends
  <1>11. QED
    BY <1>2, <1>3, <1>4, <1>5, <1>6, <1>7, <1>8, <1>9, <1>10 DEF Next

\* Type correctness, for every instance of the publisher.
THEOREM TypeCorrect == Spec => []TypeOK
  <1>1. Init => TypeOK
    BY InitIInv DEF IInv
  <1>2. QED
    BY <1>1, TypeStep, PTL DEF Spec

LEMMA Inductive == Spec => []IInv
  <1>1. IInv /\ [Next]_vars => IInv'
    BY TypeStep, ChainStep DEF IInv
  <1>2. QED
    BY <1>1, InitIInv, PTL DEF Spec

\* The log never forks (gen-registry-lineage 430-480), whatever the operator
\* does to the record file and wherever a run dies, truncated files included.
THEOREM LogNeverForks == Spec => []NeverForks
  BY Inductive, PTL DEF IInv

\* A published checkpoint is only ever replaced by an extension of itself.
THEOREM LogAppendOnly == Spec => AppendOnly
  <1>1. IInv /\ [Next]_vars
            => [Readable /\ Readable' => Extends(checkpoint', checkpoint)]_checkpoint
    <2> SUFFICES ASSUME IInv, [Next]_vars, checkpoint' # checkpoint, Readable, Readable'
                 PROVE  Extends(checkpoint', checkpoint)
      OBVIOUS
    <2>1. checkpoint' # Torn
      BY DEF Readable
    <2>2. WriteCheckpoint
      BY <2>1 DEF Next, vars, EditRecords, StartRun, SubmitAccepted, KeysAbsent,
                  ReadyToWrite, SubmitFailed, WriteTile, WriteAnchor, Crash,
                  HalfWritten, DeskStamp
    <2>3. QED
      BY <2>2 DEF IInv, PlanExtends, WriteCheckpoint, Readable
  <1>2. QED
    BY <1>1, Inductive, PTL DEF Spec, AppendOnly

-----------------------------------------------------------------------------
(***************************************************************************)
(* Every checkpoint verifies.  The strengthening: what a run has written   *)
(* so far is the content of its tree, so that the checkpoint it writes     *)
(* last finds all of its files in place.                                   *)
(***************************************************************************)
WrittenSoFar ==
    /\ pc = "anchoring" => todo = TreeFiles(plan.tree)
    /\ pc = "writing" =>
           \A k \in Kinds : \A f \in TileGroups(k, Len(plan.tree)) :
               f \in todo \/ disk[f] = Content(f, plan.tree)

\* Writing a tile of the plan leaves the tiles of every published tree as they were.
LEMMA TileKeepsPublished ==
    ASSUME IInv, EveryCheckpointVerifies, NEW f \in Files, WriteTile(f)
    PROVE  EveryCheckpointVerifies'
  <1> SUFFICES ASSUME NEW s \in published, NEW g \in TreeFiles(s)
               PROVE  Kept(g, s)'
    BY DEF EveryCheckpointVerifies, WriteTile
  <1>1. /\ plan.tree \in Histories /\ s \in Histories
        /\ disk \in [Files -> Seq(Records) \cup {NoFile, Torn}]
    BY DEF IInv, TypeOK
  <1>2. g \in Files
    BY DEF TreeFiles, TileGroups
  <1>3. CASE g # f
    BY <1>1, <1>2, <1>3 DEF WriteTile, EveryCheckpointVerifies, Kept, Content
  <1>4. CASE g = f
    <2>1. checkpoint # NoFile /\ checkpoint # Torn
      BY DEF IInv, HeadIsNewest, PlanExtends, WriteTile
    <2>2. /\ checkpoint \in Histories
          /\ Extends(checkpoint, s)
          /\ Extends(plan.tree, checkpoint)
      BY <2>1 DEF IInv, TypeOK, HeadIsNewest, PlanExtends, Readable, WriteTile
    <2>3. Extends(plan.tree, s)
      BY <1>1, <2>2, ExtendsTrans
    <2>4. Content(g, plan.tree) = Content(g, s)
      BY <1>1, <2>3, SameContent DEF TreeFiles
    <2>5. QED
      BY <1>1, <1>2, <1>4, <2>4 DEF WriteTile, Kept, Content
  <1>5. QED
    BY <1>3, <1>4

\* A run writes its own tree and nothing else, dying or not.
LEMMA WrittenStep == IInv /\ WrittenSoFar /\ [Next]_vars => WrittenSoFar'
  <1> SUFFICES ASSUME IInv, WrittenSoFar, [Next]_vars
               PROVE  WrittenSoFar'
    OBVIOUS
  <1>1. ASSUME NEW s \in Histories, EditRecords(s)
        PROVE  WrittenSoFar'
    BY <1>1 DEF EditRecords, WrittenSoFar
  <1>2. CASE StartRun
    BY <1>2 DEF StartRun, NoPlan, WrittenSoFar
  <1>3. CASE SubmitAccepted \/ KeysAbsent
    <2>1. /\ plan'.tree = plan.tree /\ pc = "anchoring" /\ pc' = "writing"
          /\ UNCHANGED <<disk, todo, published>>
      BY <1>3 DEF SubmitAccepted, KeysAbsent, ReadyToWrite, IInv, TypeOK
    <2>2. \A k \in Kinds : TileGroups(k, Len(plan.tree)) \subseteq todo
      BY <2>1 DEF WrittenSoFar, TreeFiles
    <2>3. QED
      BY <2>1, <2>2 DEF WrittenSoFar
  <1>4. CASE SubmitFailed \/ WriteCheckpoint \/ WriteAnchor \/ Crash
    BY <1>4 DEF SubmitFailed, WriteCheckpoint, WriteAnchor, Crash, EndRun, WrittenSoFar
  <1>5. ASSUME NEW f \in Files, WriteTile(f)
        PROVE  WrittenSoFar'
    <2>1. ASSUME NEW k \in Kinds, NEW g \in TileGroups(k, Len(plan.tree))
          PROVE  g \in todo' \/ disk'[g] = Content(g, plan.tree)
      <3>1. g \in Files /\ disk \in [Files -> Seq(Records) \cup {NoFile, Torn}]
        BY DEF TileGroups, IInv, TypeOK
      <3>2. QED
        BY <1>5, <3>1 DEF WriteTile, WrittenSoFar
    <2>2. pc' = "writing" /\ plan' = plan
      BY <1>5 DEF WriteTile
    <2>3. QED
      BY <2>1, <2>2 DEF WrittenSoFar
  <1>6. CASE DeskStamp \/ UNCHANGED vars
    BY <1>6 DEF DeskStamp, vars, WrittenSoFar
  <1>7. QED
    BY <1>1, <1>2, <1>3, <1>4, <1>5, <1>6 DEF Next

\* All of a run's files are there when it comes to its checkpoint.
LEMMA AllWritten ==
    ASSUME WrittenSoFar, WriteCheckpoint
    PROVE  \A k \in Kinds : Covers(k, plan.tree)
  BY DEF WriteCheckpoint, WrittenSoFar, Covers

LEMMA WrittenInductive == Spec => []WrittenSoFar
  <1>1. Init => WrittenSoFar
    BY DEF Init, WrittenSoFar
  <1>2. QED
    BY <1>1, WrittenStep, Inductive, PTL DEF Spec

\* A dying run truncates at most the file it is in.
LEMMA DyingKeepsPublished ==
    ASSUME IInv, EveryCheckpointVerifies, Crash
    PROVE  EveryCheckpointVerifies'
  <1> SUFFICES ASSUME NEW s \in published, NEW g \in TreeFiles(s)
               PROVE  Kept(g, s)'
    BY DEF EveryCheckpointVerifies, Crash
  <1>1. g \in Files /\ disk \in [Files -> Seq(Records) \cup {NoFile, Torn}]
    BY DEF TreeFiles, TileGroups, IInv, TypeOK
  <1>2. disk' = disk \/ (TornWrites /\ \E f \in todo : disk' = [disk EXCEPT ![f] = Torn])
    BY DEF Crash, HalfWritten
  <1>3. QED
    BY <1>1, <1>2 DEF EveryCheckpointVerifies, Kept, Content

LEMMA FilesStep ==
    IInv /\ WrittenSoFar /\ EveryCheckpointVerifies /\ [Next]_vars
        => EveryCheckpointVerifies'
  <1> SUFFICES ASSUME IInv, WrittenSoFar, EveryCheckpointVerifies, [Next]_vars
               PROVE  EveryCheckpointVerifies'
    OBVIOUS
  <1>1. CASE UNCHANGED <<disk, published>>
    BY <1>1 DEF EveryCheckpointVerifies, Kept, Content
  <1>2. ASSUME NEW f \in Files, WriteTile(f)
        PROVE  EveryCheckpointVerifies'
    BY <1>2, TileKeepsPublished
  <1>3. CASE WriteCheckpoint
    <2>1. \A f \in TreeFiles(plan.tree) : disk[f] = Content(f, plan.tree)
      BY <1>3, AllWritten DEF Covers, TreeFiles
    <2>2. QED
      BY <1>3, <2>1 DEF WriteCheckpoint, EveryCheckpointVerifies, Kept, Content
  <1>4. CASE Crash
    BY <1>4, DyingKeepsPublished
  <1>5. QED
    BY <1>1, <1>2, <1>3, <1>4
       DEF Next, vars, EditRecords, StartRun, SubmitAccepted, KeysAbsent, ReadyToWrite,
           SubmitFailed, WriteAnchor, DeskStamp

\* "No pruning, ever" (gen-registry-lineage 60-64): the files of every checkpoint
\* ever published keep their content, truncation by a dying run apart; where a
\* dying run leaves whole files only (~TornWrites), all of them verify.
THEOREM HistoryVerifies == Spec => []EveryCheckpointVerifies
  <1>1. Init => EveryCheckpointVerifies
    BY DEF Init, EveryCheckpointVerifies
  <1>2. QED
    BY <1>1, Inductive, WrittenInductive, FilesStep, PTL DEF Spec

-----------------------------------------------------------------------------
(***************************************************************************)
(* A run that ends well.  Between its last two writes the log on disk is   *)
(* already the one --check accepts, but for the anchor record.             *)
(***************************************************************************)
CheckedButAnchor ==
    /\ pc \in {"writing", "recording"} => plan.anchor # Torn
    /\ pc = "recording" => Readable /\ \A k \in ReadKinds : Covers(k, checkpoint)

LEMMA CheckedStep == IInv /\ WrittenSoFar /\ CheckedButAnchor /\ [Next]_vars => CheckedButAnchor'
  <1> SUFFICES ASSUME IInv, WrittenSoFar, CheckedButAnchor, [Next]_vars
               PROVE  CheckedButAnchor'
    OBVIOUS
  <1>1. CASE SubmitAccepted \/ KeysAbsent
    <2>1. /\ [kind |-> "anchored", of |-> plan.tree] \in AnchorRecord
          /\ [kind |-> "pending", of |-> plan.tree] \in AnchorRecord
      BY HistorySeq DEF IInv, TypeOK, AnchorRecord
    <2>2. plan'.anchor # Torn
      BY <1>1, <2>1, LineageAssumption
         DEF SubmitAccepted, KeysAbsent, ReadyToWrite, FullyFormedAnchor, IInv, TypeOK
    <2>3. QED
      BY <1>1, <2>2 DEF SubmitAccepted, KeysAbsent, ReadyToWrite, CheckedButAnchor
  <1>2. ASSUME NEW f \in Files, WriteTile(f)
        PROVE  CheckedButAnchor'
    BY <1>2 DEF WriteTile, CheckedButAnchor
  <1>3. CASE WriteCheckpoint
    <2>1. checkpoint' \notin {NoFile, Torn}
      BY <1>3, MarksAreNotTrees DEF WriteCheckpoint, IInv, TypeOK
    <2>2. \A k \in ReadKinds : Covers(k, plan.tree)
      BY <1>3, AllWritten, LineageAssumption
    <2>3. QED
      BY <1>3, <2>1, <2>2 DEF WriteCheckpoint, CheckedButAnchor, Readable, Covers
  <1>4. CASE StartRun \/ SubmitFailed \/ WriteAnchor \/ Crash \/ DeskStamp
    BY <1>4 DEF StartRun, SubmitFailed, WriteAnchor, Crash, DeskStamp, EndRun, CheckedButAnchor
  <1>5. ASSUME NEW s \in Histories, EditRecords(s)
        PROVE  CheckedButAnchor'
    BY <1>5 DEF EditRecords, CheckedButAnchor
  <1>6. CASE UNCHANGED vars
    BY <1>6 DEF vars, CheckedButAnchor, Readable, Covers
  <1>7. QED
    BY <1>1, <1>2, <1>3, <1>4, <1>5, <1>6 DEF Next

\* Whatever truncated or stale files earlier runs left, a run that ends well leaves a
\* log that --check accepts (generate 554-560, check 684-761).
THEOREM CompletedRunsCheck == Spec => CompletedRunChecks
  <1>1. Init => CheckedButAnchor
    BY DEF Init, CheckedButAnchor
  <1>2. IInv /\ CheckedButAnchor /\ [Next]_vars
            => [pc = "recording" /\ crashes' = crashes => CheckPasses']_pc
    <2> SUFFICES ASSUME IInv, CheckedButAnchor, [Next]_vars, pc' # pc,
                        pc = "recording", crashes' = crashes
                 PROVE  CheckPasses'
      OBVIOUS
    <2>1. ~Crash
      BY LineageAssumption DEF Crash, IInv, TypeOK
    <2>2. WriteAnchor
      BY <2>1 DEF Next, vars, EditRecords, StartRun, SubmitAccepted, KeysAbsent, ReadyToWrite,
                  SubmitFailed, WriteTile, WriteCheckpoint, DeskStamp
    <2>3. QED
      BY <2>2 DEF WriteAnchor, CheckedButAnchor, CheckPasses, Readable, Covers
  <1>3. QED
    BY <1>1, <1>2, CheckedStep, Inductive, WrittenInductive, PTL DEF Spec, CompletedRunChecks

-----------------------------------------------------------------------------
(***************************************************************************)
(* The anchor record.  A run decides on it before it writes anything, so   *)
(* both properties are about what the plan carries until the last write.   *)
(***************************************************************************)
AnchorPlanned ==
    /\ pc = "writing" => plan.anchor.of \in published \cup {plan.tree}
    /\ pc = "recording" => plan.anchor.of \in published

HeadIsPublished == Readable => checkpoint \in published

NotDemoting ==
    pc \in {"writing", "recording"} /\ FullyFormedAnchor => plan.anchor.kind = "anchored"

AnchorInv == AnchorPlanned /\ HeadIsPublished /\ AnchorNamesPublished /\ NotDemoting

\* Every step keeps what the run's anchor record names, and its kind.
LEMMA AnchorStep == IInv /\ AnchorInv /\ [Next]_vars => AnchorInv'
  <1> SUFFICES ASSUME IInv, AnchorInv, [Next]_vars
               PROVE  AnchorInv'
    OBVIOUS
  <1> USE DEF AnchorInv, AnchorPlanned, HeadIsPublished, AnchorNamesPublished, NotDemoting,
              FullyFormedAnchor, Readable
  <1>1. TypeOK /\ plan \in [tree: Histories, anchor: AnchorRecord \cup {NoFile}]
    BY DEF IInv, TypeOK
  <1>2. ASSUME NEW rec \in AnchorRecord, pc = "anchoring", ReadyToWrite(rec),
               rec.of \in published \cup {plan.tree},
               FullyFormedAnchor => rec.kind = "anchored"
        PROVE  AnchorInv'
    <2>1. plan'.anchor = rec /\ plan'.tree = plan.tree
      BY <1>1, <1>2 DEF ReadyToWrite
    <2>2. QED
      BY <1>2, <2>1 DEF ReadyToWrite
  <1>3. ASSUME NEW s \in Histories, EditRecords(s)
        PROVE  AnchorInv'
    BY <1>3 DEF EditRecords
  <1>4. CASE StartRun
    BY <1>4 DEF StartRun
  <1>5. CASE SubmitAccepted
    <2>1. [kind |-> "anchored", of |-> plan.tree] \in AnchorRecord
      BY <1>1, HistorySeq DEF AnchorRecord
    <2>2. QED
      BY <1>2, <1>5, <2>1 DEF SubmitAccepted
  <1>6. CASE KeysAbsent
    <2>1. CASE FullyFormedAnchor
      <3>1. anchor \in AnchorRecord
        BY <1>1, <2>1 DEF TypeOK
      <3>2. QED
        BY <1>2, <1>6, <2>1, <3>1 DEF KeysAbsent
    <2>2. CASE ~FullyFormedAnchor
      <3>1. [kind |-> "pending", of |-> plan.tree] \in AnchorRecord
        BY <1>1, HistorySeq DEF AnchorRecord
      <3>2. QED
        BY <1>2, <1>6, <2>2, <3>1 DEF KeysAbsent
    <2>3. QED
      BY <2>1, <2>2
  <1>7. CASE SubmitFailed
    BY <1>7 DEF SubmitFailed, EndRun
  <1>8. ASSUME NEW f \in Files, WriteTile(f)
        PROVE  AnchorInv'
    BY <1>8 DEF WriteTile
  <1>9. CASE WriteCheckpoint
    BY <1>9 DEF WriteCheckpoint
  <1>10. CASE WriteAnchor
    BY <1>10 DEF WriteAnchor, EndRun
  <1>11. CASE Crash
    BY <1>11 DEF Crash, HalfWritten, EndRun
  <1>12. CASE DeskStamp
    BY <1>12 DEF DeskStamp
  <1>13. CASE UNCHANGED vars
    BY <1>13 DEF vars
  <1>14. QED
    BY <1>3, <1>4, <1>5, <1>6, <1>7, <1>8, <1>9, <1>10, <1>11, <1>12, <1>13 DEF Next

LEMMA AnchorInductive == Spec => []AnchorInv
  <1>1. Init => AnchorInv
    BY DEF Init, AnchorInv, AnchorPlanned, HeadIsPublished, AnchorNamesPublished, NotDemoting,
           FullyFormedAnchor, Readable
  <1>2. QED
    BY <1>1, AnchorStep, Inductive, PTL DEF Spec

\* The anchor record on disk never runs ahead of the log, nor names a tree that
\* was planned and never published: it is written last (lines 554-560).
THEOREM AnchorsNamePublished == Spec => []AnchorNamesPublished
  BY AnchorInductive, PTL DEF AnchorInv

\* A registered anchor is only ever replaced by a registered one, keys or no keys,
\* unless a run dies in the file (lines 527-541).
THEOREM AnchorsNotDemoted == Spec => AnchorNeverDemoted
  <1>1. AnchorInv /\ [Next]_vars
            => [FullyFormedAnchor /\ anchor' # Torn => anchor'.kind = "anchored"]_anchor
    <2> SUFFICES ASSUME AnchorInv, [Next]_vars, anchor' # anchor, FullyFormedAnchor,
                        anchor' # Torn
                 PROVE  anchor'.kind = "anchored"
      OBVIOUS
    <2>1. WriteAnchor \/ DeskStamp
      BY DEF Next, vars, EditRecords, StartRun, SubmitAccepted, KeysAbsent, ReadyToWrite,
             SubmitFailed, WriteTile, WriteCheckpoint, Crash, HalfWritten
    <2>2. QED
      BY <2>1 DEF WriteAnchor, DeskStamp, AnchorInv, NotDemoting
  <1>2. QED
    BY <1>1, AnchorInductive, PTL DEF Spec, AnchorNeverDemoted

-----------------------------------------------------------------------------
(***************************************************************************)
(* Refinement.  Every step either signs a tree that extends all trees      *)
(* signed before, or leaves them alone.                                    *)
(***************************************************************************)
\* The tree a run is about to publish strictly extends what was published.
PlanGrows ==
    pc # "idle" =>
        /\ plan.tree # << >>
        /\ checkpoint # NoFile /\ pc # "recording" => Len(checkpoint) < Len(plan.tree)

LEMMA GrowsStep == IInv /\ PlanGrows /\ [Next]_vars => PlanGrows'
  <1> SUFFICES ASSUME IInv, PlanGrows, [Next]_vars
               PROVE  PlanGrows'
    OBVIOUS
  <1>1. CASE StartRun
    <2>1. records # << >>
      BY <1>1, HistorySeq DEF StartRun, ConsistencyGate, IInv, TypeOK
    <2>2. QED
      BY <1>1, <2>1 DEF StartRun, ConsistencyGate, NoPlan, PlanGrows
  <1>2. CASE SubmitAccepted \/ KeysAbsent
    BY <1>2 DEF SubmitAccepted, KeysAbsent, ReadyToWrite, PlanGrows, IInv, TypeOK
  <1>3. ASSUME NEW f \in Files, WriteTile(f)
        PROVE  PlanGrows'
    BY <1>3 DEF WriteTile, PlanGrows
  <1>4. CASE WriteCheckpoint
    BY <1>4 DEF WriteCheckpoint, PlanGrows
  <1>5. CASE SubmitFailed \/ WriteAnchor \/ Crash
    BY <1>5 DEF SubmitFailed, WriteAnchor, Crash, EndRun, PlanGrows
  <1>6. ASSUME NEW s \in Histories, EditRecords(s)
        PROVE  PlanGrows'
    BY <1>6 DEF EditRecords, PlanGrows
  <1>7. CASE DeskStamp \/ UNCHANGED vars
    BY <1>7 DEF DeskStamp, vars, PlanGrows
  <1>8. QED
    BY <1>1, <1>2, <1>3, <1>4, <1>5, <1>6, <1>7 DEF Next

\* The publisher, crashes and truncated files included, implements the append-only
\* log its readers rely on (gate 430-480, writes 554-560).
THEOREM PublisherImplementsLog == Spec => ImplementsLog
  <1>1. Init => Promised!Init
    BY DEF Init, Promised!Init
  <1>2. Init => PlanGrows
    BY DEF Init, PlanGrows
  <1>3. IInv /\ PlanGrows /\ [Next]_vars => [Promised!Next]_published
    <2> SUFFICES ASSUME IInv, PlanGrows, [Next]_vars, published' # published
                 PROVE  Promised!Next
      OBVIOUS
    <2>1. WriteCheckpoint
      BY DEF Next, vars, EditRecords, StartRun, SubmitAccepted, KeysAbsent, ReadyToWrite,
             SubmitFailed, WriteTile, WriteAnchor, Crash, DeskStamp
    <2>2. ASSUME NEW s \in published
          PROVE  Promised!StrictlyExtends(plan.tree, s)
      <3>1. checkpoint # NoFile /\ checkpoint # Torn
        BY <2>1, <2>2 DEF IInv, HeadIsNewest, PlanExtends, WriteCheckpoint
      <3>2. /\ checkpoint \in Histories /\ plan.tree \in Histories /\ s \in Histories
            /\ Extends(checkpoint, s)
            /\ Extends(plan.tree, checkpoint)
            /\ Len(checkpoint) < Len(plan.tree)
        BY <2>1, <2>2, <3>1
           DEF IInv, TypeOK, HeadIsNewest, PlanExtends, PlanGrows, Readable, WriteCheckpoint
      <3>3. Extends(plan.tree, s) /\ Len(s) < Len(plan.tree)
        <4>1. Len(s) \in Nat /\ Len(checkpoint) \in Nat /\ Len(plan.tree) \in Nat
          BY <3>2, HistorySeq
        <4>2. QED
          BY <3>2, <4>1, ExtendsTrans DEF Extends
      <3>4. QED
        BY <3>3 DEF Extends, Promised!StrictlyExtends
    <2>3. Promised!Sign(plan.tree)
      BY <2>1, <2>2 DEF WriteCheckpoint, PlanGrows, Promised!Sign
    <2>4. plan.tree \in published'
      BY <2>1 DEF WriteCheckpoint
    <2>5. QED
      BY <2>3, <2>4 DEF Promised!Next
  <1>4. QED
    BY <1>1, <1>2, <1>3, GrowsStep, Inductive, PTL DEF Spec, ImplementsLog, Promised!Spec
=============================================================================
