----------------------------- MODULE LineageLog -----------------------------
(***************************************************************************)
(* The registry-lineage transparency log: the publisher                    *)
(* scripts/gen-registry-lineage.mjs and the static files it leaves under   *)
(* registry/lineage/.  A run reads the operator's record file, recomputes  *)
(* the published root from the tile bytes on disk, refuses to publish      *)
(* unless the new tree extends the old one, anchors the signed checkpoint  *)
(* with Sigsum (or holds the last anchor when the keys are offline), and   *)
(* only then writes tiles, checkpoint and anchor record, one file after    *)
(* another.  The process can die between any two of those steps.           *)
(*                                                                         *)
(* A Merkle root is represented by the sequence of leaves under it, and a  *)
(* block hash by the leaves of its block: a root determines its leaves as  *)
(* long as SHA-256 does not collide.  TlogConsistency and TileTree check   *)
(* on the trees themselves that the consistency verifier accepts exactly   *)
(* the prefixes, and that block hashes are nodes of the signed tree.       *)
(***************************************************************************)
EXTENDS Integers, Sequences

CONSTANTS
    Records,    \* the values a lineage record may take
    W,          \* TILE_WIDTH
    Kinds,      \* the tile trees on disk: level 0, the higher levels, the entry bundles
    Span,       \* Span[k]: the number of leaves under one cell of a tile of kind k
    MaxSize,    \* BOUND: longest record file
    MaxCrashes, \* BOUND: times a run dies half way
    TornWrites, \* whether a dying run may leave the file it was writing truncated
    NoFile,     \* the content of a path that does not exist
    Torn        \* the content of a truncated file

\* The kinds the program reads back: generate() level 0, check() both.
ReadKinds == {"tile0", "entries"}

Histories == UNION {[1..n -> Records] : n \in 0..MaxSize}

AnchorRecord == [kind: {"pending", "anchored"}, of: Seq(Records)]

ASSUME LineageAssumption ==
    /\ W \in Nat \ {0}
    /\ MaxSize \in Nat
    /\ MaxCrashes \in Nat
    /\ Span \in [Kinds -> Nat \ {0}]
    /\ ReadKinds \subseteq Kinds
    /\ \A k \in ReadKinds : Span[k] = 1
    /\ TornWrites \in BOOLEAN
    /\ NoFile # Torn
    /\ NoFile \notin Seq(Records) \cup AnchorRecord
    /\ Torn \notin Seq(Records) \cup AnchorRecord

VARIABLES
    records,    \* registry-lineage-records.json, edited by hand
    disk,       \* the tile and bundle files
    checkpoint, \* the signed checkpoint: the leaves its root commits to
    anchor,     \* checkpoint.sigsum-record.json
    pc,         \* where the run is
    plan,       \* the in-memory tree and anchor record of the run
    todo,       \* tile files the run has still to write
    crashes,    \* runs that have died so far
    published   \* history: every checkpoint ever written

vars == <<records, disk, checkpoint, anchor, pc, plan, todo, crashes, published>>

(***************************************************************************)
(* Tiling.  A file holds len consecutive cells of its kind, starting at    *)
(* cell n * W.  tileGroups: the full tiles below count, and at most one    *)
(* partial tile, which is never empty.                                     *)
(***************************************************************************)
Files == [kind: Kinds, n: 0..MaxSize, len: 1..W]

FirstLeaf(f) == f.n * W * Span[f.kind] + 1
LastLeaf(f)  == (f.n * W + f.len) * Span[f.kind]

TileGroups(k, size) ==
    {f \in Files :
        /\ f.kind = k
        /\ LastLeaf(f) <= size
        /\ f.len < W => size < LastLeaf(f) + Span[k]}

Content(f, s) == SubSeq(s, FirstLeaf(f), LastLeaf(f))

TreeFiles(s) == UNION {TileGroups(k, Len(s)) : k \in Kinds}

\* Reading size leaves back succeeds, with the bytes the tree s has.
Covers(k, s) == \A f \in TileGroups(k, Len(s)) : disk[f] = Content(f, s)

Extends(t, s) ==
    /\ Len(s) <= Len(t)
    /\ \A i \in 1..Len(s) : t[i] = s[i]

-----------------------------------------------------------------------------
NoPlan == [tree |-> << >>, anchor |-> NoFile]

Init ==
    /\ records = << >>
    /\ disk = [f \in Files |-> NoFile]
    /\ checkpoint = NoFile
    /\ anchor = NoFile
    /\ pc = "idle"
    /\ plan = NoPlan
    /\ todo = {}
    /\ crashes = 0
    /\ published = {}

Readable == checkpoint \notin {NoFile, Torn}

\* Mutant: a checkpoint that does not parse is taken for a log not started yet.
GateRestartsOnTorn(s) ==
    /\ Len(s) > 0
    /\ Readable =>
           /\ Covers("tile0", checkpoint)
           /\ Len(s) > Len(checkpoint)
           /\ Extends(s, checkpoint)

\* Mutant: the gate compares sizes only.
GateBySize(s) ==
    /\ Len(s) > 0
    /\ checkpoint # Torn
    /\ checkpoint # NoFile => Covers("tile0", checkpoint) /\ Len(s) > Len(checkpoint)

\* Mutant: a gate that takes the files a dead run left for a conflict.
GateRefusesLeftovers(s) ==
    /\ Len(s) > 0
    /\ checkpoint # Torn
    /\ \A f \in TreeFiles(s) \ (IF Readable THEN TreeFiles(checkpoint) ELSE {}) :
           disk[f] = NoFile
    /\ checkpoint # NoFile =>
           /\ Covers("tile0", checkpoint)
           /\ Len(s) > Len(checkpoint)
           /\ Extends(s, checkpoint)

\* The checks generate() makes before it anchors: a checkpoint that parses,
\* published tiles that still hash to it, and a strict extension of it.
ConsistencyGate(s) ==
    /\ Len(s) > 0
    /\ checkpoint # Torn
    /\ checkpoint # NoFile =>
           /\ Covers("tile0", checkpoint)
           /\ Len(s) > Len(checkpoint)
           /\ Extends(s, checkpoint)

\* Equal sizes return early: the program compares nothing else.
SkipsAsUnchanged(s) ==
    /\ pc = "idle" /\ Readable
    /\ Covers("tile0", checkpoint)
    /\ Len(s) = Len(checkpoint)

\* The operator edits, appends to or truncates the record file.  A run reads it
\* once, at its start, so an edit made meanwhile has the effect of a later one.
EditRecords(s) ==
    /\ pc = "idle"
    /\ s # records
    /\ records' = s
    /\ UNCHANGED <<disk, checkpoint, anchor, pc, plan, todo, crashes, published>>

\* A run reads its input, passes the gate, builds the tiles and signs.
StartRun ==
    /\ pc = "idle"
    /\ ConsistencyGate(records)
    /\ pc' = "anchoring"
    /\ plan' = [NoPlan EXCEPT !.tree = records]
    /\ todo' = TreeFiles(records)
    /\ UNCHANGED <<records, disk, checkpoint, anchor, crashes, published>>

ReadyToWrite(rec) ==
    /\ pc' = "writing"
    /\ plan' = [plan EXCEPT !.anchor = rec]
    /\ UNCHANGED <<records, disk, checkpoint, anchor, todo, crashes, published>>

\* The Sigsum keys are there and the submission is accepted.
SubmitAccepted ==
    /\ pc = "anchoring"
    /\ ReadyToWrite([kind |-> "anchored", of |-> plan.tree])

FullyFormedAnchor == anchor \notin {NoFile, Torn} /\ anchor.kind = "anchored"

\* Mutant: the publisher before the hold, which always wrote the pending record.
KeysAbsentPending ==
    /\ pc = "anchoring"
    /\ ReadyToWrite([kind |-> "pending", of |-> plan.tree])

\* The keys are offline: hold a real anchor, else record the debt.
KeysAbsent ==
    /\ pc = "anchoring"
    /\ ReadyToWrite(IF FullyFormedAnchor THEN anchor
                    ELSE [kind |-> "pending", of |-> plan.tree])

\* Mutant: a run that ends leaves its list of files behind.
EndRunKeepsTodo ==
    /\ pc' = "idle"
    /\ plan' = NoPlan
    /\ UNCHANGED todo

EndRun ==
    /\ pc' = "idle"
    /\ plan' = NoPlan
    /\ todo' = {}

\* The keys are there and the submission fails: nothing is written.
SubmitFailed ==
    /\ pc = "anchoring"
    /\ EndRun
    /\ UNCHANGED <<records, disk, checkpoint, anchor, crashes, published>>

\* Mutant: a tile replaces the partial tiles it supersedes.
WriteTilePruning(f) ==
    /\ pc = "writing"
    /\ f \in todo
    /\ disk' = [g \in Files |-> IF g = f THEN Content(f, plan.tree)
                             ELSE IF g.kind = f.kind /\ g.n = f.n THEN NoFile
                             ELSE disk[g]]
    /\ todo' = todo \ {f}
    /\ UNCHANGED <<records, checkpoint, anchor, pc, plan, crashes, published>>

\* Mutant: a file that is there already is not written again.
WriteTileIfAbsent(f) ==
    /\ pc = "writing"
    /\ f \in todo
    /\ disk' = IF disk[f] = NoFile THEN [disk EXCEPT ![f] = Content(f, plan.tree)] ELSE disk
    /\ todo' = todo \ {f}
    /\ UNCHANGED <<records, checkpoint, anchor, pc, plan, crashes, published>>

\* The tile files of one run in any order: nothing reads them before the checkpoint.
WriteTile(f) ==
    /\ pc = "writing"
    /\ f \in todo
    /\ disk' = [disk EXCEPT ![f] = Content(f, plan.tree)]
    /\ todo' = todo \ {f}
    /\ UNCHANGED <<records, checkpoint, anchor, pc, plan, crashes, published>>

\* Mutant: the anchor record goes to disk before the checkpoint it names.
AnchorBeforeCheckpoint ==
    /\ pc = "writing"
    /\ todo = {}
    /\ anchor' = plan.anchor
    /\ IF anchor # plan.anchor
       THEN UNCHANGED <<checkpoint, published, pc>>
       ELSE /\ checkpoint' = plan.tree
            /\ published' = published \cup {plan.tree}
            /\ pc' = "recording"
    /\ UNCHANGED <<records, disk, plan, todo, crashes>>

WriteCheckpoint ==
    /\ pc = "writing"
    /\ todo = {}
    /\ checkpoint' = plan.tree
    /\ published' = published \cup {plan.tree}
    /\ pc' = "recording"
    /\ UNCHANGED <<records, disk, anchor, plan, todo, crashes>>

WriteAnchor ==
    /\ pc = "recording"
    /\ anchor' = plan.anchor
    /\ EndRun
    /\ UNCHANGED <<records, disk, checkpoint, crashes, published>>

\* The file the run was writing when it died is whole, absent or truncated.
HalfWritten ==
    \/ UNCHANGED <<disk, checkpoint, anchor>>
    \/ /\ TornWrites
       /\ \/ /\ pc = "writing"
             /\ \E f \in todo : disk' = [disk EXCEPT ![f] = Torn]
             /\ UNCHANGED <<checkpoint, anchor>>
          \/ /\ pc = "writing" /\ todo = {}
             /\ checkpoint' = Torn
             /\ UNCHANGED <<disk, anchor>>
          \/ /\ pc = "recording"
             /\ anchor' = Torn
             /\ UNCHANGED <<disk, checkpoint>>

Crash ==
    /\ pc # "idle"
    /\ crashes < MaxCrashes
    /\ crashes' = crashes + 1
    /\ HalfWritten
    /\ EndRun
    /\ UNCHANGED <<records, published>>

\* The operator desk registers the current checkpoint by hand, once.
DeskStamp ==
    /\ pc = "idle" /\ Readable
    /\ anchor # [kind |-> "anchored", of |-> checkpoint]
    /\ anchor' = [kind |-> "anchored", of |-> checkpoint]
    /\ UNCHANGED <<records, disk, checkpoint, pc, plan, todo, crashes, published>>

Next ==
    \/ \E s \in Histories : EditRecords(s)
    \/ StartRun
    \/ SubmitAccepted
    \/ KeysAbsent
    \/ SubmitFailed
    \/ \E f \in Files : WriteTile(f)
    \/ WriteCheckpoint
    \/ WriteAnchor
    \/ Crash
    \/ DeskStamp

Spec == Init /\ [][Next]_vars

\* The regen workflow runs the publisher after every push, without keys, and
\* the machine finishes what a run starts unless the run dies.
Fairness ==
    /\ WF_vars(StartRun)
    /\ SF_vars(KeysAbsent)
    /\ WF_vars(\E f \in Files : WriteTile(f))
    /\ WF_vars(WriteCheckpoint)
    /\ WF_vars(WriteAnchor)

FairSpec == Spec /\ Fairness

\* What --check accepts: a checkpoint that parses and is signed, over tiles and
\* bundles that hash to its root, and an anchor record that parses, if any.
CheckPasses ==
    /\ Readable
    /\ \A k \in ReadKinds : Covers(k, checkpoint)
    /\ anchor # Torn

\* What the log promises whoever keeps one of its checkpoints: AppendOnlyLog, whose
\* signed trees are the checkpoints ever written, torn ones apart.
Promised == INSTANCE AppendOnlyLog WITH signed <- published

\* The publisher implements it, dying at any step (the gate at 430-480 and the
\* order of the writes at 554-560).
ImplementsLog == Promised!Spec

-----------------------------------------------------------------------------
TypeOK ==
    /\ records \in Histories
    /\ disk \in [Files -> Seq(Records) \cup {NoFile, Torn}]
    /\ checkpoint \in Histories \cup {NoFile, Torn}
    /\ anchor \in AnchorRecord \cup {NoFile, Torn}
    /\ pc \in {"idle", "anchoring", "writing", "recording"}
    /\ plan \in [tree: Histories, anchor: AnchorRecord \cup {NoFile}]
    /\ todo \subseteq TreeFiles(plan.tree)
    /\ crashes \in 0..MaxCrashes
    /\ published \subseteq Histories

Kept(f, s) == disk[f] = Content(f, s) \/ (TornWrites /\ disk[f] = Torn)

\* "No pruning, ever": every checkpoint the log ever published can still be
\* verified from the files on disk, whatever was published after it, whenever
\* a run died and whatever became of the record file (gen-registry-lineage
\* 60-64); at worst a file a run died in is truncated, never gone or another's.
EveryCheckpointVerifies ==
    \A s \in published : \A f \in TreeFiles(s) : Kept(f, s)

\* The log never forks: of two checkpoints it published, one extends the
\* other, even when a run dies in the middle of a file (gate, lines 430-480).
NeverForks ==
    \A s, t \in published : Extends(s, t) \/ Extends(t, s)

\* A run that ends well leaves a log that --check accepts, whatever truncated
\* or stale files earlier runs left: it writes every file of the tree again,
\* the ones the gate never read included (486-487, 555-560; check 684-761).
CompletedRunChecks ==
    [][pc = "recording" /\ crashes' = crashes => CheckPasses']_pc

\* The anchor record on disk names a checkpoint that was published: the
\* record is the last file of a run (lines 554-560).
AnchorNamesPublished ==
    anchor \notin {NoFile, Torn} => anchor.of \in published

\* A published checkpoint is only ever replaced by an extension of it (453-480).
AppendOnly ==
    [][Readable /\ Readable' => Extends(checkpoint', checkpoint)]_checkpoint

\* A run without keys never demotes a real anchor to the pending record
\* (527-541); only a run that dies in the file can lose it.
AnchorNeverDemoted ==
    [][FullyFormedAnchor /\ anchor' # Torn => anchor'.kind = "anchored"]_anchor

\* The published tree reads back, and the record file extends it.
Size == IF Readable THEN Len(checkpoint) ELSE 0
Intact == checkpoint # Torn /\ (Readable => Covers("tile0", checkpoint))
Owed == Intact /\ Len(records) > Size /\ (Readable => Extends(records, checkpoint))

\* A dead run never wedges the log: while the record file extends a published tree
\* that can be read, a new checkpoint is eventually written (no gate the leftovers
\* of a crash keep shut).
KeepsPublishing == Owed ~> (pc = "recording" \/ ~Owed)
=============================================================================
