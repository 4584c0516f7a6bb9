------------------------------ MODULE TileTree ------------------------------
(***************************************************************************)
(* The tile levels the registry lineage publisher leaves on disk as its    *)
(* log grows (computeLevels and levelTileFiles of                          *)
(* scripts/gen-registry-lineage.mjs), and what a reader of the tlog-tiles  *)
(* layout makes of them: the root, from the newest tile of each level      *)
(* alone.  Files are written whole here; LineageLog has the crashes.       *)
(***************************************************************************)
EXTENDS Merkle

CONSTANTS
    Widths,     \* the tile widths tried for TILE_WIDTH (256 in the code)
    MaxEntries, \* BOUND: the longest log
    MaxBatch    \* BOUND: entries one run of the publisher adds

\* TILE_WIDTH is 2^8; the tiles are subtrees only because it is a power of two.
ASSUME TileWidths == \A w \in Widths : w \in Nat /\ \E e \in 1..w : w = Pow2[e]

VARIABLES
    width,  \* the tile width in force
    sizes,  \* the sizes at which a checkpoint was published
    disk    \* tile files: [level, N, len] -> hashes, len = width for a full tile

tileVars == <<width, sizes, disk>>

\* Mutant: a trailing group that is not full is hashed upwards as well.
LevelAboveWithRemainder(cur, w) ==
    [i \in 1..((Len(cur) + w - 1) \div w) |->
        Mth(cur, (i - 1) * w,
            IF i * w <= Len(cur) THEN i * w ELSE Len(cur))]

\* One level above cur: the full groups of w cells, a remainder left out.
LevelAbove(cur, w) ==
    [i \in 1..(Len(cur) \div w) |-> Mth(cur, (i - 1) * w, i * w)]

LevelsOver(list, w) ==
    LET level[k \in Nat] == IF k = 0 THEN list ELSE LevelAbove(level[k - 1], w)
    IN level

\* Up to the first level that has not enough cells for a tile.
ComputeLevels(cur, w) ==
    LET level == LevelsOver(cur, w)
        top == CHOOSE k \in 0..Len(cur) :
                  Len(level[k]) < w /\ \A i \in 0..(k - 1) : Len(level[i]) >= w
    IN [k \in 1..(top + 1) |-> level[k - 1]]

\* The entries in the log.
Count == IF sizes = {} THEN 0 ELSE CHOOSE n \in sizes : \A m \in sizes : m <= n

\* tileGroups(count): the full groups and at most one partial one.
TileGroups(count) ==
    {[N |-> n, len |-> width] : n \in 0..(count \div width - 1)}
      \cup IF count % width = 0 THEN {}
           ELSE {[N |-> count \div width, len |-> count % width]}

LevelTileFiles(levels) ==
    LET paths == UNION {{[level |-> k - 1, N |-> g.N, len |-> g.len]
                            : g \in TileGroups(Len(levels[k]))} : k \in DOMAIN levels}
    IN [p \in paths |-> SubSeq(levels[p.level + 1], p.N * width + 1, p.N * width + p.len)]

Files(n) == LevelTileFiles(ComputeLevels(Leaves(n), width))

TilesInit ==
    /\ width \in Widths
    /\ sizes = {}
    /\ disk = Files(0)

\* One run of the publisher: every tile of the new tree is written over the old
\* ones; partial tiles of earlier sizes are never pruned.
Publish ==
    \E n \in (Count + 1)..(Count + MaxBatch) :
       /\ n <= MaxEntries
       /\ sizes' = sizes \cup {n}
       /\ disk' = [p \in DOMAIN disk \cup DOMAIN Files(n) |->
                      IF p \in DOMAIN Files(n) THEN Files(n)[p] ELSE disk[p]]
       /\ UNCHANGED width

TilesNext == Publish

TilesSpec == TilesInit /\ [][TilesNext]_tileVars

-----------------------------------------------------------------------------
\* The whole cells of each level of a log of n entries.
Cells(n) ==
    LET cells[k \in Nat] == IF k = 0 THEN n ELSE cells[k - 1] \div width
    IN cells

\* The file of those of level k that do not fill a tile.
EdgeTile(n, k) ==
    [level |-> k, N |-> Cells(n)[k] \div width, len |-> Cells(n)[k] % width]
Edge(n, k) == IF Cells(n)[k] % width = 0 THEN <<>> ELSE disk[EdgeTile(n, k)]

\* What of the tree of n entries a reader finds to the right of level k's cells:
\* nothing, or the root of the partial tile below with what is right of that.
RightOf(n) ==
    LET right[k \in Nat] ==
            IF k = 0 THEN <<>>
            ELSE LET list == Edge(n, k - 1) \o right[k - 1]
                 IN IF list = <<>> THEN <<>> ELSE <<Root(list)>>
    IN right

\* From the files on disk a reader gets, for the newest and every earlier size
\* published, the root its checkpoint signed, out of one partial tile a level (at
\* level n nothing but the root is left): the cells computeLevels hashes upwards are
\* subtrees of the signed tree, and stay so however the log grows.
RootFromTiles ==
    \A n \in sizes :
       /\ \A k \in 0..n : Cells(n)[k] % width # 0 => EdgeTile(n, k) \in DOMAIN disk
       /\ RightOf(n)[n] = <<Root(Leaves(n))>>
=============================================================================
