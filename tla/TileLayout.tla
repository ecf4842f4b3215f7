----------------------------- MODULE TileLayout -----------------------------
(***************************************************************************)
(* Which objects a tree is stored in (src/api/paths.rs) and what the tree  *)
(* builder of src/merkle/integrate.rs reads from and writes to them.       *)
(*                                                                         *)
(* Hashes are represented by the leaves they commit to. The content of a   *)
(* hash tile is the function from the leaves under its bottom row to their *)
(* entries: the rows above are functions of the bottom row, and a tile on  *)
(* level l has in its bottom row the roots of subtrees of W^l leaves. A    *)
(* storage is a function from paths to contents. Module TileTree has the   *)
(* hashes themselves.                                                      *)
(***************************************************************************)
EXTENDS Integers

CONSTANTS
    W,            \* TILE_WIDTH = ENTRY_BUNDLE_WIDTH
    MaxSize,      \* bound on the log
    Zero          \* the all-zero hash that pads a tile

ASSUME TileLayoutAssumption == W \in Nat /\ W > 1 /\ MaxSize \in Nat

\* What the proofs use of exponentiation, of which the prover knows nothing.
ASSUME PowerAssumption ==
    /\ W^0 = 1
    /\ \A l \in 0 .. MaxSize : W^l \in Nat \ {0} /\ W^(l + 1) = W * W^l

Empty == [x \in {} |-> x]

\* f extended, and where both are defined overridden, by g.
Extend(f, g) == [x \in DOMAIN f \cup DOMAIN g |-> IF x \in DOMAIN g THEN g[x] ELSE f[x]]

Smaller(m, n) == IF m < n THEN m ELSE n

\* Complete subtrees of W^l leaves in a tree of n leaves.
SizeAt(l, n) == n \div W^l

\* partial_tile_size: width of a tile in a tree of n leaves, 0 when it is full.
PartialTileSize(l, i, n) == IF i < SizeAt(l, n) \div W THEN 0 ELSE SizeAt(l, n) % W

\* tile_path and entries_path: what names a stored object.
TilePath(l, i, p) == [kind |-> "tile", level |-> l, index |-> i, partial |-> p]
EntriesPath(i, p) == [kind |-> "entries", level |-> 0, index |-> i, partial |-> p]

\* Where the tile (or bundle) that covers part of a tree of n leaves is stored.
\* Mutant: the ".p/" suffix of a partial tile is dropped.
TileWithoutSuffix(l, i, n) == TilePath(l, i, 0)
TileOf(l, i, n)   == TilePath(l, i, PartialTileSize(l, i, n))
EntriesOf(i, n)   == EntriesPath(i, PartialTileSize(0, i, n))

\* The leaves under the bottom row of that tile.
Covered(l, i, n) == i * W^(l + 1) .. Smaller((i + 1) * W^(l + 1), SizeAt(l, n) * W^l) - 1

Levels == {l \in 0 .. MaxSize : W^l <= MaxSize}

\* The tiles of a tree of n leaves that hold a subtree completed after from
\* leaves, <<level, index>>: what the TreeBuilder's tile cache collects.
TouchedTiles(m, n) ==
    {t \in Levels \X (0 .. MaxSize) :
        /\ SizeAt(t[1], m) < SizeAt(t[1], n)
        /\ SizeAt(t[1], m) \div W <= t[2]
        /\ t[2] <= (SizeAt(t[1], n) - 1) \div W}

TouchedBundles(m, n) == {i \in 0 .. MaxSize : m \div W <= i /\ i <= (n - 1) \div W}

\* Does storage hold the level-0 tiles of a tree of n leaves, with every leaf?
LeavesReadable(store, n) ==
    \A k \in 0 .. n - 1 :
        /\ TileOf(0, k \div W, n) \in DOMAIN store
        /\ k \in DOMAIN store[TileOf(0, k \div W, n)]

\* load_compact_range: every subtree hash is recomputed from the level-0 tiles.
LoadedLeaves(store, n) == [k \in 0 .. n - 1 |-> store[TileOf(0, k \div W, n)][k]]

\* Mutant: a tile is always started afresh.
NoPreviousTile(store, l, i, m) == Empty

\* TreeBuilder::finalize: the previous tile, if the old tree had it and storage
\* still does; an unreadable one is replaced by an empty tile.
PreviousTile(store, l, i, m) ==
    IF i * W < SizeAt(l, m) /\ TileOf(l, i, m) \in DOMAIN store
    THEN store[TileOf(l, i, m)] ELSE Empty

\* The tile with the subtrees completed since size m filled in from the leaves;
\* the others come from the previous tile, or are padding if it lacks them.
NewTile(store, l, i, m, n, leaves) ==
    [k \in Covered(l, i, n) |->
        IF k >= SizeAt(l, m) * W^l THEN leaves[k]
        ELSE IF k \in DOMAIN PreviousTile(store, l, i, m) THEN PreviousTile(store, l, i, m)[k]
        ELSE Zero]

\* The tiles of a tree of n leaves.
TilesOf(n) ==
    {t \in Levels \X (0 .. MaxSize) : t[2] * W < SizeAt(t[1], n)}

\* The storage holds every tile and entry bundle of the tree of the first n
\* entries of a log, whole, under the paths that size implies, and with the right
\* content.
TreeServed(store, n, log) ==
    /\ \A t \in TilesOf(n) :
        /\ TileOf(t[1], t[2], n) \in DOMAIN store
        /\ store[TileOf(t[1], t[2], n)] = [k \in Covered(t[1], t[2], n) |-> log[k]]
    /\ \A i \in {j \in 0 .. MaxSize : j * W < n} :
        /\ EntriesOf(i, n) \in DOMAIN store
        /\ store[EntriesOf(i, n)] = [k \in Covered(0, i, n) |-> log[k]]
=============================================================================
