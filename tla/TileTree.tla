------------------------------ MODULE TileTree ------------------------------
(***************************************************************************)
(* The Merkle tree in its tiles: how integration computes roots and tiles  *)
(* (src/merkle/integrate.rs), and how proofs are generated from the tiles  *)
(* of a committed tree (src/merkle/proof.rs), by the server and by a       *)
(* client that reads the tiles over HTTP (src/client.rs).                  *)
(*                                                                         *)
(* Integration, the module, says which objects a cycle reads and writes    *)
(* and treats their content as the leaves under it; this module is about   *)
(* the hashes, with one worker at a time. Leaf i of the log is HashLeaf(i).*)
(***************************************************************************)
EXTENDS MerkleProof, FiniteSets, FiniteSetsExt, SequencesExt

CONSTANTS
    TileHeight,    \* TILE_HEIGHT: tree levels per tile
    BatchSizes,    \* numbers of entries a cycle may find pending
    MaxSize,       \* bound on the size of the log
    MaxInterrupts, \* bound on the cycles that do not commit
    ForgeSize      \* bound on the trees for which forged proofs are tried

ASSUME TileTreeAssumption ==
    /\ TileHeight \in Nat \ {0}
    /\ BatchSizes \subseteq Nat \ {0}
    /\ MaxSize \in Nat /\ MaxInterrupts \in Nat /\ ForgeSize \in 0 .. MaxSize

VARIABLES
    storage,        \* objects: <<level, index, partial>> -> hashes
    integrated_size,
    root_hash,
    committed,      \* the sizes that were ever committed, all of them servable
    interrupts

vars == <<storage, integrated_size, root_hash, committed, interrupts>>

TileWidth == 2 ^ TileHeight

-----------------------------------------------------------------------------
(* Tiles and their paths                                                    *)

CeilDiv(a, b) == (a + b - 1) \div b

partial_tile_size(level, index, size) ==
    LET n == size \div 2 ^ (level * TileHeight)
    IN IF index < n \div TileWidth THEN 0 ELSE n % TileWidth

Nothing == [nodes |-> <<>>, found |-> FALSE]

\* TileStorage::read_tile.
read_tile(level, index, partial) ==
    LET path == <<level, index, partial>>
    IN IF path \in DOMAIN storage THEN [nodes |-> storage[path], found |-> TRUE] ELSE Nothing

\* LogClient::read_tile: the bottom row only, of a tile that is not too long.
client_read_tile(level, index, partial) ==
    LET tile == read_tile(level, index, partial)
        count == IF partial = 0 THEN TileWidth ELSE partial
    IN IF Len(tile.nodes) \in count .. 2 * TileWidth - 1
       THEN [nodes |-> SubSeq(tile.nodes, 1, count), found |-> TRUE]
       ELSE Nothing

node_to_tile_coords(level, index) ==
    LET width == 2 ^ (TileHeight - (level % TileHeight))
    IN [tile |-> <<level \div TileHeight, index \div width>>,
        node |-> <<level % TileHeight, index % width>>]

-----------------------------------------------------------------------------
(* TreeBuilder: size, range (level -> hash) and tile_cache (tile -> node -> hash) *)

RECURSIVE compute_node_hash(_, _, _)
compute_node_hash(level, index, size) ==
    IF level = 0
    THEN LET at   == node_to_tile_coords(0, index)
             tile == read_tile(at.tile[1], at.tile[2],
                               partial_tile_size(at.tile[1], at.tile[2], size))
         IN IF at.node[2] < Len(tile.nodes) THEN tile.nodes[at.node[2] + 1] ELSE Failed
    ELSE hash_children(compute_node_hash(level - 1, 2 * index, size),
                       compute_node_hash(level - 1, 2 * index + 1, size))

\* compute_range_nodes: the complete subtrees along the right edge, one per bit
\* of the size. The leaves left of one are those of the higher bits.
RangeLevels(size) == {l \in 0 .. BitLength(size) : (size \div 2 ^ l) % 2 = 1}
RangeIndex(size, level) == 2 * (size \div 2 ^ (level + 1))

load_compact_range(size) ==
    [l \in RangeLevels(size) |-> compute_node_hash(l, RangeIndex(size, l), size)]

NewBuilder(size) ==
    [size |-> size, range |-> load_compact_range(size), tile_cache |-> [k \in {} |-> k]]

should_store_node(level, index, size) == (index + 1) * 2 ^ level <= size

With(f, k, v) == [x \in DOMAIN f \cup {k} |-> IF x = k THEN v ELSE f[x]]

set_node(b, level, index, hash) ==
    LET at  == node_to_tile_coords(level, index)
        old == IF at.tile \in DOMAIN b.tile_cache THEN b.tile_cache[at.tile] ELSE [k \in {} |-> k]
    IN [b EXCEPT !.tile_cache = With(@, at.tile, With(old, at.node, hash))]

\* The loop of append: merge with the subtree on the left while there is one.
RECURSIVE Merged(_, _, _, _)
Merged(b, level, index, hash) ==
    IF index % 2 = 1 /\ level \in DOMAIN b.range
    THEN LET h == hash_children(b.range[level], hash)
             c == [b EXCEPT !.range = [l \in DOMAIN @ \ {level} |-> @[l]]]
         IN Merged(IF should_store_node(level + 1, index \div 2, b.size)
                   THEN set_node(c, level + 1, index \div 2, h) ELSE c,
                   level + 1, index \div 2, h)
    ELSE [b EXCEPT !.range = With(@, level, hash)]

append(b, leaf) ==
    Merged(set_node([b EXCEPT !.size = @ + 1], 0, b.size, leaf), 0, b.size, leaf)

\* Mutant: the larger subtree is hashed as the right child.
RootMirrored(range) ==
    FoldLeft(LAMBDA right, l : IF right = ZeroHash THEN range[l] ELSE hash_children(right, range[l]),
             ZeroHash, SetToSortSeq(DOMAIN range, <))

compute_root(range) ==
    FoldLeft(LAMBDA right, l : IF right = ZeroHash THEN range[l] ELSE hash_children(range[l], right),
             ZeroHash, SetToSortSeq(DOMAIN range, <))

\* Mutant: a tile that a larger, uncommitted tree left behind is taken for the
\* previous one.
AnyTileExisted(level, index, from_size) == TRUE
Existed(level, index, from_size) ==
    index < CeilDiv(from_size \div 2 ^ (level * TileHeight), TileWidth)

PreviousTile(level, index, from_size) ==
    IF Existed(level, index, from_size)
    THEN read_tile(level, index, partial_tile_size(level, index, from_size)).nodes
    ELSE <<>>

\* TileMutator::apply_to. Rows follow each other at fixed offsets, each half as
\* wide as the one before; what is not set is zero.
flat_offset(node) == 2 * TileWidth - (2 * TileWidth) \div 2 ^ node[1] + node[2]

apply_to(tile, nodes) ==
    LET last == Max({flat_offset(n) : n \in DOMAIN nodes} \cup {0})
        len  == Max({Len(tile), last + 1})
    IN [o \in 1 .. len |->
            IF \E n \in DOMAIN nodes : flat_offset(n) + 1 = o
            THEN nodes[CHOOSE n \in DOMAIN nodes : flat_offset(n) + 1 = o]
            ELSE IF o <= Len(tile) THEN tile[o] ELSE ZeroHash]

integrate(from_size, leaf_hashes) ==
    LET b == FoldLeft(append, NewBuilder(from_size), leaf_hashes)
    IN [new_size  |-> b.size,
        root_hash |-> compute_root(b.range),
        tiles     |-> [k \in DOMAIN b.tile_cache |->
                          apply_to(PreviousTile(k[1], k[2], from_size), b.tile_cache[k])]]

-----------------------------------------------------------------------------
Init ==
    /\ storage = [p \in {} |-> p]
    /\ integrated_size = 0
    /\ root_hash = EmptyRootHash
    /\ committed = {}
    /\ interrupts = 0

Pending(k) == [i \in 1 .. k |-> HashLeaf(integrated_size + i)]

\* Write the given tiles of a result under the paths for its size.
Written(r, keys) ==
    LET path(k) == <<k[1], k[2], partial_tile_size(k[1], k[2], r.new_size)>>
        new     == {path(k) : k \in keys}
    IN [p \in DOMAIN storage \cup new |->
            IF p \in new THEN r.tiles[<<p[1], p[2]>>] ELSE storage[p]]

\* A cycle of the integration worker. A hash that cannot be read fails integrate.
Cycle(k) ==
    LET r == integrate(integrated_size, Pending(k))
    IN /\ integrated_size + k <= MaxSize
       /\ r.root_hash # Failed
       /\ storage' = Written(r, DOMAIN r.tiles)
       /\ integrated_size' = r.new_size
       /\ root_hash' = r.root_hash
       /\ committed' = committed \cup {r.new_size}
       /\ UNCHANGED interrupts

\* A cycle that ends after some of its tiles were written.
Interrupted(k) ==
    LET r == integrate(integrated_size, Pending(k))
    IN /\ integrated_size + k <= MaxSize
       /\ interrupts < MaxInterrupts
       /\ r.root_hash # Failed
       /\ interrupts' = interrupts + 1
       /\ \E keys \in SUBSET DOMAIN r.tiles : keys # {} /\ storage' = Written(r, keys)
       /\ UNCHANGED <<integrated_size, root_hash, committed>>

\* No batch fits under the bound any more.
Idle ==
    /\ \A k \in BatchSizes : integrated_size + k > MaxSize
    /\ UNCHANGED vars

Next ==
    \/ \E k \in BatchSizes : Cycle(k) \/ Interrupted(k)
    \/ Idle

Spec == Init /\ [][Next]_vars

-----------------------------------------------------------------------------
(* Proof generation. Reader is read_tile or client_read_tile, chosen by     *)
(* `remote'.                                                                *)

Reader(remote, level, index, partial) ==
    IF remote THEN client_read_tile(level, index, partial) ELSE read_tile(level, index, partial)

read_leaf_hash(remote, index, size) ==
    LET start   == (index \div TileWidth) * TileWidth
        partial == IF start + TileWidth > size THEN Min({size - start, TileWidth - 1}) ELSE 0
        tile    == Reader(remote, 0, index \div TileWidth, partial)
    IN IF index % TileWidth < Len(tile.nodes) THEN tile.nodes[(index % TileWidth) + 1] ELSE Failed

\* Halve the row until one hash is left.
RECURSIVE Reduced(_)
Reduced(nodes) ==
    IF Len(nodes) = 1 THEN nodes[1]
    ELSE Reduced([i \in 1 .. Len(nodes) \div 2 |-> hash_children(nodes[2 * i - 1], nodes[2 * i])])

try_read_tile_hash(remote, level, index, size) ==
    LET tile_level   == level \div TileHeight
        width        == 2 ^ (level % TileHeight)
        bottom_index == index * width
        tile_index   == bottom_index \div TileWidth
        offset       == bottom_index % TileWidth
        tile         == Reader(remote, tile_level, tile_index,
                               partial_tile_size(tile_level, tile_index, size))
    IN IF offset + width <= Len(tile.nodes)
       THEN Reduced(SubSeq(tile.nodes, offset + 1, offset + width))
       ELSE Failed

RECURSIVE compute_subtree_hash(_, _, _, _)
compute_subtree_hash(remote, start, end, size) ==
    LET count == end - start
        k     == largest_power_of_2_less_than(count)
    IN CASE count = 0 -> Failed
         [] count = 1 -> read_leaf_hash(remote, start, size)
         [] count > 1 /\ IsPowerOfTwo(count) /\ start % count = 0 ->
                try_read_tile_hash(remote, Log2(count), start \div count, size)
         [] OTHER -> hash_children(compute_subtree_hash(remote, start, start + k, size),
                                   compute_subtree_hash(remote, start + k, end, size))

\* Mutant: the last sibling is not cut off at the end of the tree.
SiblingNotClamped(start, width, size) == start + width
SiblingEnd(start, width, size) == Min({start + width, size})

\* path_siblings: the siblings of the leftmost subtree, from start_level up.
path_siblings(new_size, start_level) ==
    LET levels == {l \in start_level .. BitLength(new_size) : 2 ^ l < new_size}
    IN [i \in 1 .. Cardinality(levels) |->
            LET width == 2 ^ (start_level + i - 1)
            IN compute_subtree_hash(FALSE, width, SiblingEnd(width, width, new_size), new_size)]

\* subproof: the hashes pushed, in order.
RECURSIVE subproof(_, _, _, _, _)
subproof(m, n, base, size, complete) ==
    LET k == largest_power_of_2_less_than(n)
    IN CASE m = n -> IF complete THEN <<>> ELSE <<compute_subtree_hash(FALSE, base, base + m, size)>>
         [] m # n /\ m <= k ->
                Append(subproof(m, k, base, size, complete),
                       compute_subtree_hash(FALSE, base + k, base + n, size))
         [] OTHER ->
                Append(subproof(m - k, n - k, base + k, size, FALSE),
                       compute_subtree_hash(FALSE, base, base + k, size))

generate_consistency_proof_simple(old_size, new_size) ==
    CASE old_size \in {0, new_size} -> <<>>
      [] old_size \notin {0, new_size} /\ IsPowerOfTwo(old_size) ->
            path_siblings(new_size, Log2(old_size))
      [] OTHER -> subproof(old_size, new_size, 0, new_size, TRUE)

\* Mutant: the path is left in the order from the root down.
RootFirst(siblings) == siblings
LeafFirst(siblings) == Reverse(siblings)

\* The siblings on the way from the root down to the leaf, as ranges.
RECURSIVE SiblingRanges(_, _, _)
SiblingRanges(index, start, end) ==
    LET split == start + largest_power_of_2_less_than(end - start)
    IN CASE end - start <= 1 -> <<>>
         [] end - start > 1 /\ index < split ->
                <<<<split, end>>>> \o SiblingRanges(index, start, split)
         [] OTHER -> <<<<start, split>>>> \o SiblingRanges(index, split, end)

generate_inclusion_proof(remote, index, size) ==
    LET siblings == LeafFirst(SiblingRanges(index, 0, size))
    IN [i \in DOMAIN siblings |->
            compute_subtree_hash(remote, siblings[i][1], siblings[i][2], size)]

-----------------------------------------------------------------------------
(* Properties                                                               *)

\* The leaves of the log, and the tree head of its first n.
Leaves(n) == [i \in 1 .. n |-> i]
HeadOf(n) == MTH(Leaves(n))

\* What the tile <<level, index>> holds in the width given: the bottom row, then
\* the complete nodes of each row above at its offset.
TileContent(level, index, width) ==
    LET node(l, j) ==
            LET n == 2 ^ (level * TileHeight + l)
                first == index * 2 ^ ((level + 1) * TileHeight) + j * n
            IN MTH([i \in 1 .. n |-> first + i])
        nodes == {<<l, j>> \in (0 .. TileHeight - 1) \X (0 .. width - 1) : (j + 1) * 2 ^ l <= width}
    IN [o \in 1 .. Max({flat_offset(n) + 1 : n \in nodes}) |->
            IF \E n \in nodes : flat_offset(n) + 1 = o
            THEN LET n == CHOOSE n \in nodes : flat_offset(n) + 1 = o IN node(n[1], n[2])
            ELSE ZeroHash]

\* Every object in storage has the content its path stands for, to the last hash:
\* so the objects of interrupted cycles are no danger, and rewriting one is harmless
\* although it is served as immutable. And although every batch starts from hashes
\* read back from tiles, the committed root is the tree head of the leaves.
TilesExact ==
    /\ root_hash = HeadOf(integrated_size)
    /\ \A p \in DOMAIN storage :
        storage[p] = TileContent(p[1], p[2], IF p[3] = 0 THEN TileWidth ELSE p[3])

\* For every tree that was ever committed, which is what a checkpoint may name, and
\* every older size a witness may be at, committed or not, the server can generate
\* the consistency proof, and the witness accepts it.
ConsistencyComplete ==
    \A n \in committed : \A m \in 0 .. n :
        verify_consistency(m, n, HeadOf(m), HeadOf(n), generate_consistency_proof_simple(m, n))

\* For every committed tree and every leaf of it, the server and a client that reads
\* its tiles both arrive at an inclusion proof that verifies.
InclusionComplete ==
    \A n \in committed : \A i \in 0 .. n - 1 : \A remote \in BOOLEAN :
        RootOfPath(HashLeaf(i + 1), i, n, generate_inclusion_proof(remote, i, n)) = HeadOf(n)

RECURSIVE Subterms(_)
Subterms(h) == {h} \cup IF Len(h) = 2 THEN Subterms(h[1]) \cup Subterms(h[2]) ELSE {}

\* A tree of size m with another leaf at position j.
ForkedHead(m, j) == MTH([Leaves(m) EXCEPT ![j] = 0])

\* No sequence of hashes convinces a witness that the log extends a tree that has
\* another leaf somewhere. A hash outside the new tree cannot be part of a proof
\* that verifies, since each one is hashed into the new root.
ConsistencySound ==
    integrated_size <= ForgeSize =>
        \A m \in 1 .. integrated_size : \A j \in 1 .. m :
            \A len \in 0 .. proof_length(m, integrated_size) :
                \A proof \in [1 .. len -> Subterms(root_hash)] :
                    ~verify_consistency(m, integrated_size, ForkedHead(m, j), root_hash, proof)

\* "A tile spans eight tree levels; only its bottom row is stored."
OnlyBottomRow ==
    \A p \in DOMAIN storage : Len(storage[p]) = IF p[3] = 0 THEN TileWidth ELSE p[3]
=============================================================================
