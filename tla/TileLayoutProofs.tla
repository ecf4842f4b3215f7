-------------------------- MODULE TileLayoutProofs --------------------------
(***************************************************************************)
(* What the layout of tiles guarantees, for every tile width and size: the *)
(* path of an object determines the leaves it holds, trees of different    *)
(* sizes share only objects that are the same in both, and a tile that the *)
(* builder completes from its previous version has no gap. The library     *)
(* states no fact about division by a variable or about powers; those that *)
(* are needed come first.                                                  *)
(***************************************************************************)
EXTENDS TileLayout, TLAPS

\* The leaves under an object, from its path alone.
FirstLeaf(o) == o.index * W^(o.level + 1)
LeafEnd(o) ==
    IF o.partial = 0 THEN (o.index + 1) * W^(o.level + 1)
    ELSE (o.index * W + o.partial) * W^(o.level)
LeavesOf(o) == FirstLeaf(o) .. LeafEnd(o) - 1

\* The content that the log e gives an object.
ContentOf(o, e) == [k \in LeavesOf(o) |-> e[k]]

\* Every stored object has the content its path implies.
Exact(store, e) == \A o \in DOMAIN store : store[o] = ContentOf(o, e)

\* The logs f and g have the same first n entries.
Agree(f, g, n) == \A k \in 0 .. n - 1 : f[k] = g[k]

\* Every object of the tree of n leaves is stored.
Present(store, n) ==
    /\ \A t \in TilesOf(n) : TileOf(t[1], t[2], n) \in DOMAIN store
    /\ \A i \in {j \in 0 .. MaxSize : j * W < n} : EntriesOf(i, n) \in DOMAIN store

-----------------------------------------------------------------------------
\* Quotient and remainder.
LEMMA DivMod ==
    ASSUME NEW a \in Nat, NEW b \in Nat \ {0}
    PROVE  /\ a \div b \in Nat /\ a % b \in Nat /\ a % b < b
           /\ a = b * (a \div b) + (a % b)
           /\ b * (a \div b) <= a /\ a < b * (a \div b) + b
<1>1. a \div b \in Nat /\ a % b \in Nat /\ a % b < b
  OBVIOUS
<1>2. b * (a \div b) <= a
  OBVIOUS
<1>3. a < b * (a \div b) + b
  OBVIOUS
<1>4. \A q, r \in Nat : a = b * q + r /\ r < b => a % b = r
  OBVIOUS
<1> DEFINE q == a \div b
           r == a - b * q
<1>5. b * q \in Nat
  BY <1>1
<1>6. r \in Nat /\ r < b /\ a = b * q + r
  BY <1>1, <1>2, <1>3, <1>5
<1> HIDE DEF q, r
<1>7. a % b = r
  BY <1>1, <1>4, <1>6 DEF q
<1> QED
  BY <1>1, <1>2, <1>3, <1>6, <1>7 DEF q

\* Multiplication is monotone.
LEMMA TimesMonotone ==
    ASSUME NEW a \in Nat, NEW b \in Nat, NEW c \in Nat, a <= b
    PROVE  c * a <= c * b /\ a * c <= b * c
OBVIOUS

\* Multiplication by a positive number reflects the order.
LEMMA TimesCancels ==
    ASSUME NEW a \in Nat, NEW b \in Nat, NEW c \in Nat \ {0}, a * c < b * c
    PROVE  a < b
OBVIOUS

\* Division is monotone.
LEMMA DivMonotone ==
    ASSUME NEW a \in Nat, NEW b \in Nat, NEW c \in Nat \ {0}, a <= b
    PROVE  a \div c <= b \div c
BY DivMod, TimesMonotone

\* i is at most a quotient exactly when its multiple is at most the dividend.
LEMMA DivBound ==
    ASSUME NEW a \in Nat, NEW i \in Nat, NEW c \in Nat \ {0}
    PROVE  i <= a \div c <=> i * c <= a
<1>1. /\ a \div c \in Nat /\ c * (a \div c) <= a /\ a < c * (a \div c) + c
  BY DivMod
<1> DEFINE q == a \div c
<1> HIDE DEF q
<1>2. q \in Nat /\ c * q <= a /\ a < c * q + c
  BY <1>1 DEF q
<1>3. ASSUME i <= q PROVE i * c <= a
  <2>1. i * c <= q * c
    BY <1>2, <1>3, TimesMonotone
  <2> QED
    BY <1>2, <2>1
<1>4. ASSUME i * c <= a PROVE i <= q
  <2>1. c * q + c = (q + 1) * c /\ i * c \in Nat /\ q + 1 \in Nat
    BY <1>2
  <2>2. i * c < (q + 1) * c
    BY <1>2, <1>4, <2>1
  <2>3. i < q + 1
    BY <2>1, <2>2, TimesCancels
  <2> QED
    BY <1>2, <2>3
<1> QED
  BY <1>3, <1>4 DEF q

-----------------------------------------------------------------------------
\* The numbers a level works with.
LEMMA LevelFacts ==
    ASSUME NEW l \in 0 .. MaxSize, NEW n \in Nat
    PROVE  /\ W^l \in Nat \ {0} /\ W^(l + 1) = W * W^l
           /\ W \in Nat \ {0}
           /\ SizeAt(l, n) \in Nat
           /\ SizeAt(l, n) * W^l \in Nat /\ SizeAt(l, n) * W^l <= n
<1>1. /\ W^l \in Nat \ {0} /\ W^(l + 1) = W * W^l /\ W \in Nat \ {0}
  BY PowerAssumption, TileLayoutAssumption
<1>2. n \div W^l \in Nat /\ W^l * (n \div W^l) <= n
  BY <1>1, DivMod
<1> QED
  BY <1>1, <1>2 DEF SizeAt

\* A tree only gains subtrees as it grows.
LEMMA SizeMonotone ==
    ASSUME NEW l \in 0 .. MaxSize, NEW m \in Nat, NEW n \in Nat, m <= n
    PROVE  SizeAt(l, m) <= SizeAt(l, n)
BY LevelFacts, DivMonotone DEF SizeAt

\* The path of a tile determines the leaves it covers: an object is never of two
\* trees that would fill it differently.
LEMMA PathDeterminesLeaves ==
    ASSUME NEW l \in 0 .. MaxSize, NEW i \in Nat, NEW n \in Nat, i * W < SizeAt(l, n)
    PROVE  Covered(l, i, n) = LeavesOf(TileOf(l, i, n))
<1> DEFINE P == W^l
           S == SizeAt(l, n)
           o == TileOf(l, i, n)
<1>1. P \in Nat \ {0} /\ W^(l + 1) = W * P /\ W \in Nat \ {0} /\ S \in Nat
  BY LevelFacts
<1>2. o.level = l /\ o.index = i /\ o.partial = PartialTileSize(l, i, n)
  BY DEF TileOf, TilePath
<1>3. /\ S \div W \in Nat /\ S % W \in Nat /\ S % W < W /\ S = W * (S \div W) + (S % W)
  BY <1>1, DivMod
<1> HIDE DEF P, S, o
<1>4. CASE i < S \div W
  <2>1. (i + 1) * W <= S
    <3>1. i + 1 <= S \div W
      BY <1>3, <1>4
    <3> QED
      BY <1>1, <3>1, DivBound
  <2>2. ((i + 1) * W) * P <= S * P
    BY <1>1, <2>1, TimesMonotone
  <2>3. (i + 1) * W^(l + 1) <= S * P
    BY <1>1, <2>2
  <2>4. LeafEnd(o) = (i + 1) * W^(l + 1)
    BY <1>2, <1>4 DEF LeafEnd, PartialTileSize, S
  <2>5. (i + 1) * W^(l + 1) \in Nat /\ S * P \in Nat
    BY <1>1
  <2>6. Smaller((i + 1) * W^(l + 1), S * P) = (i + 1) * W^(l + 1)
    BY <2>3, <2>5 DEF Smaller
  <2> QED
    BY <1>2, <2>4, <2>6 DEF Covered, LeavesOf, FirstLeaf, P, S, o
<1>5. CASE ~(i < S \div W)
  <2>1. i * W \in Nat /\ i * W <= S
    BY <1>1 DEF S
  <2>2. i <= S \div W
    BY <1>1, <2>1, DivBound
  <2>3. i = S \div W
    BY <1>3, <1>5, <2>2
  <2>4. S = W * i + (S % W) /\ S % W # 0
    BY <1>1, <1>3, <2>3 DEF S
  <2>5. S = i * W + (S % W)
    BY <1>1, <1>3, <2>4
  <2>6. LeafEnd(o) = S * P
    <3>1. o.partial = S % W
      BY <1>2, <1>5 DEF PartialTileSize, S
    <3>2. LeafEnd(o) = (i * W + (S % W)) * P
      BY <1>2, <2>4, <3>1 DEF LeafEnd, P
    <3> QED
      BY <2>5, <3>2
  <2>7. S <= (i + 1) * W
    BY <1>1, <1>3, <2>5
  <2>8. S * P <= ((i + 1) * W) * P
    BY <1>1, <2>7, TimesMonotone
  <2>9. S * P <= (i + 1) * W^(l + 1) /\ S * P \in Nat /\ (i + 1) * W^(l + 1) \in Nat
    BY <1>1, <2>8
  <2>10. Smaller((i + 1) * W^(l + 1), S * P) = S * P
    BY <2>9 DEF Smaller
  <2> QED
    BY <1>2, <2>6, <2>10 DEF Covered, LeavesOf, FirstLeaf, P, S, o
<1> QED
  BY <1>4, <1>5

-----------------------------------------------------------------------------
\* A tile covers leaves of its tree only.
LEMMA CoveredInTree ==
    ASSUME NEW l \in 0 .. MaxSize, NEW i \in Nat, NEW n \in Nat, NEW k \in Covered(l, i, n)
    PROVE  /\ k \in 0 .. n - 1
           /\ i * W^(l + 1) <= k /\ k < (i + 1) * W^(l + 1) /\ k < SizeAt(l, n) * W^l
<1> DEFINE lo == i * W^(l + 1)
           hi == (i + 1) * W^(l + 1)
           S  == SizeAt(l, n) * W^l
<1>1. lo \in Nat /\ hi \in Nat /\ S \in Nat /\ S <= n
  BY LevelFacts
<1>2. k \in lo .. Smaller(hi, S) - 1
  BY DEF Covered
<1> HIDE DEF lo, hi, S
<1>3. lo <= k /\ k < hi /\ k < S /\ k \in Nat
  BY <1>1, <1>2 DEF Smaller
<1> QED
  BY <1>1, <1>3 DEF lo, hi, S

\* And every leaf in those bounds.
LEMMA CoveredComplete ==
    ASSUME NEW l \in 0 .. MaxSize, NEW i \in Nat, NEW n \in Nat, NEW k \in Nat,
           i * W^(l + 1) <= k, k < (i + 1) * W^(l + 1), k < SizeAt(l, n) * W^l
    PROVE  k \in Covered(l, i, n)
<1> DEFINE lo == i * W^(l + 1)
           hi == (i + 1) * W^(l + 1)
           S  == SizeAt(l, n) * W^l
<1>1. lo \in Nat /\ hi \in Nat /\ S \in Nat
  BY LevelFacts
<1>2. lo <= k /\ k < hi /\ k < S
  OBVIOUS
<1> HIDE DEF lo, hi, S
<1>3. k \in lo .. Smaller(hi, S) - 1
  BY <1>1, <1>2 DEF Smaller
<1> QED
  BY <1>3 DEF Covered, lo, hi, S

\* A subtree of the tile that was complete in the smaller tree is in the smaller
\* tree's version of that tile: there is nothing to pad with zeroes.
LEMMA PreviousCovers ==
    ASSUME NEW l \in 0 .. MaxSize, NEW i \in Nat, NEW m \in Nat, NEW n \in Nat,
           NEW k \in Covered(l, i, n), k < SizeAt(l, m) * W^l
    PROVE  i * W < SizeAt(l, m) /\ k \in Covered(l, i, m)
<1>1. /\ k \in Nat /\ i * W^(l + 1) <= k /\ k < (i + 1) * W^(l + 1)
  BY CoveredInTree
<1>2. k \in Covered(l, i, m)
  BY <1>1, CoveredComplete
<1> DEFINE P == W^l
           S == SizeAt(l, m)
<1>3. P \in Nat \ {0} /\ W^(l + 1) = W * P /\ W \in Nat \ {0} /\ S \in Nat /\ S * P \in Nat
  BY LevelFacts
<1>4. k < S * P
  OBVIOUS
<1> HIDE DEF P, S
<1>5. i * (W * P) = (i * W) * P /\ i * W \in Nat /\ (i * W) * P \in Nat
  BY <1>3
<1>6. (i * W) * P < S * P
  BY <1>1, <1>3, <1>4, <1>5
<1>7. i * W < S
  BY <1>3, <1>5, <1>6, TimesCancels
<1> QED
  BY <1>2, <1>7 DEF S

\* What TreeBuilder::finalize makes of a tile is exactly that tile of the new tree,
\* provided storage has the old tree's version of it.
LEMMA NewTileExact ==
    ASSUME NEW store, NEW e, NEW leaves, Exact(store, e),
           NEW l \in 0 .. MaxSize, NEW i \in Nat, NEW m \in Nat, NEW n \in Nat,
           i * W < SizeAt(l, n),
           i * W < SizeAt(l, m) => TileOf(l, i, m) \in DOMAIN store,
           Agree(leaves, e, n)
    PROVE  NewTile(store, l, i, m, n, leaves) = ContentOf(TileOf(l, i, n), e)
<1>1. ASSUME NEW k \in Covered(l, i, n), ~(k >= SizeAt(l, m) * W^l)
      PROVE  /\ k \in DOMAIN PreviousTile(store, l, i, m)
             /\ PreviousTile(store, l, i, m)[k] = e[k]
  <2>1. k \in 0 .. n - 1 /\ SizeAt(l, m) * W^l \in Nat
    BY CoveredInTree, LevelFacts
  <2>2. k < SizeAt(l, m) * W^l
    BY <1>1, <2>1
  <2>3. i * W < SizeAt(l, m) /\ k \in Covered(l, i, m)
    BY <2>2, PreviousCovers
  <2>4. PreviousTile(store, l, i, m) = ContentOf(TileOf(l, i, m), e)
    BY <2>3 DEF PreviousTile, Exact
  <2>5. k \in LeavesOf(TileOf(l, i, m))
    BY <2>3, PathDeterminesLeaves
  <2> QED
    BY <2>4, <2>5 DEF ContentOf
<1>2. ASSUME NEW k \in Covered(l, i, n) PROVE leaves[k] = e[k]
  BY CoveredInTree DEF Agree
<1>3. NewTile(store, l, i, m, n, leaves) = [k \in Covered(l, i, n) |-> e[k]]
  BY <1>1, <1>2 DEF NewTile
<1>4. Covered(l, i, n) = LeavesOf(TileOf(l, i, n))
  BY PathDeterminesLeaves
<1> QED
  BY <1>3, <1>4 DEF ContentOf

-----------------------------------------------------------------------------
\* A tile of a tree that the growth from m to n did not touch is a tile of the tree
\* of m leaves, under the same path.
LEMMA UntouchedTile ==
    ASSUME NEW m \in Nat, NEW n \in Nat, m <= n,
           NEW t \in TilesOf(n), t \notin TouchedTiles(m, n)
    PROVE  t \in TilesOf(m) /\ TileOf(t[1], t[2], m) = TileOf(t[1], t[2], n)
<1> DEFINE l == t[1]
           i == t[2]
           S == SizeAt(l, n)
           R == SizeAt(l, m)
<1>1. /\ t \in Levels \X (0 .. MaxSize) /\ l \in 0 .. MaxSize /\ i \in Nat /\ i * W < S
  BY DEF TilesOf, Levels
<1>2. /\ S \in Nat /\ R \in Nat /\ W \in Nat \ {0} /\ R <= S
  BY <1>1, LevelFacts, SizeMonotone
<1>3. ~(R < S /\ R \div W <= i /\ i <= (S - 1) \div W)
  BY <1>1 DEF TouchedTiles
<1>4. R = S => PartialTileSize(l, i, m) = PartialTileSize(l, i, n)
  BY DEF PartialTileSize
<1>5. i < R \div W /\ i < S \div W => PartialTileSize(l, i, m) = PartialTileSize(l, i, n)
  BY DEF PartialTileSize
<1>6. i * W < R => t \in TilesOf(m)
  BY <1>1 DEF TilesOf
<1>7. PartialTileSize(l, i, m) = PartialTileSize(l, i, n)
      => TileOf(l, i, m) = TileOf(l, i, n)
  BY DEF TileOf
<1> HIDE DEF l, i, S, R
<1>8. i * W \in Nat /\ i + 1 \in Nat /\ (i + 1) * W = i * W + W
  BY <1>1, <1>2
<1>9. S - 1 \in Nat /\ i * W <= S - 1
  BY <1>1, <1>2, <1>8
<1>10. i <= (S - 1) \div W
  BY <1>1, <1>2, <1>9, DivBound
<1>11. R \div W \in Nat /\ S \div W \in Nat /\ R \div W <= S \div W
  BY <1>2, DivMod, DivMonotone
<1>12. CASE R = S
  BY <1>1, <1>4, <1>6, <1>7, <1>12 DEF l, i
<1>13. CASE i < R \div W
  <2>1. i + 1 <= R \div W /\ i < S \div W
    BY <1>1, <1>11, <1>13
  <2>2. (i + 1) * W <= R
    BY <1>2, <1>8, <2>1, DivBound
  <2>3. i * W < R
    BY <1>2, <1>8, <2>2
  <2> QED
    BY <1>5, <1>6, <1>7, <1>13, <2>1, <2>3 DEF l, i
<1> QED
  BY <1>1, <1>2, <1>3, <1>10, <1>11, <1>12, <1>13

\* The tiles that were touched are tiles of the new tree.
LEMMA TouchedIsOfTree ==
    ASSUME NEW m \in Nat, NEW n \in Nat, NEW t \in TouchedTiles(m, n)
    PROVE  t \in TilesOf(n) /\ t[1] \in 0 .. MaxSize /\ t[2] \in 0 .. MaxSize /\ t[2] * W < SizeAt(t[1], n)
<1> DEFINE l == t[1]
           i == t[2]
           S == SizeAt(l, n)
           R == SizeAt(l, m)
<1>1. /\ t \in Levels \X (0 .. MaxSize) /\ l \in 0 .. MaxSize /\ i \in 0 .. MaxSize
      /\ i <= (S - 1) \div W /\ R < S
  BY DEF TouchedTiles, Levels
<1>2. S \in Nat /\ R \in Nat /\ W \in Nat \ {0}
  BY <1>1, LevelFacts
<1> HIDE DEF l, i, S, R
<1>3. S - 1 \in Nat
  BY <1>1, <1>2
<1>4. i \in Nat
  BY <1>1
<1>5. i * W <= S - 1
  BY <1>1, <1>2, <1>3, <1>4, DivBound
<1>6. i * W < S
  BY <1>2, <1>4, <1>5
<1> QED
  BY <1>1, <1>6 DEF l, i, S, TilesOf

-----------------------------------------------------------------------------
\* On level 0 every leaf is a subtree of its own.
LEMMA LevelZero ==
    ASSUME NEW n \in Nat
    PROVE  /\ 0 \in 0 .. MaxSize /\ SizeAt(0, n) = n
           /\ W^0 = 1 /\ W^1 = W /\ W^(0 + 1) = W /\ W \in Nat \ {0}
<1>1. 0 \in 0 .. MaxSize /\ W \in Nat \ {0}
  BY TileLayoutAssumption
<1>2. W^0 = 1 /\ W^(0 + 1) = W * W^0
  BY <1>1, PowerAssumption
<1>3. W^(0 + 1) = W /\ W^1 = W
  BY <1>1, <1>2
<1>4. n \div 1 = n
  OBVIOUS
<1> QED
  BY <1>1, <1>2, <1>3, <1>4 DEF SizeAt

\* An entry bundle holds the entries under the level-0 tile of the same index.
LEMMA BundleLeaves ==
    ASSUME NEW i \in Nat, NEW n \in Nat, i * W < n
    PROVE  Covered(0, i, n) = LeavesOf(EntriesOf(i, n))
<1>1. Covered(0, i, n) = LeavesOf(TileOf(0, i, n))
  BY LevelZero, PathDeterminesLeaves
<1>2. LeavesOf(TileOf(0, i, n)) = LeavesOf(EntriesOf(i, n))
  BY DEF LeavesOf, FirstLeaf, LeafEnd, TileOf, TilePath, EntriesOf, EntriesPath
<1> QED
  BY <1>1, <1>2

\* A bundle of the new tree that was not touched is a bundle of the old one, with the
\* same entries.
LEMMA UntouchedBundle ==
    ASSUME NEW m \in Nat, NEW n \in Nat, m <= n,
           NEW i \in 0 .. MaxSize, i * W < n, i \notin TouchedBundles(m, n)
    PROVE  i * W < m /\ EntriesOf(i, m) = EntriesOf(i, n)
<1>1. /\ W \in Nat \ {0} /\ SizeAt(0, m) = m /\ SizeAt(0, n) = n /\ i \in Nat
  BY LevelZero
<1>2. i * W \in Nat /\ i + 1 \in Nat /\ (i + 1) * W = i * W + W
  BY <1>1
<1>3. n - 1 \in Nat /\ i * W <= n - 1
  BY <1>1, <1>2
<1>4. i <= (n - 1) \div W
  BY <1>1, <1>3, DivBound
<1>5. m \div W \in Nat /\ n \div W \in Nat /\ m \div W <= n \div W
  BY <1>1, DivMod, DivMonotone
<1>6. i + 1 <= m \div W /\ i < m \div W /\ i < n \div W
  BY <1>1, <1>4, <1>5 DEF TouchedBundles
<1>7. (i + 1) * W <= m
  BY <1>1, <1>2, <1>6, DivBound
<1>8. PartialTileSize(0, i, m) = 0 /\ PartialTileSize(0, i, n) = 0
  BY <1>1, <1>6 DEF PartialTileSize
<1> QED
  BY <1>1, <1>2, <1>7, <1>8 DEF EntriesOf

\* The bundles that were touched are bundles of the new tree.
LEMMA TouchedBundleIsOfTree ==
    ASSUME NEW m \in Nat, NEW n \in Nat \ {0}, NEW i \in TouchedBundles(m, n)
    PROVE  i \in 0 .. MaxSize /\ m \div W <= i /\ i * W < n
<1>1. /\ W \in Nat \ {0} /\ i \in Nat /\ i \in 0 .. MaxSize /\ m \div W <= i /\ i <= (n - 1) \div W
  BY LevelZero DEF TouchedBundles
<1>2. n - 1 \in Nat
  OBVIOUS
<1>3. i * W <= n - 1 /\ i * W \in Nat
  BY <1>1, <1>2, DivBound
<1> QED
  BY <1>1, <1>3

\* The quotient of a division, by its bounds.
LEMMA QuotientIs ==
    ASSUME NEW j \in Nat, NEW i \in Nat
    PROVE  j \div W = i <=> i * W <= j /\ j < (i + 1) * W
<1>1. W \in Nat \ {0} /\ j \div W \in Nat
  BY LevelZero, DivMod
<1>2. i <= j \div W <=> i * W <= j
  BY <1>1, DivBound
<1>3. i + 1 <= j \div W <=> (i + 1) * W <= j
  BY <1>1, DivBound
<1>4. i * W \in Nat /\ (i + 1) * W \in Nat
  BY <1>1
<1> QED
  BY <1>1, <1>2, <1>3, <1>4

\* A bundle of the new tree is the entries an earlier cycle left in it and those
\* that this cycle adds, with no gap and no overlap.
LEMMA BundleSplits ==
    ASSUME NEW m \in Nat, NEW n \in Nat, m < n, NEW i \in Nat,
           m \div W <= i, i * W < n,
           NEW p, p = IF i = m \div W THEN m % W ELSE 0
    PROVE  /\ p \in Nat
           /\ p > 0 => LeavesOf(EntriesPath(i, p)) = i * W .. m - 1
           /\ p = 0 => m <= i * W
           /\ Covered(0, i, n) = (IF p > 0 THEN i * W .. m - 1 ELSE {})
                                     \cup {j \in m .. n - 1 : j \div W = i}
<1>1. /\ W \in Nat \ {0} /\ W^0 = 1 /\ W^(0 + 1) = W /\ W^1 = W /\ SizeAt(0, n) = n
  BY LevelZero
<1>2. /\ m \div W \in Nat /\ m % W \in Nat /\ m % W < W /\ m = W * (m \div W) + (m % W)
      /\ m < W * (m \div W) + W
  BY <1>1, DivMod
<1>3. i * W \in Nat /\ (i + 1) * W \in Nat /\ (i + 1) * W = i * W + W /\ W * i = i * W
  BY <1>1
<1>4. p \in Nat
  BY <1>2
<1>5. p > 0 => i = m \div W /\ p = m % W /\ m = i * W + p /\ m < (i + 1) * W
  BY <1>1, <1>2, <1>3
<1>6. p = 0 => m <= i * W
  <2>1. CASE i = m \div W
    BY <1>2, <1>3, <2>1
  <2>2. CASE i # m \div W
    <3>1. (m \div W) + 1 <= i /\ (m \div W) + 1 \in Nat
      BY <1>2, <2>2
    <3>2. ((m \div W) + 1) * W <= i * W
      BY <1>1, <3>1, TimesMonotone
    <3>3. ((m \div W) + 1) * W = W * (m \div W) + W
      BY <1>1, <1>2
    <3>4. W * (m \div W) + W <= i * W
      BY <3>2, <3>3
    <3>5. W * (m \div W) \in Nat
      BY <1>1, <1>2
    <3> QED
      BY <1>1, <1>2, <1>3, <3>4, <3>5
  <2> QED
    BY <2>1, <2>2
<1>7. ASSUME p > 0 PROVE LeavesOf(EntriesPath(i, p)) = i * W .. m - 1
  <2>1. (i * W + p) * 1 = m
    BY <1>3, <1>4, <1>5, <1>7
  <2> DEFINE o == EntriesPath(i, p)
  <2>2. o.index = i /\ o.level = 0 /\ o.partial = p /\ p # 0
    BY <1>4, <1>7 DEF EntriesPath
  <2> HIDE DEF o
  <2>3. FirstLeaf(o) = i * W /\ LeafEnd(o) = m
    BY <1>1, <2>1, <2>2 DEF FirstLeaf, LeafEnd
  <2> QED
    BY <2>3 DEF LeavesOf, o
<1>8. Covered(0, i, n) = {k \in 0 .. n - 1 : i * W <= k /\ k < (i + 1) * W}
  <2>1. n * 1 = n
    OBVIOUS
  <2>2. Covered(0, i, n) = i * W .. Smaller((i + 1) * W, n) - 1
    BY <1>1, <2>1 DEF Covered
  <2> QED
    BY <1>3, <2>2 DEF Smaller
<1>9. ASSUME NEW k \in 0 .. n - 1
      PROVE  (i * W <= k /\ k < (i + 1) * W)
             <=> k \in (IF p > 0 THEN i * W .. m - 1 ELSE {}) \cup {j \in m .. n - 1 : j \div W = i}
  <2>1. k \div W = i <=> i * W <= k /\ k < (i + 1) * W
    BY QuotientIs
  <2>2. CASE p > 0
    BY <1>3, <1>5, <2>1, <2>2
  <2>3. CASE p = 0
    BY <1>3, <1>6, <2>1, <2>3
  <2> QED
    BY <1>4, <2>2, <2>3
<1>10. \A k \in (IF p > 0 THEN i * W .. m - 1 ELSE {}) \cup {j \in m .. n - 1 : j \div W = i} :
          k \in 0 .. n - 1
  BY <1>3
<1> QED
  BY <1>4, <1>6, <1>7, <1>8, <1>9, <1>10

-----------------------------------------------------------------------------
\* A storage of exact objects serves every tree whose objects it has.
LEMMA PresentIsServed ==
    ASSUME NEW store, NEW e, NEW log, NEW n \in Nat, Exact(store, e), Present(store, n),
           Agree(log, e, n)
    PROVE  TreeServed(store, n, log)
<1>1. ASSUME NEW t \in TilesOf(n)
      PROVE  store[TileOf(t[1], t[2], n)] = [k \in Covered(t[1], t[2], n) |-> log[k]]
  <2>1. t[1] \in 0 .. MaxSize /\ t[2] \in Nat /\ t[2] * W < SizeAt(t[1], n)
    BY DEF TilesOf, Levels
  <2>2. Covered(t[1], t[2], n) = LeavesOf(TileOf(t[1], t[2], n))
    BY <2>1, PathDeterminesLeaves
  <2>3. \A k \in Covered(t[1], t[2], n) : k \in 0 .. n - 1
    BY <2>1, CoveredInTree
  <2>4. store[TileOf(t[1], t[2], n)] = ContentOf(TileOf(t[1], t[2], n), e)
    BY DEF Exact, Present
  <2> QED
    BY <2>2, <2>3, <2>4 DEF ContentOf, Agree
<1>2. ASSUME NEW i \in {j \in 0 .. MaxSize : j * W < n}
      PROVE  store[EntriesOf(i, n)] = [k \in Covered(0, i, n) |-> log[k]]
  <2>1. i \in Nat /\ i * W < n
    OBVIOUS
  <2>2. Covered(0, i, n) = LeavesOf(EntriesOf(i, n))
    BY <2>1, BundleLeaves
  <2>3. \A k \in Covered(0, i, n) : k \in 0 .. n - 1
    BY <2>1, LevelZero, CoveredInTree
  <2>4. store[EntriesOf(i, n)] = ContentOf(EntriesOf(i, n), e)
    BY DEF Exact, Present
  <2> QED
    BY <2>2, <2>3, <2>4 DEF ContentOf, Agree
<1> QED
  BY <1>1, <1>2 DEF TreeServed, Present

\* A storage that had the objects of a tree, and got those that its growth touches,
\* has the objects of the grown tree.
LEMMA PresentGrows ==
    ASSUME NEW store, NEW m \in Nat, NEW n \in Nat, m <= n, Present(store, m),
           \A t \in TouchedTiles(m, n) : TileOf(t[1], t[2], n) \in DOMAIN store,
           \A i \in TouchedBundles(m, n) : EntriesOf(i, n) \in DOMAIN store
    PROVE  Present(store, n)
<1>1. ASSUME NEW t \in TilesOf(n)
      PROVE  TileOf(t[1], t[2], n) \in DOMAIN store
  <2>1. CASE t \in TouchedTiles(m, n)
    BY <2>1
  <2>2. CASE t \notin TouchedTiles(m, n)
    BY <2>2, UntouchedTile DEF Present
  <2> QED
    BY <2>1, <2>2
<1>2. ASSUME NEW i \in 0 .. MaxSize, i * W < n
      PROVE  EntriesOf(i, n) \in DOMAIN store
  <2>1. CASE i \in TouchedBundles(m, n)
    BY <2>1
  <2>2. CASE i \notin TouchedBundles(m, n)
    <3>1. i * W < m /\ EntriesOf(i, m) = EntriesOf(i, n)
      BY <1>2, <2>2, UntouchedBundle
    <3> QED
      BY <3>1 DEF Present
  <2> QED
    BY <2>1, <2>2
<1> QED
  BY <1>1, <1>2 DEF Present

\* The empty tree has no objects.
LEMMA EmptyPresent ==
    ASSUME NEW store
    PROVE  Present(store, 0)
<1>1. ASSUME NEW t \in TilesOf(0) PROVE FALSE
  <2>1. t[1] \in 0 .. MaxSize /\ t[2] \in Nat /\ t[2] * W < SizeAt(t[1], 0)
    BY DEF TilesOf, Levels
  <2>2. /\ W \in Nat \ {0} /\ SizeAt(t[1], 0) \in Nat /\ W^(t[1]) \in Nat \ {0}
        /\ SizeAt(t[1], 0) * W^(t[1]) <= 0
    BY <2>1, LevelFacts
  <2>3. SizeAt(t[1], 0) = 0
    BY <2>2
  <2>4. t[2] * W \in Nat
    BY <2>1, <2>2
  <2> QED
    BY <2>1, <2>3, <2>4
<1>2. ASSUME NEW i \in 0 .. MaxSize, i * W < 0 PROVE FALSE
  <2>1. i * W \in Nat
    BY LevelZero
  <2> QED
    BY <1>2, <2>1
<1> QED
  BY <1>1, <1>2 DEF Present

\* The tree builder writes exactly the touched tiles of the new tree.
LEMMA BuiltTilesExact ==
    ASSUME NEW store, NEW e, NEW leaves, Exact(store, e),
           NEW m \in Nat, NEW n \in Nat, Present(store, m),
           Agree(leaves, e, n),
           NEW t \in TouchedTiles(m, n), NEW o, o = TileOf(t[1], t[2], n)
    PROVE  NewTile(store, o.level, o.index, m, n, leaves) = ContentOf(o, e)
<1>1. /\ t \in TilesOf(n) /\ t[1] \in 0 .. MaxSize /\ t[2] \in Nat
      /\ t[2] * W < SizeAt(t[1], n)
  BY TouchedIsOfTree
<1>2. t[2] * W < SizeAt(t[1], m) => TileOf(t[1], t[2], m) \in DOMAIN store
  BY <1>1 DEF Present, TilesOf
<1>3. o.level = t[1] /\ o.index = t[2]
  BY DEF TileOf, TilePath
<1>4. ASSUME NEW l \in 0 .. MaxSize, NEW i \in Nat, l = t[1], i = t[2]
      PROVE  NewTile(store, l, i, m, n, leaves) = ContentOf(TileOf(l, i, n), e)
  BY <1>1, <1>2, <1>4, NewTileExact
<1> QED
  BY <1>1, <1>3, <1>4

-----------------------------------------------------------------------------
\* load_compact_range reads the log back from the level-0 tiles.
LEMMA LoadedExact ==
    ASSUME NEW store, NEW e, Exact(store, e), NEW m \in Nat, LeavesReadable(store, m)
    PROVE  LoadedLeaves(store, m) = [k \in 0 .. m - 1 |-> e[k]]
<1>1. ASSUME NEW k \in 0 .. m - 1 PROVE store[TileOf(0, k \div W, m)][k] = e[k]
  <2>1. /\ TileOf(0, k \div W, m) \in DOMAIN store
        /\ k \in DOMAIN store[TileOf(0, k \div W, m)]
    BY DEF LeavesReadable
  <2>2. store[TileOf(0, k \div W, m)] = ContentOf(TileOf(0, k \div W, m), e)
    BY <2>1 DEF Exact
  <2> QED
    BY <2>1, <2>2 DEF ContentOf
<1> QED
  BY <1>1 DEF LoadedLeaves

\* Writing an object with the content its path implies keeps the storage exact.
LEMMA WriteExact ==
    ASSUME NEW store, NEW e, NEW o, NEW after, Exact(store, e),
           after = Extend(store, [x \in {o} |-> ContentOf(o, e)])
    PROVE  Exact(after, e) /\ DOMAIN after = DOMAIN store \cup {o}
BY DEF Exact, Extend

\* No object of a tree is lost while objects are only added.
LEMMA PresentStays ==
    ASSUME NEW store, NEW after, DOMAIN store \subseteq DOMAIN after,
           NEW n, Present(store, n)
    PROVE  Present(after, n)
BY DEF Present

-----------------------------------------------------------------------------
(* A storage that also has objects of other logs.                           *)

\* The objects that have the content the log e gives them.
Right(store, e) == [o \in {x \in DOMAIN store : store[x] = ContentOf(x, e)} |-> store[o]]

\* A tree is served exactly if all its objects are there and right.
LEMMA ServedIsPresent ==
    ASSUME NEW store, NEW e, NEW n \in Nat
    PROVE  /\ Exact(Right(store, e), e)
           /\ TreeServed(store, n, e) <=> Present(Right(store, e), n)
<1> DEFINE R == Right(store, e)
<1>1. Exact(R, e) /\ \A o \in DOMAIN R : o \in DOMAIN store /\ R[o] = store[o]
  BY DEF Exact, Right
<1>2. \A o \in DOMAIN store : store[o] = ContentOf(o, e) => o \in DOMAIN R
  BY DEF Right
<1> HIDE DEF R
<1>3. ASSUME Present(R, n) PROVE TreeServed(store, n, e)
  <2>1. TreeServed(R, n, e)
    BY <1>1, <1>3, PresentIsServed DEF Agree
  <2> QED
    BY <1>1, <2>1 DEF TreeServed
<1>4. ASSUME TreeServed(store, n, e) PROVE Present(R, n)
  <2>1. ASSUME NEW t \in TilesOf(n) PROVE TileOf(t[1], t[2], n) \in DOMAIN R
    <3>1. t[1] \in 0 .. MaxSize /\ t[2] \in Nat /\ t[2] * W < SizeAt(t[1], n)
      BY DEF TilesOf, Levels
    <3>2. Covered(t[1], t[2], n) = LeavesOf(TileOf(t[1], t[2], n))
      BY <3>1, PathDeterminesLeaves
    <3> QED
      BY <1>2, <1>4, <3>2 DEF TreeServed, ContentOf
  <2>2. ASSUME NEW i \in {j \in 0 .. MaxSize : j * W < n} PROVE EntriesOf(i, n) \in DOMAIN R
    <3>1. Covered(0, i, n) = LeavesOf(EntriesOf(i, n))
      BY BundleLeaves
    <3> QED
      BY <1>2, <1>4, <3>1 DEF TreeServed, ContentOf
  <2> QED
    BY <2>1, <2>2 DEF Present
<1> QED
  BY <1>1, <1>3, <1>4 DEF R

\* The empty tree is served from any storage.
LEMMA EmptyServed ==
    ASSUME NEW store, NEW e
    PROVE  TreeServed(store, 0, e)
BY ServedIsPresent, EmptyPresent

\* A tree stays served while its objects, of which the right ones are kept or
\* written again, may be joined by others.
LEMMA ServedStays ==
    ASSUME NEW store, NEW after, NEW e, NEW n \in Nat, TreeServed(store, n, e),
           \A o \in DOMAIN store : store[o] = ContentOf(o, e) => o \in DOMAIN after /\ after[o] = store[o]
    PROVE  TreeServed(after, n, e)
<1>1. Present(Right(store, e), n)
  BY ServedIsPresent
<1>2. DOMAIN Right(store, e) \subseteq DOMAIN Right(after, e)
  BY DEF Right
<1>3. Present(Right(after, e), n)
  BY <1>1, <1>2, PresentStays
<1> QED
  BY <1>3, ServedIsPresent

\* A tree is that of every log with the same entries.
LEMMA ServedAgrees ==
    ASSUME NEW store, NEW e, NEW f, NEW n \in Nat, TreeServed(store, n, e), Agree(f, e, n)
    PROVE  TreeServed(store, n, f)
<1>1. Exact(Right(store, e), e) /\ Present(Right(store, e), n)
  BY ServedIsPresent
<1>2. TreeServed(Right(store, e), n, f)
  BY <1>1, PresentIsServed
<1>3. \A o \in DOMAIN Right(store, e) : o \in DOMAIN store /\ Right(store, e)[o] = store[o]
  BY DEF Right
<1> QED
  BY <1>2, <1>3 DEF TreeServed

\* The objects that the growth of a tree touches.
TouchedObjects(m, n) ==
    {TileOf(t[1], t[2], n) : t \in TouchedTiles(m, n)} \cup {EntriesOf(i, n) : i \in TouchedBundles(m, n)}

\* A tree is served once all touched objects are there and right.
LEMMA ServedGrows ==
    ASSUME NEW store, NEW e, NEW m \in Nat, NEW n \in Nat, m <= n, TreeServed(store, m, e),
           \A o \in TouchedObjects(m, n) : o \in DOMAIN store /\ store[o] = ContentOf(o, e)
    PROVE  TreeServed(store, n, e)
<1> DEFINE R == Right(store, e)
<1>1. Present(R, m)
  BY ServedIsPresent
<1>2. \A o \in TouchedObjects(m, n) : o \in DOMAIN R
  BY DEF Right
<1>3. Present(R, n)
  <2> HIDE DEF R
  <2> QED
    BY <1>1, <1>2, PresentGrows DEF TouchedObjects
<1> QED
  BY <1>3, ServedIsPresent

\* The tree builder takes nothing from objects that are not of the tree.
LEMMA BuiltTilesRight ==
    ASSUME NEW store, NEW e, NEW leaves, NEW m \in Nat, NEW n \in Nat, TreeServed(store, m, e),
           Agree(leaves, e, n), NEW t \in TouchedTiles(m, n), NEW o, o = TileOf(t[1], t[2], n)
    PROVE  NewTile(store, o.level, o.index, m, n, leaves) = ContentOf(o, e)
<1> DEFINE R == Right(store, e)
<1>1. Exact(R, e) /\ Present(R, m)
  BY ServedIsPresent
<1>2. \A x \in DOMAIN R : x \in DOMAIN store /\ R[x] = store[x]
  BY DEF Right
<1> HIDE DEF R
<1>3. NewTile(R, o.level, o.index, m, n, leaves) = ContentOf(o, e)
  BY <1>1, BuiltTilesExact
<1>4. o.level = t[1] /\ o.index = t[2]
  BY DEF TileOf, TilePath
<1>5. PreviousTile(R, t[1], t[2], m) = PreviousTile(store, t[1], t[2], m)
  <2>1. CASE t[2] * W < SizeAt(t[1], m)
    <3>1. t \in TilesOf(m)
      BY <2>1, TouchedIsOfTree DEF TilesOf
    <3> QED
      BY <1>1, <1>2, <3>1 DEF Present, PreviousTile
  <2> QED
    BY <2>1 DEF PreviousTile
<1>6. NewTile(store, t[1], t[2], m, n, leaves) = NewTile(R, t[1], t[2], m, n, leaves)
  BY <1>5 DEF NewTile
<1> QED
  BY <1>3, <1>4, <1>6

\* load_compact_range reads the log back from the level-0 tiles of the tree.
LEMMA LoadedRight ==
    ASSUME NEW store, NEW e, NEW m \in Nat, m <= MaxSize, TreeServed(store, m, e)
    PROVE  LoadedLeaves(store, m) = [k \in 0 .. m - 1 |-> e[k]]
<1>1. ASSUME NEW k \in 0 .. m - 1 PROVE store[TileOf(0, k \div W, m)][k] = e[k]
  <2>1. /\ W \in Nat \ {0} /\ SizeAt(0, m) = m /\ W^0 = 1 /\ W^(0 + 1) = W /\ 0 \in 0 .. MaxSize
        /\ k \in Nat /\ k < m
    BY LevelZero
  <2>2. PICK i : i = k \div W
    OBVIOUS
  <2>3. i \in Nat /\ i * W <= k /\ k < (i + 1) * W
    BY <2>1, <2>2, DivMod, QuotientIs
  <2>4. i <= k
    BY <2>1, <2>3
  <2>5. <<0, i>> \in TilesOf(m)
    <3>1. 0 \in Levels
      <4>1. 1 <= MaxSize
        BY <2>1, TileLayoutAssumption
      <4> QED
        BY <2>1, <4>1 DEF Levels
    <3>2. i * W < SizeAt(0, m)
      BY <2>1, <2>3
    <3> QED
      BY <2>1, <2>3, <2>4, <3>1, <3>2, TileLayoutAssumption DEF TilesOf
  <2>6. k \in Covered(0, i, m)
    <3>1. i * W^(0 + 1) <= k /\ k < (i + 1) * W^(0 + 1) /\ k < SizeAt(0, m) * W^0
      BY <2>1, <2>3
    <3> QED
      BY <2>1, <2>3, <3>1, CoveredComplete
  <2>7. store[TileOf(0, i, m)] = [x \in Covered(0, i, m) |-> e[x]]
    BY <2>5 DEF TreeServed
  <2> QED
    BY <2>2, <2>6, <2>7
<1> QED
  BY <1>1 DEF LoadedLeaves
=============================================================================
