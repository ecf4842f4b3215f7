-------------------------- MODULE IntegrationProofs --------------------------
(***************************************************************************)
(* The integration worker keeps its promises for every number of workers,  *)
(* tile width, batch size, log and number of abandoned cycles: the root    *)
(* commits exactly the log, every committed tree can be served, objects    *)
(* are never overwritten with other content, and the worker implements the *)
(* append-only log.                                                        *)
(*                                                                         *)
(* Why it works although workers overlap and nothing is locked while they  *)
(* write: all that a worker writes is a function of the log and of the     *)
(* path it writes to (StoreExact), so that no order of writes matters; a   *)
(* worker starts from a size that was committed, whose objects are all     *)
(* there (CommittedPresent); and the compare-and-swap on the size lets     *)
(* only a worker commit whose rows continue the committed tree.            *)
(***************************************************************************)
EXTENDS Integration, TileLayoutProofs, FiniteSetTheorems

\* The entries m .. n-1 of the log, and the first n.
EntriesFrom(m, n) == [k \in m .. n - 1 |-> EntryAt[k]]
LogTo(n) == EntriesFrom(0, n)

\* The database: pending rows and tree together are the log.
DatabaseExact ==
    /\ next_index \in 0 .. MaxSize
    /\ integrated_size \in 0 .. next_index
    /\ sequenced = LogTo(next_index)
    /\ pending = EntriesFrom(integrated_size, next_index)
    /\ root_hash = IF integrated_size = 0 THEN NoRoot ELSE LogTo(integrated_size)

\* Whoever wrote an object, its content is what its path implies.
StoreExact == Exact(store, EntryAt)

\* The objects of every committed tree are there.
CommittedPresent ==
    /\ integrated_size \in marked
    /\ \A n \in marked : n \in 0 .. next_index /\ Present(store, n)

Shape ==
    /\ pc \in [Workers -> {"sleep", "pending", "integrate", "tiles", "bundles", "mark"}]
    /\ DOMAIN from = Workers /\ DOMAIN rows = Workers
    /\ DOMAIN result = Workers /\ DOMAIN bundles = Workers
    /\ \A w \in Workers : DOMAIN result[w] = {"new_size", "root_hash", "tiles"}

\* A cycle starts from a committed size, perhaps not the current one.
StartsCommitted(w) == pc[w] # "sleep" => from[w] \in marked

\* The rows it read continue that size in the log.
RowsContinue(w) ==
    pc[w] = "integrate" =>
        \E n \in from[w] + 1 .. next_index : rows[w] = EntriesFrom(from[w], n)

\* What it computed is the tree of a longer prefix of the log, and every object
\* that this growth touches is stored or still to be written.
ResultRight(w) ==
    pc[w] \in {"tiles", "bundles", "mark"} =>
        LET m == from[w]
            n == result[w].new_size
        IN /\ n \in m + 1 .. next_index
           /\ rows[w] = EntriesFrom(m, n)
           /\ result[w].root_hash = LogTo(n)
           /\ \A o \in DOMAIN result[w].tiles : result[w].tiles[o] = ContentOf(o, EntryAt)
           /\ \A t \in TouchedTiles(m, n) :
                TileOf(t[1], t[2], n) \in DOMAIN store \cup DOMAIN result[w].tiles
           /\ bundles[w] \subseteq TouchedBundles(m, n)
           /\ \A i \in TouchedBundles(m, n) : i \in bundles[w] \/ EntriesOf(i, n) \in DOMAIN store

\* A cycle goes on when there is nothing left to write.
WritesInOrder(w) ==
    /\ pc[w] \in {"bundles", "mark"} => DOMAIN result[w].tiles = {}
    /\ pc[w] = "mark" => bundles[w] = {}

WorkerRight(w) ==
    StartsCommitted(w) /\ RowsContinue(w) /\ ResultRight(w) /\ WritesInOrder(w)

\* The inductive invariant.
IntegrationInv ==
    /\ DatabaseExact
    /\ StoreExact
    /\ CommittedPresent
    /\ Shape
    /\ \A w \in Workers : WorkerRight(w)

-----------------------------------------------------------------------------
\* An empty log with sleeping workers satisfies the invariant.
LEMMA InitInv == Init => IntegrationInv
<1> SUFFICES ASSUME Init PROVE IntegrationInv
  OBVIOUS
<1>0. MaxSize \in Nat
  BY TileLayoutAssumption
<1>1. 0 .. 0 - 1 = {} /\ 0 .. 0 = {0} /\ 0 \in 0 .. MaxSize
  BY <1>0
<1>2. EntriesFrom(0, 0) = Empty
  BY <1>1 DEF EntriesFrom, Empty
<1>3. DatabaseExact
  BY <1>1, <1>2 DEF Init, DatabaseExact, LogTo
<1>4. StoreExact
  BY DEF Init, StoreExact, Exact, Empty
<1>5. CommittedPresent
  BY <1>1, EmptyPresent DEF Init, CommittedPresent
<1>6. Shape
  BY DEF Init, Shape, NoResult
<1>7. ASSUME NEW w \in Workers PROVE WorkerRight(w)
  <2>1. pc[w] = "sleep"
    BY DEF Init
  <2> QED
    BY <2>1 DEF WorkerRight, StartsCommitted, RowsContinue, ResultRight, WritesInOrder
<1> QED
  BY <1>3, <1>4, <1>5, <1>6, <1>7 DEF IntegrationInv

\* A worker that goes to sleep holds nothing.
LEMMA SleepRight ==
    ASSUME NEW w, pc'[w] = "sleep"
    PROVE  WorkerRight(w)'
BY DEF WorkerRight, StartsCommitted, RowsContinue, ResultRight, WritesInOrder

\* What others do cannot invalidate what a worker has read and computed.
LEMMA WorkerFrame ==
    ASSUME IntegrationInv, NEW w \in Workers,
           pc'[w] = pc[w], from'[w] = from[w], rows'[w] = rows[w],
           result'[w] = result[w], bundles'[w] = bundles[w],
           DOMAIN store \subseteq DOMAIN store', marked \subseteq marked',
           next_index' \in Nat, next_index <= next_index'
    PROVE  WorkerRight(w)'
<1>0. WorkerRight(w) /\ next_index \in Nat /\ next_index' \in Nat /\ \A n \in marked : n \in Nat
  BY TileLayoutAssumption DEF IntegrationInv, DatabaseExact, CommittedPresent
<1>1. StartsCommitted(w)'
  BY <1>0 DEF WorkerRight, StartsCommitted
<1>2. pc[w] # "sleep" => from[w] \in Nat
  BY <1>0 DEF WorkerRight, StartsCommitted
<1>3. \A k : pc[w] # "sleep" /\ k \in from[w] + 1 .. next_index => k \in from[w] + 1 .. next_index'
  BY <1>0, <1>2
<1>4. RowsContinue(w)'
  BY <1>0, <1>3 DEF WorkerRight, RowsContinue
<1>5. ResultRight(w)'
  <2> SUFFICES ASSUME pc[w] \in {"tiles", "bundles", "mark"} PROVE ResultRight(w)'
    BY DEF ResultRight
  <2>1. result[w].new_size \in from[w] + 1 .. next_index
    BY <1>0 DEF WorkerRight, ResultRight
  <2>2. result[w].new_size \in from[w] + 1 .. next_index'
    BY <1>3, <2>1
  <2> QED
    BY <1>0, <2>2 DEF WorkerRight, ResultRight
<1>6. WritesInOrder(w)'
  BY <1>0 DEF WorkerRight, WritesInOrder
<1> QED
  BY <1>1, <1>4, <1>5, <1>6 DEF WorkerRight

\* So a step of worker w only has to establish what holds of w.
LEMMA OthersFrame ==
    ASSUME IntegrationInv, NEW w \in Workers, WorkerRight(w)',
           \A u \in Workers \ {w} :
                /\ pc'[u] = pc[u] /\ from'[u] = from[u] /\ rows'[u] = rows[u]
                /\ result'[u] = result[u] /\ bundles'[u] = bundles[u],
           DOMAIN store \subseteq DOMAIN store', marked \subseteq marked',
           next_index' = next_index
    PROVE  \A u \in Workers : WorkerRight(u)'
<1>1. next_index \in Nat /\ next_index' \in Nat /\ next_index <= next_index'
  BY TileLayoutAssumption DEF IntegrationInv, DatabaseExact
<1>2. ASSUME NEW u \in Workers \ {w} PROVE WorkerRight(u)'
  BY <1>1, WorkerFrame
<1> QED
  BY <1>2

\* A cycle may end at any time, whatever it has written.
LEMMA EndCycleRight ==
    ASSUME IntegrationInv, NEW w \in Workers, EndCycle(w),
           DOMAIN store \subseteq DOMAIN store', marked \subseteq marked',
           next_index' = next_index
    PROVE  Shape' /\ \A u \in Workers : WorkerRight(u)'
<1>1. Shape
  BY DEF IntegrationInv
<1>2. Shape'
  BY <1>1 DEF Shape, EndCycle, NoResult
<1>3. pc'[w] = "sleep"
  BY <1>1 DEF Shape, EndCycle
<1>4. WorkerRight(w)'
  BY <1>3, SleepRight
<1>5. \A u \in Workers \ {w} :
         /\ pc'[u] = pc[u] /\ from'[u] = from[u] /\ rows'[u] = rows[u]
         /\ result'[u] = result[u] /\ bundles'[u] = bundles[u]
  BY <1>1 DEF Shape, EndCycle
<1> QED
  BY <1>2, <1>4, <1>5, OthersFrame

\* What the size a cycle started from guarantees.
LEMMA StartFacts ==
    ASSUME IntegrationInv, NEW w \in Workers, pc[w] # "sleep"
    PROVE  /\ from[w] \in marked /\ from[w] \in 0 .. next_index /\ from[w] \in Nat
           /\ Present(store, from[w]) /\ next_index \in Nat
<1>1. next_index \in Nat
  BY TileLayoutAssumption DEF IntegrationInv, DatabaseExact
<1>2. from[w] \in marked
  BY DEF IntegrationInv, WorkerRight, StartsCommitted
<1>3. from[w] \in 0 .. next_index /\ Present(store, from[w])
  BY <1>2 DEF IntegrationInv, CommittedPresent
<1> QED
  BY <1>1, <1>2, <1>3

\* The database and the storage keep their part when neither changes.
LEMMA DatabaseFrame ==
    ASSUME IntegrationInv, UNCHANGED <<dbVars, store>>
    PROVE  /\ DatabaseExact' /\ StoreExact' /\ CommittedPresent'
           /\ DOMAIN store \subseteq DOMAIN store' /\ marked \subseteq marked'
           /\ next_index' = next_index
BY DEF IntegrationInv, DatabaseExact, StoreExact, CommittedPresent, dbVars

-----------------------------------------------------------------------------
\* A new row continues the log.
LEMMA SequenceEntryInv ==
    ASSUME IntegrationInv, SequenceEntry
    PROVE  IntegrationInv'
<1>0. /\ next_index \in Nat /\ integrated_size \in Nat /\ integrated_size <= next_index
      /\ next_index' = next_index + 1 /\ next_index < MaxSize /\ MaxSize \in Nat
  BY TileLayoutAssumption DEF IntegrationInv, DatabaseExact, SequenceEntry
<1>1. ASSUME NEW m \in Nat, m <= next_index
      PROVE  Extend(EntriesFrom(m, next_index), [i \in {next_index} |-> EntryAt[i]])
                = EntriesFrom(m, next_index + 1)
  <2>1. (m .. next_index - 1) \cup {next_index} = m .. (next_index + 1) - 1
    BY <1>0, <1>1
  <2>2. next_index \notin m .. next_index - 1
    BY <1>0
  <2> QED
    BY <2>1, <2>2 DEF Extend, EntriesFrom
<1>2. DatabaseExact'
  <2>0. 0 \in Nat /\ 0 <= next_index /\ sequenced = EntriesFrom(0, next_index)
    BY <1>0 DEF IntegrationInv, DatabaseExact, LogTo
  <2>1. sequenced' = LogTo(next_index')
    <3>1. Extend(EntriesFrom(0, next_index), [i \in {next_index} |-> EntryAt[i]])
            = EntriesFrom(0, next_index + 1)
      BY <1>1, <2>0
    <3> QED
      BY <1>0, <2>0, <3>1 DEF SequenceEntry, LogTo
  <2>2. pending' = EntriesFrom(integrated_size, next_index')
    BY <1>0, <1>1 DEF IntegrationInv, DatabaseExact, SequenceEntry
  <2>3. next_index' \in 0 .. MaxSize /\ integrated_size' \in 0 .. next_index'
    BY <1>0 DEF SequenceEntry
  <2>4. integrated_size' = integrated_size /\ root_hash' = root_hash
    BY DEF SequenceEntry
  <2>5. root_hash = IF integrated_size = 0 THEN NoRoot ELSE LogTo(integrated_size)
    BY DEF IntegrationInv, DatabaseExact
  <2> QED
    BY <2>1, <2>2, <2>3, <2>4, <2>5 DEF DatabaseExact, LogTo, EntriesFrom
<1>3. StoreExact'
  BY DEF IntegrationInv, StoreExact, SequenceEntry
<1>4. CommittedPresent'
  <2>1. integrated_size \in marked /\ \A n \in marked : n \in 0 .. next_index /\ Present(store, n)
    BY DEF IntegrationInv, CommittedPresent
  <2>2. \A n \in marked : n \in 0 .. next_index'
    BY <1>0, <2>1
  <2>3. UNCHANGED <<integrated_size, marked, store>>
    BY DEF SequenceEntry
  <2> QED
    BY <2>1, <2>2, <2>3 DEF CommittedPresent
<1>5. Shape'
  BY DEF IntegrationInv, Shape, SequenceEntry
<1>6. ASSUME NEW w \in Workers PROVE WorkerRight(w)'
  BY <1>0, WorkerFrame DEF SequenceEntry
<1> QED
  BY <1>2, <1>3, <1>4, <1>5, <1>6 DEF IntegrationInv

\* The size a cycle reads is committed.
LEMMA GetLogStateInv ==
    ASSUME IntegrationInv, NEW w \in Workers, GetLogState(w)
    PROVE  IntegrationInv'
<1>1. Shape /\ integrated_size \in marked
  BY DEF IntegrationInv, CommittedPresent
<1>2. /\ DatabaseExact' /\ StoreExact' /\ CommittedPresent'
      /\ DOMAIN store \subseteq DOMAIN store' /\ marked \subseteq marked'
      /\ next_index' = next_index
  BY DatabaseFrame DEF GetLogState
<1>3. Shape'
  BY <1>1 DEF Shape, GetLogState
<1>4. pc'[w] = "pending" /\ from'[w] = integrated_size
  BY <1>1 DEF Shape, GetLogState
<1>5. WorkerRight(w)'
  BY <1>1, <1>2, <1>4 DEF WorkerRight, StartsCommitted, RowsContinue, ResultRight, WritesInOrder
<1>6. \A u \in Workers \ {w} :
         /\ pc'[u] = pc[u] /\ from'[u] = from[u] /\ rows'[u] = rows[u]
         /\ result'[u] = result[u] /\ bundles'[u] = bundles[u]
  BY <1>1 DEF Shape, GetLogState
<1> QED
  BY <1>2, <1>3, <1>5, <1>6, OthersFrame DEF IntegrationInv

\* The rows a cycle goes on with continue the size it read, whatever was committed
\* and deleted in between.
LEMMA GetPendingEntriesInv ==
    ASSUME IntegrationInv, NEW w \in Workers, GetPendingEntries(w)
    PROVE  IntegrationInv'
<1> DEFINE m == from[w]
           found == PendingIndices(m)
           c == Cardinality(found)
           contiguous == found = m .. m + c - 1
<1>1. Shape /\ pc[w] = "pending" /\ WorkerRight(w) /\ DatabaseExact
  BY DEF IntegrationInv, GetPendingEntries
<1>2. /\ DatabaseExact' /\ StoreExact' /\ CommittedPresent'
      /\ DOMAIN store \subseteq DOMAIN store' /\ marked \subseteq marked'
      /\ next_index' = next_index
  BY DatabaseFrame DEF GetPendingEntries
<1>3. CASE found # {} /\ contiguous
  <2>0. found = m .. m + c - 1 /\ found # {}
    BY <1>3
  <2>1. /\ rows' = [rows EXCEPT ![w] = [i \in found |-> pending[i]]]
        /\ pc' = [pc EXCEPT ![w] = "integrate"]
        /\ UNCHANGED <<from, result, bundles>>
    BY <1>3 DEF GetPendingEntries
  <2>2. /\ m \in marked /\ m \in Nat /\ next_index \in Nat /\ integrated_size \in Nat
        /\ DOMAIN pending = integrated_size .. next_index - 1
        /\ \A i \in DOMAIN pending : pending[i] = EntryAt[i]
    <3>1. next_index \in Nat /\ integrated_size \in Nat /\ pending = EntriesFrom(integrated_size, next_index)
      BY <1>1, TileLayoutAssumption DEF DatabaseExact
    <3>2. m \in marked /\ \A n \in marked : n \in 0 .. next_index
      BY <1>1 DEF IntegrationInv, CommittedPresent, WorkerRight, StartsCommitted
    <3>3. m \in Nat
      BY <3>1, <3>2
    <3>4. DOMAIN pending = integrated_size .. next_index - 1
      BY <3>1 DEF EntriesFrom
    <3>5. ASSUME NEW i \in integrated_size .. next_index - 1 PROVE pending[i] = EntryAt[i]
      BY <3>1 DEF EntriesFrom
    <3> QED
      BY <3>1, <3>2, <3>3, <3>4, <3>5
  <2>3. found \subseteq integrated_size .. next_index - 1
    BY <2>2 DEF PendingIndices
  <2>4. IsFiniteSet(found) /\ c \in Nat
    <3>1. IsFiniteSet(integrated_size .. next_index - 1)
      BY <2>2, FS_Interval
    <3> QED
      BY <2>3, <3>1, FS_Subset, FS_CardinalityType
  <2> HIDE DEF found, c, m
  <2>5. c > 0
    BY <2>0, <2>2, <2>4
  <2>6. m + c - 1 \in found
    BY <2>0, <2>2, <2>4, <2>5
  <2>7. m + c \in m + 1 .. next_index
    BY <2>2, <2>3, <2>4, <2>5, <2>6
  <2>8. [i \in found |-> pending[i]] = EntriesFrom(m, m + c)
    <3>0. m + c - 1 = (m + c) - 1
      BY <2>2, <2>4
    <3>1. found = m .. (m + c) - 1
      BY <2>0, <3>0
    <3>2. ASSUME NEW i \in found PROVE pending[i] = EntryAt[i]
      BY <2>2, <2>3
    <3> QED
      BY <3>1, <3>2 DEF EntriesFrom
  <2>9. pc'[w] = "integrate" /\ rows'[w] = EntriesFrom(m, m + c) /\ from'[w] = m
    BY <1>1, <2>1, <2>8 DEF Shape, m
  <2>10. WorkerRight(w)'
    BY <1>2, <2>2, <2>7, <2>9 DEF WorkerRight, StartsCommitted, RowsContinue, ResultRight, WritesInOrder
  <2>11. Shape'
    BY <1>1, <2>1 DEF Shape
  <2>12. \A u \in Workers \ {w} :
           /\ pc'[u] = pc[u] /\ from'[u] = from[u] /\ rows'[u] = rows[u]
           /\ result'[u] = result[u] /\ bundles'[u] = bundles[u]
    BY <1>1, <2>1 DEF Shape
  <2> QED
    BY <1>2, <2>10, <2>11, <2>12, OthersFrame DEF IntegrationInv
<1>4. CASE ~(found # {} /\ contiguous)
  <2>1. EndCycle(w)
    BY <1>4 DEF GetPendingEntries
  <2> QED
    BY <1>2, <2>1, EndCycleRight DEF IntegrationInv
<1> QED
  BY <1>3, <1>4

\* What a cycle computes from the stored tiles and the rows it read is the tree of
\* the log, although other workers wrote and write those tiles.
LEMMA IntegrateInv ==
    ASSUME IntegrationInv, NEW w \in Workers, Integrate(w)
    PROVE  IntegrationInv'
<1>1. Shape /\ pc[w] = "integrate" /\ WorkerRight(w) /\ StoreExact
  BY DEF IntegrationInv, Integrate
<1>2. /\ DatabaseExact' /\ StoreExact' /\ CommittedPresent'
      /\ DOMAIN store \subseteq DOMAIN store' /\ marked \subseteq marked'
      /\ next_index' = next_index
  BY DatabaseFrame DEF Integrate
<1>3. CASE ~LeavesReadable(store, from[w])
  <2>1. EndCycle(w)
    BY <1>3 DEF Integrate
  <2> QED
    BY <1>2, <2>1, EndCycleRight DEF IntegrationInv
<1>4. CASE LeavesReadable(store, from[w])
  <2> DEFINE m == from[w]
             size == m + Cardinality(DOMAIN rows[w])
             leaves == Extend(LoadedLeaves(store, m), rows[w])
             paths == {TileOf(t[1], t[2], size) : t \in TouchedTiles(m, size)}
             tiles == [o \in paths |-> NewTile(store, o.level, o.index, m, size, leaves)]
  <2>1. /\ result' = [result EXCEPT ![w] =
                [new_size |-> size, root_hash |-> leaves, tiles |-> tiles]]
        /\ bundles' = [bundles EXCEPT ![w] = TouchedBundles(m, size)]
        /\ pc' = [pc EXCEPT ![w] = "tiles"]
        /\ UNCHANGED <<from, rows>>
    BY <1>4 DEF Integrate
  <2>2. m \in marked /\ m \in 0 .. next_index /\ Present(store, m) /\ next_index \in Nat
    BY <1>1, StartFacts
  <2>3. PICK n \in m + 1 .. next_index : rows[w] = EntriesFrom(m, n)
    BY <1>1 DEF WorkerRight, RowsContinue
  <2>4. m \in Nat /\ n \in Nat /\ m < n
    BY <2>2, <2>3
  <2>5. DOMAIN rows[w] = m .. n - 1
    BY <2>3 DEF EntriesFrom
  <2>6. size = n
    <3>1. Cardinality(m .. n - 1) = n - m
      BY <2>4, FS_Interval
    <3> QED
      BY <2>4, <2>5, <3>1
  <2>7. leaves = LogTo(n)
    <3>1. LoadedLeaves(store, m) = [k \in 0 .. m - 1 |-> EntryAt[k]]
      BY <1>1, <1>4, <2>4, LoadedExact DEF StoreExact
    <3>2. (0 .. m - 1) \cup (m .. n - 1) = 0 .. n - 1
      BY <2>4
    <3> QED
      BY <2>3, <2>5, <3>1, <3>2 DEF Extend, EntriesFrom, LogTo
  <2> HIDE DEF size, leaves
  <2>8. Agree(leaves, EntryAt, n)
    BY <2>7 DEF Agree, LogTo, EntriesFrom
  <2>9. ASSUME NEW o \in DOMAIN tiles PROVE tiles[o] = ContentOf(o, EntryAt)
    <3>1. PICK t \in TouchedTiles(m, n) : o = TileOf(t[1], t[2], n)
      BY <2>6
    <3>2. NewTile(store, o.level, o.index, m, n, leaves) = ContentOf(o, EntryAt)
      BY <1>1, <2>2, <2>4, <2>8, <3>1, BuiltTilesExact DEF StoreExact
    <3> QED
      BY <2>6, <3>2
  <2>10. \A t \in TouchedTiles(m, n) : TileOf(t[1], t[2], n) \in DOMAIN tiles
    BY <2>6
  <2> HIDE DEF tiles, m
  <2>11. /\ pc'[w] = "tiles" /\ from'[w] = m /\ rows'[w] = rows[w]
         /\ result'[w].new_size = n /\ result'[w].root_hash = LogTo(n)
         /\ result'[w].tiles = tiles /\ bundles'[w] = TouchedBundles(m, n)
    BY <1>1, <2>1, <2>6, <2>7 DEF Shape, m
  <2>12. WorkerRight(w)'
    <3>1. StartsCommitted(w)'
      BY <1>2, <2>2, <2>11 DEF StartsCommitted
    <3>2. RowsContinue(w)' /\ WritesInOrder(w)'
      BY <2>11 DEF RowsContinue, WritesInOrder
    <3>3. ResultRight(w)'
      BY <1>2, <2>3, <2>9, <2>10, <2>11 DEF ResultRight
    <3> QED
      BY <3>1, <3>2, <3>3 DEF WorkerRight
  <2>13. Shape'
    BY <1>1, <2>1 DEF Shape
  <2>14. \A u \in Workers \ {w} :
           /\ pc'[u] = pc[u] /\ from'[u] = from[u] /\ rows'[u] = rows[u]
           /\ result'[u] = result[u] /\ bundles'[u] = bundles[u]
    BY <1>1, <2>1 DEF Shape
  <2> QED
    BY <1>2, <2>12, <2>13, <2>14, OthersFrame DEF IntegrationInv
<1> QED
  BY <1>3, <1>4

\* The storage part of a step that writes one object.
LEMMA WriteFrame ==
    ASSUME IntegrationInv, UNCHANGED dbVars, NEW o,
           store' = Extend(store, [x \in {o} |-> ContentOf(o, EntryAt)])
    PROVE  /\ DatabaseExact' /\ StoreExact' /\ CommittedPresent'
           /\ DOMAIN store' = DOMAIN store \cup {o}
           /\ DOMAIN store \subseteq DOMAIN store' /\ marked \subseteq marked'
           /\ next_index' = next_index
<1>1. Exact(store', EntryAt) /\ DOMAIN store' = DOMAIN store \cup {o}
  BY WriteExact DEF IntegrationInv, StoreExact
<1>2. DOMAIN store \subseteq DOMAIN store'
  BY <1>1
<1>3. DatabaseExact'
  BY DEF IntegrationInv, DatabaseExact, dbVars
<1>4. CommittedPresent'
  BY <1>2, PresentStays DEF IntegrationInv, CommittedPresent, dbVars
<1> QED
  BY <1>1, <1>2, <1>3, <1>4 DEF StoreExact, dbVars

\* A written tile is no longer to be written, and is stored.
LEMMA WriteTileInv ==
    ASSUME IntegrationInv, NEW w \in Workers, NEW o \in DOMAIN result[w].tiles, WriteTile(w, o)
    PROVE  IntegrationInv'
<1> DEFINE m == from[w]
           n == result[w].new_size
           rest == [x \in DOMAIN result[w].tiles \ {o} |-> result[w].tiles[x]]
           next == IF DOMAIN result[w].tiles = {o} THEN "bundles" ELSE "tiles"
<1>1. Shape /\ pc[w] = "tiles" /\ WorkerRight(w)
  BY DEF IntegrationInv, WriteTile
<1>2. ResultRight(w)
  BY <1>1 DEF WorkerRight
<1>3. result[w].tiles[o] = ContentOf(o, EntryAt)
  BY <1>1, <1>2 DEF ResultRight
<1>4. /\ DatabaseExact' /\ StoreExact' /\ CommittedPresent'
      /\ DOMAIN store' = DOMAIN store \cup {o}
      /\ DOMAIN store \subseteq DOMAIN store' /\ marked \subseteq marked'
      /\ next_index' = next_index
  BY <1>3, WriteFrame DEF WriteTile
<1>5. /\ pc'[w] = next /\ from'[w] = m /\ rows'[w] = rows[w]
      /\ bundles'[w] = bundles[w]
  BY <1>1 DEF Shape, WriteTile
<1>6. /\ result'[w].new_size = n /\ result'[w].root_hash = result[w].root_hash
      /\ result'[w].tiles = rest
  BY <1>1 DEF Shape, WriteTile
<1>7. Shape'
  BY <1>1 DEF Shape, WriteTile
<1>8. WorkerRight(w)'
  <2>1. StartsCommitted(w)' /\ RowsContinue(w)'
    BY <1>1, <1>4, <1>5 DEF WorkerRight, StartsCommitted, RowsContinue
  <2>2. WritesInOrder(w)'
    BY <1>5, <1>6 DEF WritesInOrder
  <2>3. /\ n \in m + 1 .. next_index
        /\ rows[w] = EntriesFrom(m, n)
        /\ result[w].root_hash = LogTo(n)
        /\ \A x \in DOMAIN result[w].tiles : result[w].tiles[x] = ContentOf(x, EntryAt)
        /\ \A t \in TouchedTiles(m, n) :
             TileOf(t[1], t[2], n) \in DOMAIN store \cup DOMAIN result[w].tiles
        /\ bundles[w] \subseteq TouchedBundles(m, n)
        /\ \A i \in TouchedBundles(m, n) : i \in bundles[w] \/ EntriesOf(i, n) \in DOMAIN store
    BY <1>1, <1>2 DEF ResultRight
  <2>4. DOMAIN rest = DOMAIN result[w].tiles \ {o}
        /\ \A x \in DOMAIN rest : rest[x] = ContentOf(x, EntryAt)
    BY <2>3
  <2>5. \A t \in TouchedTiles(m, n) : TileOf(t[1], t[2], n) \in DOMAIN store' \cup DOMAIN rest
    BY <1>4, <2>3, <2>4
  <2> HIDE DEF m, n, rest, next
  <2>6. ResultRight(w)'
    BY <1>4, <1>5, <1>6, <2>3, <2>4, <2>5 DEF ResultRight
  <2> QED
    BY <2>1, <2>2, <2>6 DEF WorkerRight
<1>9. \A u \in Workers \ {w} :
         /\ pc'[u] = pc[u] /\ from'[u] = from[u] /\ rows'[u] = rows[u]
         /\ result'[u] = result[u] /\ bundles'[u] = bundles[u]
  BY <1>1 DEF Shape, WriteTile
<1> QED
  BY <1>4, <1>7, <1>8, <1>9, OthersFrame DEF IntegrationInv

\* An entry bundle that a cycle writes is exactly that bundle of the new tree.
LEMMA BundleExact ==
    ASSUME NEW w, NEW i, NEW m \in Nat, NEW n \in Nat, m < n,
           i \in TouchedBundles(m, n), rows[w] = EntriesFrom(m, n),
           NEW p, p = ExistingPartial(m, i), NEW old,
           p > 0 => old = ContentOf(EntriesPath(i, p), EntryAt),
           p = 0 => old = Empty
    PROVE  Extend(old, BundleRows(w, i)) = ContentOf(EntriesOf(i, n), EntryAt)
<1>1. i \in Nat /\ m \div W <= i /\ i * W < n
  <2>1. n \in Nat \ {0}
    OBVIOUS
  <2> QED
    BY <2>1, TouchedBundleIsOfTree
<1>2. p = IF i = m \div W THEN m % W ELSE 0
  BY DEF ExistingPartial
<1> DEFINE before == IF p > 0 THEN i * W .. m - 1 ELSE {}
           added  == {j \in m .. n - 1 : j \div W = i}
<1>3. /\ p \in Nat
      /\ p > 0 => LeavesOf(EntriesPath(i, p)) = i * W .. m - 1
      /\ Covered(0, i, n) = before \cup added
  BY <1>1, <1>2, BundleSplits
<1>4. Covered(0, i, n) = LeavesOf(EntriesOf(i, n))
  BY <1>1, BundleLeaves
<1>5. DOMAIN old = before /\ \A k \in before : old[k] = EntryAt[k]
  <2>1. CASE p > 0
    BY <1>3, <2>1 DEF ContentOf
  <2>2. CASE p = 0
    BY <1>3, <2>2 DEF Empty
  <2> QED
    BY <1>3, <2>1, <2>2
<1>6. DOMAIN BundleRows(w, i) = added /\ \A k \in added : BundleRows(w, i)[k] = EntryAt[k]
  <2>1. DOMAIN rows[w] = m .. n - 1 /\ \A k \in m .. n - 1 : rows[w][k] = EntryAt[k]
    BY DEF EntriesFrom
  <2> QED
    BY <2>1 DEF BundleRows
<1> HIDE DEF before, added
<1>7. Extend(old, BundleRows(w, i)) = [k \in before \cup added |-> EntryAt[k]]
  BY <1>5, <1>6 DEF Extend
<1> QED
  BY <1>3, <1>4, <1>7 DEF ContentOf

\* A bundle is written whole, or the cycle ends.
LEMMA WriteEntryBundleInv ==
    ASSUME IntegrationInv, NEW w \in Workers, NEW i \in bundles[w], WriteEntryBundle(w, i)
    PROVE  IntegrationInv'
<1> DEFINE m == from[w]
           n == result[w].new_size
           p == ExistingPartial(m, i)
           previous == EntriesPath(i, p)
           readable == previous \in DOMAIN store /\ Cardinality(DOMAIN store[previous]) = p
           old == IF p > 0 THEN store[previous] ELSE Empty
           next == IF bundles[w] = {i} THEN "mark" ELSE "bundles"
<1>1. Shape /\ pc[w] = "bundles" /\ WorkerRight(w) /\ UNCHANGED dbVars
  BY DEF IntegrationInv, WriteEntryBundle
<1>2. CASE p > 0 /\ ~readable
  <2>1. EndCycle(w) /\ UNCHANGED store
    BY <1>2 DEF WriteEntryBundle
  <2>2. /\ DatabaseExact' /\ StoreExact' /\ CommittedPresent'
        /\ DOMAIN store \subseteq DOMAIN store' /\ marked \subseteq marked'
        /\ next_index' = next_index
    BY <1>1, <2>1, DatabaseFrame
  <2> QED
    BY <2>1, <2>2, EndCycleRight DEF IntegrationInv
<1>3. CASE ~(p > 0 /\ ~readable)
  <2>1. /\ store' = Extend(store, [x \in {EntriesOf(i, n)} |-> Extend(old, BundleRows(w, i))])
        /\ bundles' = [bundles EXCEPT ![w] = @ \ {i}]
        /\ pc' = [pc EXCEPT ![w] = next]
        /\ UNCHANGED <<from, rows, result>>
    BY <1>3 DEF WriteEntryBundle
  <2>2. /\ n \in m + 1 .. next_index
        /\ rows[w] = EntriesFrom(m, n)
        /\ result[w].root_hash = LogTo(n)
        /\ \A x \in DOMAIN result[w].tiles : result[w].tiles[x] = ContentOf(x, EntryAt)
        /\ \A t \in TouchedTiles(m, n) :
             TileOf(t[1], t[2], n) \in DOMAIN store \cup DOMAIN result[w].tiles
        /\ bundles[w] \subseteq TouchedBundles(m, n)
        /\ \A j \in TouchedBundles(m, n) : j \in bundles[w] \/ EntriesOf(j, n) \in DOMAIN store
    BY <1>1 DEF WorkerRight, ResultRight
  <2>3. /\ m \in Nat /\ n \in Nat /\ m < n /\ i \in TouchedBundles(m, n)
    BY <1>1, <2>2, StartFacts
  <2>4. /\ p > 0 => old = ContentOf(previous, EntryAt)
        /\ p = 0 => old = Empty
    BY <1>3 DEF IntegrationInv, StoreExact, Exact
  <2>5. Extend(old, BundleRows(w, i)) = ContentOf(EntriesOf(i, n), EntryAt)
    BY <2>2, <2>3, <2>4, BundleExact
  <2>6. /\ DatabaseExact' /\ StoreExact' /\ CommittedPresent'
        /\ DOMAIN store' = DOMAIN store \cup {EntriesOf(i, n)}
        /\ DOMAIN store \subseteq DOMAIN store' /\ marked \subseteq marked'
        /\ next_index' = next_index
    BY <1>1, <2>1, <2>5, WriteFrame
  <2>7. /\ pc'[w] = next /\ from'[w] = m /\ rows'[w] = rows[w]
        /\ bundles'[w] = bundles[w] \ {i} /\ result' = result
    BY <1>1, <2>1 DEF Shape
  <2>8. Shape'
    BY <1>1, <2>1 DEF Shape
  <2>9. WorkerRight(w)'
    <3>1. StartsCommitted(w)' /\ RowsContinue(w)'
      BY <1>1, <2>6, <2>7 DEF WorkerRight, StartsCommitted, RowsContinue
    <3>2. WritesInOrder(w)'
      BY <1>1, <2>7 DEF WorkerRight, WritesInOrder
    <3>3. \A j \in TouchedBundles(m, n) : j \in bundles'[w] \/ EntriesOf(j, n) \in DOMAIN store'
      BY <2>2, <2>6, <2>7
    <3> HIDE DEF m, n, next
    <3>4. ResultRight(w)'
      BY <2>2, <2>6, <2>7, <3>3 DEF ResultRight, n
    <3> QED
      BY <3>1, <3>2, <3>4 DEF WorkerRight
  <2>10. \A u \in Workers \ {w} :
           /\ pc'[u] = pc[u] /\ from'[u] = from[u] /\ rows'[u] = rows[u]
           /\ result'[u] = result[u] /\ bundles'[u] = bundles[u]
    BY <1>1, <2>1 DEF Shape
  <2> QED
    BY <2>6, <2>8, <2>9, <2>10, OthersFrame DEF IntegrationInv
<1> QED
  BY <1>2, <1>3

\* A worker that finds the size it started from commits a tree whose objects are
\* all stored; any other commits nothing.
LEMMA MarkIntegratedInv ==
    ASSUME IntegrationInv, NEW w \in Workers, MarkIntegrated(w)
    PROVE  IntegrationInv'
<1> DEFINE m == from[w]
           n == result[w].new_size
<1>1. /\ Shape /\ pc[w] = "mark" /\ WorkerRight(w) /\ EndCycle(w)
      /\ UNCHANGED <<next_index, sequenced, store>>
  BY DEF IntegrationInv, MarkIntegrated
<1>2. CASE ~StillCurrent(w)
  <2>1. UNCHANGED <<dbVars, store>>
    BY <1>2 DEF MarkIntegrated, dbVars
  <2>2. /\ DatabaseExact' /\ StoreExact' /\ CommittedPresent'
        /\ DOMAIN store \subseteq DOMAIN store' /\ marked \subseteq marked'
        /\ next_index' = next_index
    BY <2>1, DatabaseFrame
  <2> QED
    BY <1>1, <2>2, EndCycleRight DEF IntegrationInv
<1>3. CASE StillCurrent(w)
  <2>1. /\ integrated_size' = n /\ root_hash' = result[w].root_hash
        /\ pending' = [i \in Kept(n) |-> pending[i]] /\ marked' = marked \cup {n}
    BY <1>3 DEF MarkIntegrated
  <2>2. /\ n \in m + 1 .. next_index
        /\ result[w].root_hash = LogTo(n)
        /\ \A t \in TouchedTiles(m, n) : TileOf(t[1], t[2], n) \in DOMAIN store
        /\ \A j \in TouchedBundles(m, n) : EntriesOf(j, n) \in DOMAIN store
    BY <1>1 DEF WorkerRight, ResultRight, WritesInOrder
  <2>3. /\ m \in Nat /\ n \in Nat /\ m < n /\ next_index \in Nat /\ n <= next_index
        /\ Present(store, m) /\ integrated_size = m
    BY <1>1, <1>3, <2>2, StartFacts DEF StillCurrent
  <2>4. Present(store, n)
    BY <2>2, <2>3, PresentGrows
  <2>5. pending' = EntriesFrom(n, next_index)
    <3>1. DOMAIN pending = m .. next_index - 1 /\ \A i \in m .. next_index - 1 : pending[i] = EntryAt[i]
      BY <2>3 DEF IntegrationInv, DatabaseExact, EntriesFrom
    <3>2. Kept(n) = n .. next_index - 1
      BY <2>3, <3>1 DEF Kept
    <3>3. \A i \in n .. next_index - 1 : i \in m .. next_index - 1
      BY <2>3
    <3> QED
      BY <2>1, <3>1, <3>2, <3>3 DEF EntriesFrom
  <2> HIDE DEF m, n
  <2>6. DatabaseExact'
    <3>1. next_index' \in 0 .. MaxSize /\ sequenced' = LogTo(next_index')
      BY <1>1 DEF IntegrationInv, DatabaseExact, LogTo, EntriesFrom
    <3>2. integrated_size' \in 0 .. next_index'
      BY <1>1, <2>1, <2>3
    <3>3. pending' = EntriesFrom(integrated_size', next_index')
      BY <1>1, <2>1, <2>5
    <3>4. root_hash' = IF integrated_size' = 0 THEN NoRoot ELSE LogTo(integrated_size')
      BY <2>1, <2>2, <2>3
    <3> QED
      BY <3>1, <3>2, <3>3, <3>4 DEF DatabaseExact, LogTo, EntriesFrom
  <2>7. StoreExact'
    BY <1>1 DEF IntegrationInv, StoreExact
  <2>8. CommittedPresent'
    <3>1. \A k \in marked : k \in 0 .. next_index /\ Present(store, k)
      BY DEF IntegrationInv, CommittedPresent
    <3>2. n \in 0 .. next_index
      BY <2>3
    <3> QED
      BY <1>1, <2>1, <2>4, <3>1, <3>2 DEF CommittedPresent
  <2> QED
    BY <1>1, <2>1, <2>6, <2>7, <2>8, EndCycleRight DEF IntegrationInv
<1> QED
  BY <1>2, <1>3

\* Every step keeps the invariant.
LEMMA StepInv == IntegrationInv /\ [Next]_vars => IntegrationInv'
<1> SUFFICES ASSUME IntegrationInv, [Next]_vars PROVE IntegrationInv'
  OBVIOUS
<1>1. CASE SequenceEntry
  BY <1>1, SequenceEntryInv
<1>2. ASSUME NEW w \in Workers, CycleStep(w) PROVE IntegrationInv'
  <2>1. CASE GetLogState(w)
    BY <2>1, GetLogStateInv
  <2>2. CASE GetPendingEntries(w)
    BY <2>2, GetPendingEntriesInv
  <2>3. CASE Integrate(w)
    BY <2>3, IntegrateInv
  <2>4. ASSUME NEW o \in DOMAIN result[w].tiles, WriteTile(w, o) PROVE IntegrationInv'
    BY <2>4, WriteTileInv
  <2>5. ASSUME NEW i \in bundles[w], WriteEntryBundle(w, i) PROVE IntegrationInv'
    BY <2>5, WriteEntryBundleInv
  <2>6. CASE MarkIntegrated(w)
    BY <2>6, MarkIntegratedInv
  <2> QED
    BY <1>2, <2>1, <2>2, <2>3, <2>4, <2>5, <2>6 DEF CycleStep
<1>3. ASSUME NEW w \in Workers, Abandon(w) PROVE IntegrationInv'
  <2>1. /\ DatabaseExact' /\ StoreExact' /\ CommittedPresent'
        /\ DOMAIN store \subseteq DOMAIN store' /\ marked \subseteq marked'
        /\ next_index' = next_index
    BY <1>3, DatabaseFrame DEF Abandon
  <2> QED
    BY <1>3, <2>1, EndCycleRight DEF IntegrationInv, Abandon
<1>4. CASE UNCHANGED vars
  BY <1>4 DEF vars, dbVars, IntegrationInv, DatabaseExact, StoreExact, CommittedPresent, Shape,
              WorkerRight, StartsCommitted, RowsContinue, ResultRight, WritesInOrder
<1>5. CASE Idle
  BY <1>4, <1>5 DEF Idle
<1> QED
  BY <1>1, <1>2, <1>3, <1>4, <1>5 DEF Next

\* The inductive invariant holds throughout.
THEOREM IntegrationInvariant == Spec => []IntegrationInv
BY InitInv, StepInv, PTL DEF Spec

-----------------------------------------------------------------------------
\* The committed root is always the root of exactly the committed prefix of the
\* log, whatever the overlap of workers in run_integration_cycle.
THEOREM AlwaysCommitsLog == Spec => []RootCommitsLog
<1>1. IntegrationInv => RootCommitsLog
  <2> SUFFICES ASSUME IntegrationInv, integrated_size # 0
               PROVE  root_hash = [k \in Leaves(integrated_size) |-> sequenced[k]]
    BY DEF RootCommitsLog, IntegrationInv, DatabaseExact
  <2>1. /\ integrated_size \in Nat /\ next_index \in Nat /\ integrated_size <= next_index
        /\ sequenced = LogTo(next_index) /\ root_hash = LogTo(integrated_size)
    BY TileLayoutAssumption DEF IntegrationInv, DatabaseExact
  <2>2. ASSUME NEW k \in 0 .. integrated_size - 1 PROVE sequenced[k] = EntryAt[k]
    BY <2>1 DEF LogTo, EntriesFrom
  <2> QED
    BY <2>1, <2>2 DEF Leaves, LogTo, EntriesFrom
<1> QED
  BY <1>1, IntegrationInvariant, PTL

\* Storage can always serve every tree that mark_integrated_if_current committed.
THEOREM AlwaysServed == Spec => []CommittedTreesServed
<1>1. IntegrationInv => CommittedTreesServed
  <2> SUFFICES ASSUME IntegrationInv, NEW n \in marked PROVE TreeServed(store, n, sequenced)
    BY DEF CommittedTreesServed
  <2>1. /\ n \in 0 .. next_index /\ Present(store, n) /\ next_index \in Nat
        /\ sequenced = LogTo(next_index) /\ Exact(store, EntryAt)
    BY TileLayoutAssumption DEF IntegrationInv, DatabaseExact, CommittedPresent, StoreExact
  <2>2. n \in Nat
    BY <2>1
  <2>3. Agree(sequenced, EntryAt, n)
    BY <2>1 DEF Agree, LogTo, EntriesFrom
  <2> QED
    BY <2>1, <2>2, <2>3, PresentIsServed
<1> QED
  BY <1>1, IntegrationInvariant, PTL

\* No step adds an object other than by writing it, and none removes one.
LEMMA StoreGrows ==
    ASSUME IntegrationInv, [Next]_vars
    PROVE  DOMAIN store \subseteq DOMAIN store'
<1>1. ASSUME NEW w \in Workers, CycleStep(w) PROVE DOMAIN store \subseteq DOMAIN store'
  BY <1>1 DEF CycleStep, GetLogState, GetPendingEntries, Integrate, WriteTile, WriteEntryBundle,
              MarkIntegrated, Extend
<1>2. ASSUME NEW w \in Workers, Abandon(w) PROVE DOMAIN store \subseteq DOMAIN store'
  BY <1>2 DEF Abandon
<1>3. CASE SequenceEntry \/ Idle \/ UNCHANGED vars
  BY <1>3 DEF SequenceEntry, Idle, vars
<1> QED
  BY <1>1, <1>2, <1>3 DEF Next

\* A stored object, which the API serves as immutable, is never removed or
\* overwritten with other content.
THEOREM NeverOverwritten == Spec => ObjectsImmutable
<1>1. IntegrationInv /\ IntegrationInv' /\ [Next]_vars =>
        [\A o \in DOMAIN store : o \in DOMAIN store' /\ store'[o] = store[o]]_vars
  <2> SUFFICES ASSUME IntegrationInv, IntegrationInv', [Next]_vars, NEW o \in DOMAIN store
               PROVE  o \in DOMAIN store' /\ store'[o] = store[o]
    OBVIOUS
  <2>1. o \in DOMAIN store'
    BY StoreGrows
  <2>2. store[o] = ContentOf(o, EntryAt) /\ store'[o] = ContentOf(o, EntryAt)
    BY <2>1 DEF IntegrationInv, StoreExact, Exact
  <2> QED
    BY <2>1, <2>2
<1> QED
  BY <1>1, IntegrationInvariant, PTL DEF Spec, ObjectsImmutable

-----------------------------------------------------------------------------
\* The refinement mapping: the leaves under the committed root.
Tree == IF root_hash = NoRoot THEN Empty ELSE root_hash

\* NULL is no root, so that the mapping never confuses the two.
LEMMA TreeIsPrefix ==
    ASSUME DatabaseExact
    PROVE  Tree = LogTo(integrated_size)
<1>1. /\ integrated_size \in 0 .. MaxSize /\ integrated_size \in Nat
      /\ root_hash = IF integrated_size = 0 THEN NoRoot ELSE LogTo(integrated_size)
  BY TileLayoutAssumption DEF DatabaseExact
<1>2. CASE integrated_size = 0
  <2>1. 0 .. 0 - 1 = {}
    OBVIOUS
  <2> QED
    BY <1>1, <1>2, <2>1 DEF Tree, Empty, LogTo, EntriesFrom
<1>3. CASE integrated_size # 0
  <2>1. integrated_size \in 1 .. MaxSize
    BY <1>1, <1>3
  <2>2. NoRoot # LogTo(integrated_size)
    BY <2>1, IntegrationAssumption DEF LogTo, EntriesFrom
  <2> QED
    BY <1>1, <1>3, <2>2 DEF Tree
<1> QED
  BY <1>2, <1>3

\* The size of a prefix of the log.
LEMMA SizeOfPrefix ==
    ASSUME NEW n \in Nat
    PROVE  Cardinality(DOMAIN LogTo(n)) = n /\ DOMAIN LogTo(n) = 0 .. n - 1
<1>1. DOMAIN LogTo(n) = 0 .. n - 1
  BY DEF LogTo, EntriesFrom
<1>2. Cardinality(0 .. n - 1) = n
  BY FS_Interval
<1> QED
  BY <1>1, <1>2

\* The abstract specification means the same by the size of a function.
LEMMA AbstractSize == \A f : Abstract!Size(f) = Cardinality(DOMAIN f)
BY DEF Abstract!Size, Abstract!Cardinality, Cardinality

\* Sequencing an entry appends it.
LEMMA SequenceAppends ==
    ASSUME IntegrationInv, SequenceEntry
    PROVE  Abstract!Append(EntryAt[next_index]) /\ EntryAt[next_index] \in Entries
<1>1. /\ next_index \in Nat /\ next_index < MaxSize /\ MaxSize \in Nat
      /\ sequenced = LogTo(next_index)
      /\ sequenced' = Extend(sequenced, [i \in {next_index} |-> EntryAt[i]])
      /\ root_hash' = root_hash
  BY TileLayoutAssumption DEF IntegrationInv, DatabaseExact, SequenceEntry
<1>2. Cardinality(DOMAIN sequenced) = next_index /\ DOMAIN sequenced = 0 .. next_index - 1
  BY <1>1, SizeOfPrefix
<1>3. next_index \notin DOMAIN sequenced
  BY <1>1, <1>2
<1>4. sequenced' = [k \in DOMAIN sequenced \cup {next_index} |->
                      IF k \in DOMAIN sequenced THEN sequenced[k] ELSE EntryAt[next_index]]
  BY <1>1, <1>3 DEF Extend
<1>5. EntryAt[next_index] \in Entries
  BY <1>1, IntegrationAssumption
<1>6. Abstract!Size(sequenced) = next_index
  BY <1>2, AbstractSize
<1> QED
  BY <1>1, <1>4, <1>5, <1>6 DEF Abstract!Append

\* Committing a result grows the tree to a longer prefix of the log; losing the
\* compare-and-swap changes nothing.
LEMMA MarkGrows ==
    ASSUME IntegrationInv, IntegrationInv', NEW w \in Workers, MarkIntegrated(w)
    PROVE  \/ UNCHANGED <<sequenced, Tree>>
           \/ \E n \in 1 .. Cardinality(DOMAIN sequenced) : Abstract!Grow(n)
<1> DEFINE n == result[w].new_size
<1>1. CASE ~StillCurrent(w)
  BY <1>1 DEF MarkIntegrated, Tree
<1>2. CASE StillCurrent(w)
  <2>1. /\ integrated_size' = n /\ sequenced' = sequenced /\ next_index' = next_index
        /\ pc[w] = "mark" /\ integrated_size = from[w]
    BY <1>2 DEF MarkIntegrated, StillCurrent
  <2>2. /\ from[w] \in Nat /\ next_index \in Nat /\ n \in from[w] + 1 .. next_index
    BY <2>1, StartFacts DEF IntegrationInv, WorkerRight, ResultRight
  <2> HIDE DEF n
  <2>3. n \in 1 .. next_index /\ n > integrated_size /\ n \in Nat /\ integrated_size \in Nat
    BY <2>1, <2>2
  <2>4. Tree = LogTo(integrated_size) /\ sequenced = LogTo(next_index)
    BY TreeIsPrefix DEF IntegrationInv, DatabaseExact
  <2>5. Tree' = LogTo(n)
    <3>1. DatabaseExact'
      BY DEF IntegrationInv
    <3>2. /\ integrated_size' \in 1 .. MaxSize
          /\ root_hash' = LogTo(n)
      BY <2>1, <2>2, <2>3, <3>1, TileLayoutAssumption DEF DatabaseExact, LogTo, EntriesFrom
    <3>3. NoRoot # LogTo(n)
      BY <2>1, <3>2, IntegrationAssumption DEF LogTo, EntriesFrom
    <3> QED
      BY <3>2, <3>3 DEF Tree
  <2>6. Cardinality(DOMAIN Tree) = integrated_size /\ Cardinality(DOMAIN sequenced) = next_index
    BY <2>2, <2>3, <2>4, SizeOfPrefix
  <2>7. Tree' = [k \in 0 .. n - 1 |-> sequenced[k]]
    <3>1. ASSUME NEW k \in 0 .. n - 1 PROVE sequenced[k] = EntryAt[k]
      BY <2>2, <2>3, <2>4 DEF LogTo, EntriesFrom
    <3> QED
      BY <2>5, <3>1 DEF LogTo, EntriesFrom
  <2>8. Abstract!Grow(n)
    <3>1. Abstract!Size(Tree) = integrated_size
      BY <2>6, AbstractSize
    <3> QED
      BY <2>1, <2>3, <2>7, <3>1 DEF Abstract!Grow, Abstract!Prefix, Tree
  <2> QED
    BY <2>3, <2>6, <2>8
<1> QED
  BY <1>1, <1>2

\* The integration worker, with every overlap and crash, implements the abstract
\* log: entries are appended, and the tree is a growing prefix of them.
THEOREM RefinesLog == Spec => ImplementsLog
<1>1. Init => Abstract!Init
  BY DEF Init, Abstract!Init, Empty
<1>2. IntegrationInv /\ IntegrationInv' /\ [Next]_vars => [Abstract!Next]_<<sequenced, Tree>>
  <2> SUFFICES ASSUME IntegrationInv, IntegrationInv', [Next]_vars
               PROVE  Abstract!Next \/ UNCHANGED <<sequenced, Tree>>
    OBVIOUS
  <2>1. CASE SequenceEntry
    BY <2>1, SequenceAppends DEF Abstract!Next
  <2>2. ASSUME NEW w \in Workers, MarkIntegrated(w)
        PROVE  Abstract!Next \/ UNCHANGED <<sequenced, Tree>>
    BY <2>2, MarkGrows, AbstractSize DEF Abstract!Next
  <2>3. ASSUME UNCHANGED <<sequenced, root_hash>> PROVE UNCHANGED <<sequenced, Tree>>
    BY <2>3 DEF Tree
  <2>4. ASSUME NEW w \in Workers, CycleStep(w) \/ Abandon(w), ~MarkIntegrated(w)
        PROVE  UNCHANGED <<sequenced, root_hash>>
    BY <2>4 DEF CycleStep, GetLogState, GetPendingEntries, Integrate, WriteTile,
                WriteEntryBundle, Abandon, dbVars
  <2>5. CASE Idle \/ UNCHANGED vars
    BY <2>3, <2>5 DEF Idle, vars, dbVars
  <2> QED
    BY <2>1, <2>2, <2>3, <2>4, <2>5 DEF Next
<1>3. ImplementsLog <=> Abstract!Init /\ [][Abstract!Next]_<<sequenced, Tree>>
  BY DEF ImplementsLog, Abstract!Spec, Tree
<1> QED
  BY <1>1, <1>2, <1>3, IntegrationInvariant, PTL DEF Spec
=============================================================================
