-------------------------------- MODULE Vindex --------------------------------
(***************************************************************************)
(* The verifiable index of one server process (src/vindex): an in-memory   *)
(* map from keys to log indices with a prefix tree over it, kept on disk   *)
(* as a snapshot plus a write-ahead log. The integration worker indexes    *)
(* the entries of a cycle and syncs the WAL before it marks them           *)
(* integrated in the database; a snapshot replaces the WAL now and then;   *)
(* at startup main recovers the index from snapshot and WAL, and rebuilds  *)
(* it from the entry bundles when that fails. HTTP handlers look keys up   *)
(* meanwhile.                                                              *)
(*                                                                         *)
(* The process may die at any step, a power loss taking unsynced WAL       *)
(* records with it, and every file or database call may fail. Tiles and    *)
(* bundles are the subject of Integration and left out here. A hash over a *)
(* list of indices is represented by the list, the root of the prefix tree *)
(* by what it commits to.                                                  *)
(***************************************************************************)
EXTENDS Integers, Sequences, FiniteSets, SequencesExt

CONSTANTS
    Keys,               \* index keys
    KeysAt(_),          \* the keys map_fn extracts from the entry at an index
    LookupKeys,         \* the keys clients ask for
    BatchSize,          \* integration_batch_size
    SnapshotInterval,   \* VINDEX_SNAPSHOT_INTERVAL, 0 = never
    MaxKeys,            \* VINDEX_MAX_KEYS
    MaxIndicesPerKey,   \* VINDEX_MAX_INDICES_PER_KEY
    MaxKeysPerEntry,    \* MAX_KEYS_PER_ENTRY
    MaxSize,            \* bound on the log
    MaxCrashes,         \* bound on crashes
    MaxErrors,          \* bound on failed file and database calls
    MaxOthers,          \* bound on the times another server process advances the tree
    NoSnapshot,         \* there is no snapshot file
    Torn                \* a fragment of a record in the WAL

\* What a snapshot file can hold.
Snapshots ==
    [tree_size : 0 .. MaxSize, index : UNION {[D -> Seq(0 .. MaxSize - 1)] : D \in SUBSET Keys}]

ASSUME VindexAssumption ==
    /\ MaxSize \in Nat
    /\ IsFiniteSet(Keys)
    /\ \A i \in 0 .. MaxSize - 1 : KeysAt(i) \in SUBSET Keys
    /\ LookupKeys \subseteq Keys
    /\ BatchSize \in Nat \ {0} /\ SnapshotInterval \in Nat
    /\ MaxKeys \in Nat /\ MaxIndicesPerKey \in Nat /\ MaxKeysPerEntry \in Nat
    /\ MaxCrashes \in Nat /\ MaxErrors \in Nat /\ MaxOthers \in Nat
    /\ NoSnapshot \notin Snapshots
    /\ Torn \notin {<<i, KeysAt(i)>> : i \in 0 .. MaxSize - 1}

VARIABLES
    \* log_state in the database.
    next_index,         \* entries sequenced so far
    integrated_size,
    \* On disk.
    wal,                \* records <<index, keys>>, and Torn fragments
    synced,             \* WAL records known to be on stable storage
    snapshot,           \* NoSnapshot or [tree_size, index]
    \* In memory.
    pc,                 \* where main or the integration worker is
    rebuilding,         \* main runs rebuild_from_storage
    cursor,             \* the entry index_entry is called for
    from, upto,         \* the entries of the cycle (or of the rebuild)
    index,              \* key -> its indices
    prefix_tree,        \* key -> the indices its leaf commits to
    tree_size,
    entries_since_snapshot,
    result,             \* what a handler holds: a lookup, then its response
    overtaken,          \* history: another process advanced the tree since the start
    crashes, errors, others

diskVars   == <<wal, synced, snapshot>>
indexVars  == <<index, prefix_tree, tree_size, entries_since_snapshot>>
workerVars == <<rebuilding, cursor, from, upto>>
counters   == <<overtaken, crashes, errors, others>>
vars == <<next_index, integrated_size, diskVars, indexVars, pc, workerVars, result, counters>>

-----------------------------------------------------------------------------
Empty == [x \in {} |-> x]

Smaller(m, n) == IF m < n THEN m ELSE n
Larger(m, n)  == IF m > n THEN m ELSE n

Record(i) == <<i, KeysAt(i)>>

\* The entry i pushed onto the list of each of its keys. A list that holds i
\* already is left alone: "Defense in depth".
Pushed(f, i, keys) ==
    [k \in DOMAIN f \cup keys |->
        IF k \notin keys THEN f[k]
        ELSE IF k \notin DOMAIN f THEN <<i>>
        ELSE IF Contains(f[k], i) THEN f[k] ELSE Append(f[k], i)]

\* The members of a finite set of numbers, in ascending order.
Ascending(S) ==
    CHOOSE s \in [1 .. Cardinality(S) -> S] :
        /\ \A x \in S : \E j \in DOMAIN s : s[j] = x
        /\ \A i, j \in DOMAIN s : i < j => s[i] < s[j]

\* The index of the first n entries, by definition.
IndicesBelow(k, n) == Ascending({i \in 0 .. n - 1 : k \in KeysAt(i)})
IndexOf(n) == [k \in UNION {KeysAt(i) : i \in 0 .. n - 1} |-> IndicesBelow(k, n)]

\* Nothing is in memory.
Forget ==
    /\ index' = Empty /\ prefix_tree' = Empty
    /\ tree_size' = 0 /\ entries_since_snapshot' = 0
    /\ rebuilding' = FALSE /\ cursor' = 0 /\ from' = 0 /\ upto' = 0
    /\ result' = <<>>
    /\ overtaken' = FALSE

Init ==
    /\ next_index = 0 /\ integrated_size = 0
    /\ wal = <<>> /\ synced = 0 /\ snapshot = NoSnapshot
    /\ pc = "boot" /\ rebuilding = FALSE /\ cursor = 0 /\ from = 0 /\ upto = 0
    /\ index = Empty /\ prefix_tree = Empty /\ tree_size = 0 /\ entries_since_snapshot = 0
    /\ result = <<>> /\ overtaken = FALSE
    /\ crashes = 0 /\ errors = 0 /\ others = 0

-----------------------------------------------------------------------------
(* Startup: with_wal_and_batch_size, and rebuild_from_storage on its error  *)

\* validate_and_truncate_wal scans up to the first record that is torn or not
\* below the database's size: the number of records before it.
Scanned(w, expected) ==
    CHOOSE n \in 0 .. Len(w) :
        /\ \A j \in 1 .. n : w[j] # Torn /\ w[j][1] < expected
        /\ n < Len(w) => w[n + 1] = Torn \/ w[n + 1][1] >= expected

\* The tree size the scanned records reach.
WalSize(w) == Max({0} \cup {w[j][1] + 1 : j \in DOMAIN w})

BaseSize == IF snapshot = NoSnapshot THEN 0 ELSE snapshot.tree_size

\* What replay starts from.
Restored ==
    [index     |-> IF snapshot = NoSnapshot THEN Empty ELSE snapshot.index,
     tree_size |-> BaseSize,
     ok        |-> TRUE]

\* Mutant: gaps and repetitions in the WAL go unnoticed.
NotCompared(r, n) == FALSE
OutOfOrder(r, n) == r[1] # n

\* Replay skips the records the snapshot covers; the others must follow one
\* another.
ReplayRecord(s, r) ==
    IF ~s.ok \/ r[1] < BaseSize THEN s
    ELSE IF OutOfOrder(r, s.tree_size) THEN [index |-> s.index, tree_size |-> s.tree_size, ok |-> FALSE]
    ELSE [index     |-> Pushed(s.index, r[1], r[2]),
          tree_size |-> Larger(s.tree_size, r[1] + 1),
          ok        |-> TRUE]

\* The loop over the records: its state before each of them, and after the last.
ReplayStates(w) ==
    LET state[j \in 1 .. Len(w) + 1] ==
            IF j = 1 THEN Restored ELSE ReplayRecord(state[j - 1], w[j - 1])
    IN state
Replay(w) == ReplayStates(w)[Len(w) + 1]

Recoverable(expected) ==
    LET kept == SubSeq(wal, 1, Scanned(wal, expected))
    IN /\ BaseSize <= expected
       /\ Larger(BaseSize, WalSize(kept)) >= expected
       /\ Replay(kept).ok

\* The WAL is truncated even when recovery then fails, unless the snapshot
\* alone is enough to fail it. The file is synced if it was cut.
TruncatedWal(expected) ==
    LET n == Scanned(wal, expected)
    IN IF BaseSize > expected THEN UNCHANGED <<wal, synced>>
       ELSE /\ wal' = SubSeq(wal, 1, n)
            /\ synced' = IF n < Len(wal) THEN n ELSE synced

Recover ==
    LET replay == Replay(SubSeq(wal, 1, Scanned(wal, integrated_size)))
    IN /\ pc = "boot"
       /\ Recoverable(integrated_size)
       /\ TruncatedWal(integrated_size)
       /\ index' = replay.index
       /\ prefix_tree' = replay.index
       /\ tree_size' = replay.tree_size
       /\ entries_since_snapshot' = tree_size' - BaseSize
       /\ pc' = "up"
       /\ UNCHANGED <<integrated_size, next_index, snapshot, workerVars, result, counters>>

\* Recovery fails; the rebuild first removes the snapshot file ...
RecoverFails ==
    /\ pc = "boot"
    /\ ~Recoverable(integrated_size)
    /\ TruncatedWal(integrated_size)
    /\ snapshot' = NoSnapshot
    /\ rebuilding' = TRUE
    /\ upto' = integrated_size
    /\ pc' = "wipe"
    /\ UNCHANGED <<integrated_size, next_index, indexVars, cursor, from, result, counters>>

\* ... then the WAL, and indexes the bundles' entries from the start.
WipeWal ==
    /\ pc = "wipe"
    /\ wal' = <<>> /\ synced' = 0
    /\ rebuilding' = (upto > 0)
    /\ pc' = IF upto > 0 THEN "index" ELSE "up"
    /\ UNCHANGED <<integrated_size, next_index, snapshot, indexVars, cursor, from, upto, result, counters>>

-----------------------------------------------------------------------------
(* The integration cycle                                                    *)

\* A batch of the pending rows is read.
StartCycle ==
    /\ pc = "up"
    /\ integrated_size < next_index
    /\ from' = integrated_size /\ cursor' = integrated_size
    /\ upto' = Smaller(integrated_size + BatchSize, next_index)
    /\ pc' = "index"
    /\ UNCHANGED <<integrated_size, next_index, diskVars, indexVars, rebuilding, result, counters>>

\* An error ends the cycle; what is in memory stays. A failed rebuild ends the
\* process.
EndWithError ==
    IF rebuilding
    THEN Forget /\ pc' = "boot"
    ELSE pc' = "up" /\ UNCHANGED <<indexVars, workerVars, result, overtaken>>

\* Mutants: an entry indexed by an earlier, failed cycle is not recognised; the
\* next entry is taken for indexed.
NeverIndexed(i) == FALSE
IndexedOffByOne(i) == i <= tree_size
AlreadyIndexed(i) == i < tree_size

\* index_entry, idempotent for a retried cycle.
IndexSkip ==
    /\ pc = "index" /\ cursor < upto
    /\ AlreadyIndexed(cursor)
    /\ cursor' = cursor + 1
    /\ UNCHANGED <<integrated_size, next_index, diskVars, indexVars, pc, rebuilding, from, upto, result, counters>>

Gap(i) == i # tree_size

\* Mutant: the list may grow to one more than the limit.
FullTooLate(f, i) ==
    \/ Cardinality(DOMAIN f \cup KeysAt(i)) > MaxKeys
    \/ \E k \in KeysAt(i) \cap DOMAIN f : Len(f[k]) > MaxIndicesPerKey

\* An index f has no room for the keys of entry i.
IndexFull(f, i) ==
    \/ Cardinality(DOMAIN f \cup KeysAt(i)) > MaxKeys
    \/ \E k \in KeysAt(i) \cap DOMAIN f : Len(f[k]) >= MaxIndicesPerKey

\* A gap, too many keys, or a limit: the error ends the cycle.
Refused(i) ==
    \/ Gap(i)
    \/ Cardinality(KeysAt(i)) > MaxKeysPerEntry
    \/ KeysAt(i) # {} /\ IndexFull(index, i)

IndexRefused ==
    /\ pc = "index" /\ cursor < upto
    /\ ~AlreadyIndexed(cursor)
    /\ Refused(cursor)
    /\ EndWithError
    /\ UNCHANGED <<integrated_size, next_index, diskVars, crashes, errors, others>>

\* The WAL comes first.
AppendWal ==
    /\ pc = "index" /\ cursor < upto
    /\ ~AlreadyIndexed(cursor) /\ ~Refused(cursor)
    /\ wal' = Append(wal, Record(cursor))
    /\ pc' = IF KeysAt(cursor) = {} THEN "size" ELSE "insert"
    /\ UNCHANGED <<integrated_size, next_index, synced, snapshot, indexVars, workerVars, result, counters>>

\* "A failed write may leave a torn record", which later records follow.
AppendWalFails ==
    /\ pc = "index" /\ cursor < upto
    /\ ~AlreadyIndexed(cursor) /\ ~Refused(cursor)
    /\ errors < MaxErrors
    /\ errors' = errors + 1
    /\ wal' \in {wal, Append(wal, Torn)}
    /\ EndWithError
    /\ UNCHANGED <<integrated_size, next_index, synced, snapshot, crashes, others>>

\* Mutant: the prefix tree keeps the list it had.
StaleLeaves == prefix_tree
NewLeaves == Pushed(prefix_tree, cursor, KeysAt(cursor))

\* Index and prefix tree change together, under both write locks ...
Insert ==
    /\ pc = "insert"
    /\ index' = Pushed(index, cursor, KeysAt(cursor))
    /\ prefix_tree' = NewLeaves
    /\ pc' = "size"
    /\ UNCHANGED <<integrated_size, next_index, diskVars, tree_size, entries_since_snapshot, workerVars, result, counters>>

\* ... and the tree size after them, under its own.
UpdateTreeSize ==
    /\ pc = "size"
    /\ tree_size' = Larger(tree_size, cursor + 1)
    /\ entries_since_snapshot' = entries_since_snapshot + 1
    /\ cursor' = cursor + 1
    /\ pc' = "index"
    /\ UNCHANGED <<integrated_size, next_index, diskVars, index, prefix_tree, rebuilding, from, upto, result, counters>>

\* Mutant: the records stay in the page cache.
NotSynced == synced
SyncedTo == Len(wal)

Flush ==
    /\ pc = "index" /\ cursor >= upto
    /\ synced' = SyncedTo
    /\ pc' = IF rebuilding THEN "snapshot" ELSE "mark"
    /\ UNCHANGED <<integrated_size, next_index, wal, snapshot, indexVars, workerVars, result, counters>>

SnapshotDue == SnapshotInterval # 0 /\ entries_since_snapshot >= SnapshotInterval

\* Mutant: the size of the tree is expected to be that of the index.
AtIndexSize == integrated_size = tree_size
\* No other worker has advanced the tree since this cycle started.
StillCurrent == integrated_size = from

\* mark_integrated_if_current, then maybe_snapshot if it did.
MarkIntegrated ==
    /\ pc = "mark"
    /\ IF StillCurrent
       THEN /\ integrated_size' = upto
            /\ pc' = IF SnapshotDue THEN "snapshot" ELSE "up"
       ELSE pc' = "up" /\ UNCHANGED integrated_size
    /\ UNCHANGED <<next_index, diskVars, indexVars, workerVars, result, counters>>

\* snapshot, under the indexing mutex: sync the WAL, rename the new snapshot
\* into place ...
WriteSnapshot ==
    /\ pc = "snapshot"
    /\ synced' = Len(wal)
    /\ snapshot' = [tree_size |-> tree_size, index |-> index]
    /\ pc' = "truncate"
    /\ UNCHANGED <<integrated_size, next_index, wal, indexVars, workerVars, result, counters>>

\* ... and only then empty the WAL.
TruncateWal ==
    /\ pc = "truncate"
    /\ wal' = <<>> /\ synced' = 0
    /\ entries_since_snapshot' = 0
    /\ rebuilding' = FALSE
    /\ pc' = "up"
    /\ UNCHANGED <<integrated_size, next_index, snapshot, index, prefix_tree, tree_size, cursor, from, upto, result, counters>>

\* Another call fails: bundles, sync, database, snapshot or truncation. The
\* mark or the truncation may have taken effect all the same.
CallFails ==
    /\ pc \in {"index", "mark", "snapshot", "truncate"}
    /\ errors < MaxErrors
    /\ errors' = errors + 1
    /\ \/ UNCHANGED <<integrated_size, wal, synced>>
       \/ pc = "mark" /\ StillCurrent /\ integrated_size' = upto /\ UNCHANGED <<wal, synced>>
       \/ pc = "truncate" /\ wal' = <<>> /\ synced' = 0 /\ UNCHANGED integrated_size
    /\ EndWithError
    /\ UNCHANGED <<next_index, snapshot, crashes, others>>

\* The process dies. With the machine, unsynced records may be lost or torn.
Crash ==
    /\ crashes < MaxCrashes
    /\ crashes' = crashes + 1
    /\ \E n \in synced .. Len(wal) :
        wal' \in {SubSeq(wal, 1, n)} \cup (IF n < Len(wal) THEN {Append(SubSeq(wal, 1, n), Torn)} ELSE {})
    /\ Forget
    /\ pc' = "boot"
    /\ UNCHANGED <<integrated_size, next_index, synced, snapshot, errors, others>>

\* The sequencer of some server process appends an entry to the log.
Sequence ==
    /\ next_index < MaxSize
    /\ next_index' = next_index + 1
    /\ UNCHANGED <<integrated_size, diskVars, indexVars, pc, workerVars, result, counters>>

\* Another server process, with an index of its own under the same limits,
\* advances the tree.
OtherIntegrates ==
    /\ others < MaxOthers
    /\ integrated_size < next_index
    /\ ~IndexFull(IndexOf(integrated_size), integrated_size)
    /\ others' = others + 1
    /\ integrated_size' = integrated_size + 1
    /\ overtaken' = (pc # "boot")
    /\ UNCHANGED <<next_index, diskVars, indexVars, pc, workerVars, result, crashes, errors>>

-----------------------------------------------------------------------------
(* The HTTP handlers vindex_lookup and vindex_lookup_key                    *)

\* The API is served once startup is over.
Serving == pc \notin {"boot", "wipe"} /\ ~rebuilding

\* VerifiableIndex::lookup: everything is read while the index is locked, which
\* keeps the prefix tree in step but not the tree size.
Lookup(k) ==
    /\ Serving
    /\ result = <<>>
    /\ result' = [indices    |-> IF k \in DOMAIN index THEN index[k] ELSE <<>>,
                  key        |-> k,
                  tree_size  |-> tree_size,
                  found      |-> k \in DOMAIN prefix_tree,
                  proof_root |-> prefix_tree,
                  root_hash  |-> Empty, sent |-> FALSE]
    /\ UNCHANGED <<integrated_size, next_index, diskVars, indexVars, pc, workerVars, counters>>

\* The handler asks for the root again, without the lock, and responds with it.
RootHash ==
    /\ Serving
    /\ result # <<>> /\ ~result.sent
    /\ result' = [result EXCEPT !.root_hash = prefix_tree, !.sent = TRUE]
    /\ UNCHANGED <<integrated_size, next_index, diskVars, indexVars, pc, workerVars, counters>>

\* The client has its response.
Responded ==
    /\ result # <<>> /\ result.sent
    /\ result' = <<>>
    /\ UNCHANGED <<integrated_size, next_index, diskVars, indexVars, pc, workerVars, counters>>

ProcessStep ==
    \/ Recover \/ RecoverFails \/ WipeWal
    \/ StartCycle \/ IndexSkip \/ IndexRefused \/ AppendWal \/ Insert \/ UpdateTreeSize
    \/ Flush \/ MarkIntegrated \/ WriteSnapshot \/ TruncateWal

Next ==
    \/ ProcessStep
    \/ AppendWalFails \/ CallFails \/ Crash \/ OtherIntegrates \/ Sequence
    \/ \E k \in LookupKeys : Lookup(k)
    \/ RootHash \/ Responded

Spec == Init /\ [][Next]_vars

\* main and the worker are scheduled.
FairSpec == Spec /\ WF_vars(ProcessStep)

-----------------------------------------------------------------------------
(* Properties                                                               *)

\* The size the index in memory stands for: tree_size lags between the two
\* steps of index_entry.
IndexedSize == IF pc = "size" THEN cursor + 1 ELSE tree_size

\* Whatever crashed, failed, was replayed or was rebuilt before, the index a
\* running process has is exactly the index of the first entries, every list in
\* order and without repetition and within the limits, and the prefix tree
\* commits to the same.
IndexExact ==
    pc \notin {"boot", "wipe"} =>
        /\ index = IndexOf(IndexedSize)
        /\ prefix_tree = index
        /\ Cardinality(DOMAIN index) <= MaxKeys
        /\ \A k \in DOMAIN index : Len(index[k]) <= Larger(MaxIndicesPerKey, 1)

\* "Vindex failures stop integration rather than silently omitting entries": in a
\* process that serves, no entry that it has integrated, or has started from, is
\* missing from the index.
IntegratedIsIndexed == Serving /\ ~overtaken => integrated_size <= tree_size

\* Were the power lost now, snapshot and synced WAL would recover every entry
\* the database has marked: as long as no call fails, and no other process
\* integrates, crashes cost no rebuild.
DiskCovers ==
    LET durable == SubSeq(wal, 1, Scanned(SubSeq(wal, 1, synced), integrated_size))
    IN errors = 0 /\ others = 0 =>
       /\ ~rebuilding
       /\ Larger(BaseSize, WalSize(durable)) >= integrated_size
       /\ Replay(durable).ok

\* A looked-up list is that of the answer's tree size, or of one entry more (the
\* size is read under its own lock), and the proof belongs to the same index.
LookupExact ==
    result # <<>> =>
        \E n \in {result.tree_size, result.tree_size + 1} :
            /\ n <= MaxSize
            /\ result.indices = IndicesBelow(result.key, n)
            /\ result.proof_root = IndexOf(n)
            /\ result.found <=> result.indices # <<>>

\* LookupResult documents root_hash as "captured under the same lock as the proof
\* so the pair is always consistent": the root in a response is the one that the
\* proof in it verifies against.
ResponseVerifies == (result # <<>> /\ result.sent) => result.root_hash = result.proof_root

\* The cycle that the worker repeats has an entry the index refuses. The entries
\* before it are indexed; they are not integrated, as the whole batch is or none.
RefusedBatch ==
    /\ from = integrated_size
    /\ tree_size \in from .. upto - 1
    /\ Refused(tree_size)

\* This process has not indexed what another one integrated, and refuses every
\* later entry until it is restarted.
LeftBehind == tree_size < integrated_size

\* After the last fault startup succeeds, by recovery or rebuild, retried cycles
\* get past what earlier ones already indexed, and the whole log ends up indexed and
\* integrated, at whatever size it stops growing. Where a limit of the index refuses
\* an entry, integration stops at the batch with that entry and not before; where
\* another process has integrated what this one has not indexed, it stops until a
\* restart. Nothing else stops it.
EventuallyIndexed ==
    <>[](Serving /\ (integrated_size = next_index \/ RefusedBatch \/ LeftBehind))
=============================================================================
