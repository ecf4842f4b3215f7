----------------------------- MODULE Integration -----------------------------
(***************************************************************************)
(* The integration worker (run_integration_cycle in src/worker.rs, with    *)
(* merkle/integrate.rs and the tile storage): it reads the log state and   *)
(* the pending rows, computes the new tree from the tiles of the old one,  *)
(* writes tiles and entry bundles object by object, and commits the new    *)
(* size and root with a compare-and-swap on the size it started from.      *)
(*                                                                         *)
(* Several workers may run against the same database and storage (a        *)
(* rolling deploy overlaps two server processes), and each cycle may be    *)
(* abandoned at any step by an error or a crash.                           *)
(*                                                                         *)
(* Hashes are represented by the leaves they commit to (TileLayout).       *)
(***************************************************************************)
EXTENDS Integers, FiniteSets, TileLayout

CONSTANTS
    Workers,      \* integration workers sharing the database and the storage
    Entries,      \* entry contents
    EntryAt,      \* the entry that is given each index
    BatchSize,    \* WorkerConfig.integration_batch_size
    MaxFaults,    \* bound on abandoned cycles
    NoRoot        \* log_state.root_hash is NULL

ASSUME IntegrationAssumption ==
    /\ EntryAt \in [0 .. MaxSize - 1 -> Entries]
    /\ BatchSize \in Nat \ {0}
    /\ MaxFaults \in Nat
    /\ Zero \notin Entries
    /\ \A n \in 1 .. MaxSize : NoRoot # [k \in 0 .. n - 1 |-> EntryAt[k]]

VARIABLES
    \* The database.
    next_index, integrated_size, root_hash,   \* log_state
    pending,          \* pending_entries: index -> entry
    sequenced,        \* history: every entry that was given an index
    \* The object storage: path -> content.
    store,
    \* The workers.
    pc,               \* where each worker is in its cycle
    from,             \* state.integrated_size as read at the cycle's start
    rows,             \* the pending rows read
    result,           \* IntegrationResult: new size, root, tiles still to write
    bundles,          \* entry bundles still to write
    \* History and bounds.
    marked,           \* every size integrated_size has had
    faults

dbVars == <<next_index, integrated_size, root_hash, pending, sequenced, marked>>
vars   == <<dbVars, store, pc, from, rows, result, bundles, faults>>

-----------------------------------------------------------------------------
NoResult == [new_size |-> 0, root_hash |-> NoRoot, tiles |-> Empty]

Init ==
    /\ next_index = 0 /\ integrated_size = 0 /\ root_hash = NoRoot
    /\ pending = Empty /\ sequenced = Empty
    /\ store = Empty
    /\ pc = [w \in Workers |-> "sleep"]
    /\ from = [w \in Workers |-> 0]
    /\ rows = [w \in Workers |-> Empty]
    /\ result = [w \in Workers |-> NoResult]
    /\ bundles = [w \in Workers |-> {}]
    /\ marked = {0}
    /\ faults = 0

-----------------------------------------------------------------------------
\* Database::sequence_entries, one entry of a batch (Sequencer has the detail).
\* No step of a cycle compares entries, so that one sequence of distinct entries
\* stands for all.
SequenceEntry ==
    /\ next_index < MaxSize
    /\ pending' = Extend(pending, [i \in {next_index} |-> EntryAt[i]])
    /\ sequenced' = Extend(sequenced, [i \in {next_index} |-> EntryAt[i]])
    /\ next_index' = next_index + 1
    /\ UNCHANGED <<integrated_size, root_hash, marked, store, pc, from, rows, result, bundles, faults>>

\* The cycle ends: everything it holds is dropped.
EndCycle(w) ==
    /\ pc' = [pc EXCEPT ![w] = "sleep"]
    /\ from' = [from EXCEPT ![w] = 0]
    /\ rows' = [rows EXCEPT ![w] = Empty]
    /\ result' = [result EXCEPT ![w] = NoResult]
    /\ bundles' = [bundles EXCEPT ![w] = {}]

\* get_log_state; a cycle with nothing pending does nothing.
GetLogState(w) ==
    /\ pc[w] = "sleep"
    /\ next_index - integrated_size # 0
    /\ from' = [from EXCEPT ![w] = integrated_size]
    /\ pc' = [pc EXCEPT ![w] = "pending"]
    /\ UNCHANGED <<dbVars, store, rows, result, bundles, faults>>

\* The indices get_pending_entries returns: ascending, at most BatchSize.
PendingIndices(m) ==
    {i \in DOMAIN pending : i >= m /\ Cardinality({j \in DOMAIN pending : m <= j /\ j < i}) < BatchSize}

\* get_pending_entries is a second read: rows may be gone, and if what is left
\* does not start at the size read before, the cycle gives up.
GetPendingEntries(w) ==
    LET found == PendingIndices(from[w])
        contiguous == found = from[w] .. from[w] + Cardinality(found) - 1
    IN /\ pc[w] = "pending"
       /\ IF found # {} /\ contiguous
          THEN /\ rows' = [rows EXCEPT ![w] = [i \in found |-> pending[i]]]
               /\ pc' = [pc EXCEPT ![w] = "integrate"]
               /\ UNCHANGED <<from, result, bundles>>
          ELSE EndCycle(w)
       /\ UNCHANGED <<dbVars, store, faults>>

\* integrate: nothing is written yet.
Integrate(w) ==
    LET m == from[w]
        n == m + Cardinality(DOMAIN rows[w])
        leaves == Extend(LoadedLeaves(store, m), rows[w])
        paths == {TileOf(t[1], t[2], n) : t \in TouchedTiles(m, n)}
    IN /\ pc[w] = "integrate"
       /\ IF LeavesReadable(store, m)
          THEN /\ result' = [result EXCEPT ![w] =
                    [new_size  |-> n,
                     root_hash |-> leaves,
                     tiles     |-> [o \in paths |-> NewTile(store, o.level, o.index, m, n, leaves)]]]
               /\ bundles' = [bundles EXCEPT ![w] = TouchedBundles(m, n)]
               /\ pc' = [pc EXCEPT ![w] = "tiles"]
               /\ UNCHANGED <<from, rows>>
          ELSE EndCycle(w)
       /\ UNCHANGED <<dbVars, store, faults>>

\* write_tile, in the order the result's hash map yields.
WriteTile(w, o) ==
    /\ pc[w] = "tiles"
    /\ o \in DOMAIN result[w].tiles
    /\ store' = Extend(store, [x \in {o} |-> result[w].tiles[o]])
    /\ result' = [result EXCEPT ![w].tiles = [x \in DOMAIN @ \ {o} |-> @[x]]]
    /\ pc' = [pc EXCEPT ![w] = IF DOMAIN result[w].tiles = {o} THEN "bundles" ELSE "tiles"]
    /\ UNCHANGED <<dbVars, from, rows, bundles, faults>>

\* The entries of bundle i that this cycle adds.
BundleRows(w, i) == [k \in {j \in DOMAIN rows[w] : j \div W = i} |-> rows[w][k]]

\* Mutant: the old prefix of a bundle is not carried over.
NoExistingPartial(m, i) == 0

\* The entries of bundle i that an earlier cycle wrote: 0 when it starts here.
ExistingPartial(m, i) == IF i = m \div W THEN m % W ELSE 0

\* write_entry_bundles for one bundle. A missing previous bundle, or one of the
\* wrong length, ends the cycle with an error.
WriteEntryBundle(w, i) ==
    LET p == ExistingPartial(from[w], i)
        previous == EntriesPath(i, p)
        readable == previous \in DOMAIN store /\ Cardinality(DOMAIN store[previous]) = p
        old == IF p > 0 THEN store[previous] ELSE Empty
    IN /\ pc[w] = "bundles"
       /\ i \in bundles[w]
       /\ IF p > 0 /\ ~readable
          THEN EndCycle(w) /\ UNCHANGED store
          ELSE /\ store' = Extend(store, [x \in {EntriesOf(i, result[w].new_size)} |->
                                              Extend(old, BundleRows(w, i))])
               /\ bundles' = [bundles EXCEPT ![w] = @ \ {i}]
               /\ pc' = [pc EXCEPT ![w] = IF bundles[w] = {i} THEN "mark" ELSE "bundles"]
               /\ UNCHANGED <<from, rows, result>>
       /\ UNCHANGED <<dbVars, faults>>

\* Mutant: the size is not compared.
AlwaysCurrent(w) == TRUE
StillCurrent(w) == integrated_size = from[w]

\* Mutant: the first row above the new size is deleted too.
KeptAbove(n) == {j \in DOMAIN pending : j > n}
Kept(n) == {j \in DOMAIN pending : j >= n}

\* mark_integrated_if_current, one transaction: the result is committed only if
\* no other worker has advanced the tree since this cycle started.
MarkIntegrated(w) ==
    LET n == result[w].new_size
    IN /\ pc[w] = "mark"
       /\ IF StillCurrent(w)
          THEN /\ integrated_size' = n
               /\ root_hash' = result[w].root_hash
               /\ pending' = [i \in Kept(n) |-> pending[i]]
               /\ marked' = marked \cup {n}
          ELSE UNCHANGED <<integrated_size, root_hash, pending, marked>>
       /\ EndCycle(w)
       /\ UNCHANGED <<next_index, sequenced, store, faults>>

\* Any read, write or vindex step of the cycle fails, or the process dies and
\* restarts. Objects already written stay; so does a write whose answer is lost.
Abandon(w) ==
    /\ pc[w] # "sleep"
    /\ faults < MaxFaults
    /\ faults' = faults + 1
    /\ EndCycle(w)
    /\ UNCHANGED <<dbVars, store>>

\* The bounded log is full and integrated.
Idle ==
    /\ next_index = MaxSize /\ integrated_size = MaxSize
    /\ \A w \in Workers : pc[w] = "sleep"
    /\ UNCHANGED vars

CycleStep(w) ==
    \/ GetLogState(w) \/ GetPendingEntries(w) \/ Integrate(w)
    \/ \E o \in DOMAIN result[w].tiles : WriteTile(w, o)
    \/ \E i \in bundles[w] : WriteEntryBundle(w, i)
    \/ MarkIntegrated(w)

Next ==
    \/ SequenceEntry
    \/ \E w \in Workers : CycleStep(w) \/ Abandon(w)
    \/ Idle

Spec == Init /\ [][Next]_vars

\* The worker's timer keeps firing and its cycle is scheduled.
FairSpec == Spec /\ \A w \in Workers : WF_vars(CycleStep(w))

-----------------------------------------------------------------------------
(* Properties                                                               *)

Leaves(n) == 0 .. n - 1

\* The root the database commits to is the root of exactly the first
\* integrated_size sequenced entries, in order (NULL while that is none),
\* although it was computed from tiles several workers wrote.
RootCommitsLog ==
    IF integrated_size = 0 THEN root_hash = NoRoot
    ELSE root_hash = [k \in Leaves(integrated_size) |-> sequenced[k]]

\* Storage can serve every tree the database ever committed to (a checkpoint of
\* it may be published, now or later), from objects several workers wrote.
CommittedTreesServed == \A n \in marked : TreeServed(store, n, sequenced)

\* The API serves tiles and bundles as "max-age=31536000, immutable": once
\* written, also by a cycle that was then abandoned or lost the race to commit,
\* an object is never removed or overwritten with other content.
ObjectsImmutable ==
    [][\A o \in DOMAIN store : o \in DOMAIN store' /\ store'[o] = store[o]]_vars

\* The worker implements the abstract log: appends and growing prefixes only.
Abstract == INSTANCE AppendOnlyLog WITH
    log <- sequenced, tree <- IF root_hash = NoRoot THEN Empty ELSE root_hash
ImplementsLog == Abstract!Spec

\* Every sequenced entry is eventually in the tree, whatever the overlap of
\* workers and after finitely many abandoned cycles: once submissions end, as the
\* bound makes them, the tree catches up for good.
EventuallyIntegrated == <>[](integrated_size = next_index)
=============================================================================
