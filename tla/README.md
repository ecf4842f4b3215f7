# A TLA+ verification of siglog

siglog is a transparency log server: it gives submitted entries consecutive
indices, hashes them into an append-only Merkle tree stored as immutable tiles,
publishes signed checkpoints of the tree that independent witnesses cosign, and
keeps a verifiable index from keys to log indices beside it. This directory
holds TLA+ models of the parts of siglog that carry state, TLC configurations
that check them, and TLAPS proofs.

Paths below are relative to the repository root; line numbers are in
`PROJECT.json` under `map`.

## The system

### Components

| Component | State | Operations | What makes it correct |
|---|---|---|---|
| Sequencer (`src/sequencer/queue.rs`) | channel, batch, batch deadline | `add`, the three branches of `SequencerWorker::run`, `flush_batch` | every caller gets the index of its own entry, after the commit; nobody hangs |
| Database (`src/storage/database.rs`) | `log_state`, `pending_entries`, `rekor_entries`, `log_config` | `sequence_entries`, `get_pending_entries`, `mark_integrated_if_current`, the import transactions | indices without gap or reuse, one index per entry in Rekor mode, the tree advances by compare-and-swap only |
| Integration worker (`src/worker.rs`), Merkle integration (`src/merkle/integrate.rs`) | nothing that survives a cycle | `run_integration_cycle`: read, hash, write tiles, write bundles, index, mark | the committed root is that of the sequenced prefix; every committed tree can be served |
| Tile storage (`src/storage/opendal.rs`, `src/merkle/tiles.rs`, `src/api/paths.rs`) | objects by path | read, write | an object never changes once it exists |
| Checkpoint publisher (`src/worker.rs`) | `ExternalWitnessState.sizes`, `LastPublished` (memory only) | `publish_checkpoint`, `call_external_witness` | published = committed + quorum of genuine cosignatures; never goes back |
| Witness (`src/witness/`) | table `witness_state` | `add_checkpoint`, `get_or_init`, `update` | never cosigns two heads of which neither extends the other |
| Verifiable index (`src/vindex/`) | in-memory index, prefix tree, WAL, snapshot | `index_entry`, `flush`, `snapshot`, recovery, `rebuild_from_storage`, `lookup` | the index is exactly that of a prefix of the log, through every crash |
| Prefix tree (`src/vindex/prefix_tree.rs`) | nodes with cached hashes | insert, look up with a proof | the root is a function of the map; a proof verifies for what is in the map, and only for that |
| Consistency proofs (`src/witness/proof.rs`, `src/merkle/proof.rs`) | none | generate, verify | sound and complete for prefixes |
| Monitoring witness (`src/monitor/`) | index of a foreign log, staged entries | submit entries, commit together with the witness state | what is committed is what was cosigned |
| Bulk import (`src/import.rs`, `src/bin/import.rs`) | manifest and objects of a log being filled, the import transaction | preflight, import, resume | a committed import is on disk and is the input of its preflight; no import over a log in use |
| Rekor API (`src/api/rekor.rs`) | none of its own | canonicalise, sequence, wait for a checkpoint, prove | what is logged verifies; an answer proves the entry it is about; one index per entry, however often and in whatever encoding it is submitted |
| Signatures and notes (`src/checkpoint/signer.rs`, `src/witness/verifier.rs`) | none | sign, cosign, format, parse, verify | a cosignature never passes for the log's signature |
| HTTP API (`src/api/`) | none of its own | serve objects, look up | |
| Startup and shutdown (`src/main.rs`, `src/shutdown.rs`) | none | recover or rebuild the index, check the configuration, drain | |
| HTTP client, shared types, schema, witness binary, `conda-monitor` | none of their own | formats, I/O, wiring | |

### How they interact

A handler calls `Sequencer::add` and waits on a oneshot channel. The sequencer
worker commits batches to the database. The integration worker polls the
database, writes tiles and bundles to object storage, indexes the entries, syncs
the index's WAL, and then commits the new size and root by compare-and-swap. The
publisher polls the committed state, asks the witnesses over HTTP, and
overwrites the checkpoint object. The witness is a separate service with a
database of its own. During a rolling deploy two server processes share database
and storage; only the database (writer lock, compare-and-swap) stands between
them. A Rekor submission goes through all of it while its client waits: it is
canonicalised, sequenced, and then polls the checkpoint object until a checkpoint
covers its index. The bulk import writes the same objects and the same row before a
server is started.

### What is hard

* interleavings: two server processes on one database; two requests for one log
  at the witness; lookups between the steps of indexing;
* partial failure: a commit whose acknowledgement is lost; a cycle that fails
  between object writes and the commit; a torn WAL record that valid ones
  follow; a snapshot without the truncation that should follow it; an interrupted
  import, or one whose files are not all on disk when the database commits;
* unreliable calls: a witness that has acted on a request the publisher has given
  up on, or acts on it later; a Rekor client that times out although its entry is in
  the log, and submits again;
* state read twice: an import's input between preflight and upload, the checkpoint
  object between poll and proof;
* boundaries: a full tile, a bundle that is continued, an exhausted index range,
  a full batch, a full index, a checkpoint of size 0, keys that part within a byte or
  at its end;
* liveness: a batch that never fills, a publisher out of step with a witness, a
  retried cycle that finds its entries already indexed.

`PROJECT.json` lists these hazards at their lines, with the properties that watch
over them.

## Modules

| Module | Models |
|---|---|
| `AppendOnlyLog` | abstract specification: a log that only grows and a tree that is always a growing prefix of it |
| `Sequencer` | several server processes with channel, batch and deadline, the transaction of `sequence_entries` statement by statement, callers, crashes |
| `TileLayout` | the objects of a tree: paths, widths, which tiles and bundles a growing tree reads and writes |
| `Integration` | overlapping integration workers, database and object storage |
| `Import` | importers, the input files, the database and the storage, beside a server |
| `Witness` | `add_checkpoint`, concurrent, with a log that may fork |
| `Publisher` | `publish_checkpoint`, the external witnesses and the network between them |
| `Vindex` | index, WAL, snapshot, startup recovery, rebuild, lookups |
| `Monitor` | the monitoring witness and the Conda monitor: several processes, logs and requests on one database |
| `MerkleProof` | hashes as terms, and the verification of consistency and inclusion proofs |
| `TileTree` | the tree hash by hash: compact range, roots, tile layout, proofs generated from tiles |
| `Notes` | checkpoints as signed notes: lines, texts, key IDs, signatures and cosignatures |
| `HashedRekord` | `canonical_entry`: from the body of a submission to the logged bytes, or a refusal |
| `Rekor` | submissions across sequencer, integration and publisher, with the clients that retry |
| `PrefixTree` | labels, insertion, cached hashes and lookup proofs of the prefix tree |
| `MCSequencer`, ... | the small instances |
| `CosigningProofs` (of `Witness`, `Publisher` and `MerkleProof`), `SequencerProofs`, `TileLayoutProofs`, `IntegrationProofs`, `ImportProofs`, `MonitorProofs`, `RekorProofs`, `VindexProofs` | the proofs |

`Integration` and `Import` share `TileLayout`; `Rekor` composes `Notes` and
`HashedRekord` with one-step versions of what `Sequencer`, `Integration` and
`Publisher` model step by step; `TileTree` uses `MerkleProof`.

### Sequencer

`receiver`, `batch` and `deadline` are the channel, the `Vec` and
`batch_deadline` of each process. `Add`, `Cancel` and `Close` are the callers'
side; `Recv`, `RecvClosed` and `Timeout` the branches of the `select!`; `Respond`
is the rest of `flush_batch` after the transaction. The transaction is
`BeginTxn` (the no-op `UPDATE` that takes the writer lock, and then the read of
the state), one `SequenceEntry`, `SequenceDuplicate` or `SequenceError` per entry,
and `CommitTxn`; its work is in `txn` until then, and visible to its own later
statements only. `CommitLost` commits and reports an error. `MarkIntegrated` is
the one way in which the integration worker touches these tables: it deletes
rows, after which the primary key no longer protects their indices. An entry
stands for its content, hence also for its leaf hash. `mode` is the row of
`log_config`: a process starts in one of `Modes`, the first start pins it
(`PinnedMode`, which is `ensure_mode`), and a process of another mode does not
start; deduplication follows the row.

### TileLayout and Integration

A hash is represented by the leaves it commits to: the root by the function from
index to entry, a tile by that function on the leaves under its bottom row (the
rows above are functions of it). What stays is the arithmetic that decides which
objects exist: tile levels and indices, widths of partial tiles, paths, which
previous tile or bundle is read and under which name. A cycle is `GetLogState`,
`GetPendingEntries`, `Integrate`, one `WriteTile` or `WriteEntryBundle` per
object in any order within its kind, and `MarkIntegrated`; `Abandon` ends it
anywhere. `Integrate` reads several objects in one step; they are objects of
a committed tree, and `ObjectsImmutable`, which is checked, says that no
step in between could have changed them.

The entry that gets index i is fixed (`EntryAt`), and all entries are distinct:
the worker never looks into an entry, so that what goes wrong with some entries
goes wrong with distinct ones.

`AppendOnlyLog` is what a client of the log relies on; `ImplementsLog` maps
`sequenced` and `root_hash` onto it.

### Import

An importer (`pc`, `job`) is one run of the `import` binary: `Preflight` is the first
pass over the input, `BeginImport` the transaction that takes the writer lock and
looks at the log, `WriteManifest`, then for each chunk `ReadChunk` (read, compare the
count, hash, and fix what is to be written) and one `Upload` per object in any order,
`EndOfInput` (the second comparison and `sync_import`) and `FinishImport`. Several
importers may run, each started with or without `--resume`. `file` is the input, which
`ChangeFile` replaces at any moment. `ImportFails` ends an importer anywhere;
`PowerLoss` ends everything and may take any of the objects that were written but
whose directory entries were not flushed (`unsynced`). A server may be started at any
time: `StartServer` pins the mode, `SequenceEntry`, `IntegrationCycle` and
`PublishCheckpoint` are its effects, each in one step. What the server writes is
durable at once here: the server relies on its storage for that, and the import is the
one part of siglog that syncs. A fingerprint is the sequence of entries it is computed
from, and an object holds the entries it commits to.

### Witness

A tree head is a model value for a pair (size, root). `Extends` is the relation
that consistency proofs establish; a proof is named by the two heads it is for,
and `ProofVerifies` accepts it for these and for no others. Each database call is
one step (`Get`, `Insert`, `Update`), and `Abort` may end a handler between any
two of them. `Requests` contains requests that do not fit: wrong old size, wrong
proof, an invented root for size 0. `accepted` is a history variable, used by the
proofs.

### Publisher

Checkpoints are named by their size, which is justified by `RootCommitsLog`.
A call to a witness is `Send`, `Handle` (at the witness), `Receive`; `Timeout`
gives up on it before or after it was handled, and a request that was not handled
may be handled later (`HandleLate`) or never. A faulty witness answers with
errors or with any size in a conflict. `Crash` forgets `sizes` and
`last_published`, which are in memory only; `Stop` ends a publisher as a shutdown
does, after the publication under way. The witness is one atomic step here.

### Vindex

`wal` is a sequence of records and torn fragments of which `synced` are on
stable storage; `Crash` may lose the rest, wholly or partly. `Recover` is
`with_wal_and_batch_size` (scan, cut, load the snapshot, replay), `RecoverFails`
and `WipeWal` the start of `rebuild_from_storage`, which then runs through the
same indexing steps as a cycle. `index_entry` is `IndexSkip`, `IndexRefused` or
the steps `AppendWal`, `Insert`, `UpdateTreeSize`, which take different locks;
`Flush`, `MarkIntegrated`, `WriteSnapshot`, `TruncateWal` complete a cycle. A
lookup is two steps, because the HTTP handlers make two calls. `OtherIntegrates` is
another server process that advances the tree; `overtaken` remembers that it went
past this process's index. `Sequence` is an entry that some process's sequencer appends;
the log may stop growing at any size.
`Replay` is the loop over the WAL's records, with the state after each of them.

### Monitor

One monitor object per process holds the index of the log at hand (`index`) and
what the request has staged (`pending`). A request is `Receive`, `Get`, `Insert`
(the first time), `Lock`, `Load`, one `ValidateEntry` or `RejectEntry` per new
entry, `CommitEntries`, `Commit`, `Cosign`. What the transaction has saved is in
`rows` until it commits. A request ends with an error (`CallFails`, which runs
`rollback_entries`), by a client that disconnects (`Cancel`, which does not), by
a commit whose acknowledgement is lost, or with its process. A tree head is
the sequence of its entries. That an entry read from the log is the one the head
commits to is `verify_entry`, which is in `TileTree`.

### MerkleProof and TileTree

A hash is the term it is computed from; equality of terms is collision
resistance. `TileTree` follows `integrate.rs` and the two `proof.rs` function by
function, under their names: `append` with its merge loop, `load_compact_range`,
`node_to_tile_coords`, `apply_to` with its offsets and padding,
`path_siblings`, `subproof`, `try_read_tile_hash`, `verify_subproof`. `Cycle` is a
whole integration cycle, `Interrupted` one that ends after some of its tiles were
written. Overlapping cycles are in `Integration`. `ConsistencySound` is what `Witness`
and `Monitor` assume of a consistency proof, `ConsistencyComplete` what `Publisher`
assumes of the server's proofs.

The verifiers are in `MerkleProof`, as functions over the size of the tree. `Subproofs`
holds the result of every recursive call of `verify_subproof`, with `idx` in the place of
the mutable argument: a call goes down before it takes an element, so that every call
finds `idx` at 0. `SizeBits` is the width of a size, 64 in the code and 5 in the runs,
which have trees of up to 17 leaves. Past `2^63` leaves `size *= 2` in
`verify_power_of_2` overflows, and the code rejects (in a debug build, panics at) proofs
that the model accepts.

### Notes, HashedRekord and Rekor

Keys and byte strings are symbolic, signatures are unforgeable terms, and key IDs (four
bytes of a hash) do not collide. What stays in `Notes` is what could be confused: the
message that is signed and that of a cosignature, the algorithm byte in the key ID,
the field that tells a cosignature line from a plain one, and the name. In
`HashedRekord` a byte string in a body has an alphabet, padding and its bytes; key
details are a name or a number; a key has an OID, parameters and a size. RSA
verification takes a key of any size, as the library does, so that `KeyMatches` is all
that ties a key to its declared size.

A client in `Rekor` has one submission and one request at a time, with the steps
`Submit` (authorisation and `canonical_entry`), `Sequence`, `ReadCheckpoint` (a turn of
the polling loop), `Prove`; `Timeout` may end it before any of them, and leaves a queued
entry in the sequencer (`orphans`). A client that was told no index submits again, in
any encoding, to any server. Servers have signing keys of their own, as when a key is
replaced in a rolling deploy, and an in-process witness may have the name and the key
of one of them. The checkpoint object is `<<who wrote it, size>>`; `Envelope` is its
text. The publication of the empty tree is left out: it covers no index.

### PrefixTree

The module follows `prefix_tree.rs` under its names, with `ByteBits` bits to a byte and
`KeyBytes` bytes to a key. Labels are packed into bytes as in the code, masks and
shifts included, and an internal node carries its cached hash. `Insert` is the only
operation that changes state; `map` is a history variable with what was inserted.
`HashOf`, the reference, splits the set of keys by their longest common prefix and
knows nothing of insertions; `RootFrom` is a verifier that sees a key, a value and a
proof. The code itself has no verifier.

## Runs

All passing runs finish within three minutes with two workers. Deadlock is checked,
with `Idle` a stutter that is enabled only in the states in which the bounded
system has nothing left to do; in `import_resume` and `rekor_submit` it is not,
because an import that is done and clients that were answered are simply at rest.

| Run | Checks | Instance |
|---|---|---|
| `sequencer_modes` | `RowsGapless`, `AnswerIsDurable`, `RekorUnique`, `NoDoubleSequencing`, `EventuallyAnswered` | 2 processes, both modes, 3 submissions of which 2 equal, 2 indices, batch 2, channel 2, 1 fault |
| `integration_log` | `RootCommitsLog`, `CommittedTreesServed`, `ObjectsImmutable`, `ImplementsLog`, `EventuallyIntegrated` | 2 workers, tile width 2, batches of up to 3, 4 entries, 1 abandoned cycle |
| `import_resume` | `CommittedTreesServed`, `ImportedIsPreflighted`, `LogOnlyGrows`, `EventuallyImported` | 2 importers and a server, tile width 2, chunks of 2, 3 inputs of which 2 differ in one entry and 1 has a bad line, 1 change of the input, 1 failure or power loss, 1 entry sequenced by the server |
| `witness_safe` | `WitnessTypeOK`, `NoSplitView`, `CosignedIsPersisted`, `StateOnlyExtends` | 2 handlers, 3 requests, one honest log, one that forks |
| `publisher_overlap` | `PublishedHasQuorum`, `NoRegression`, `EventuallyPublished` | 2 publishers, 2 witnesses of which 1 faulty, quorum 1, 1 fault |
| `vindex_recover` | `IndexExact`, `IntegratedIsIndexed`, `DiskCovers`, `LookupExact`, `EventuallyIndexed` | up to 4 entries, of which the fourth exceeds the limit of 2 indices per key, batches of up to 3, 2 crashes, 3 failed calls, another process integrating too, lookups under way |
| `vindex_lookup` | `ResponseVerifies` (violated) | no faults at all |
| `monitor_safe` | `ContentExact`, `CosignedIsValid`, `RefusedIsInvalid`, `MonitorNoSplitView` | 2 processes, 2 logs, 8 signed heads, 3 requests, 1 fault |
| `tile_proofs` | `TilesExact`, `ConsistencyComplete`, `InclusionComplete`, `ConsistencySound` | tile height 2, batches of 3, 5 and 7 up to 17 leaves, 1 interrupted cycle, forged proofs up to 6 leaves |
| `tile_rows` | `OnlyBottomRow` (violated) | the same without interruptions |
| `rekor_submit` | `LoggedEntriesVerify`, `CreatedIsProven`, `OneIndexPerSubmission`, `EventuallyIncluded` | 2 servers with different keys, 2 clients, 5 submissions (by key, by certificate, with a wrong key size, with both, unauthorised), 2 encodings, 1 fault |
| `prefix_tree` | `RootIsOfMap`, `LookupProves` | 8 keys of 3 bytes of 2 bits, 2 values, every order of insertions and updates |

What they show:

* **Sequencer.** Indices are neither skipped nor reused although rows are deleted
  behind the sequencer; an answer names a committed row with the caller's own
  entry; equal entries share one index, also within one batch and across
  processes; an error never leads to a second insertion; every caller is answered
  or has lost its process.
* **Integration.** Whatever two workers write over each other, the committed root
  is that of the sequenced prefix, the objects of *every* size that was ever
  committed are there with the right content (a checkpoint of any of these sizes
  may be published), and no object is ever overwritten with other content. The
  last one is what the `immutable` cache header of the API relies on; it holds
  because a path carries the width, and width and position determine the content.
* **Import.** A tree that an import commits is on disk, whole, and is entry by entry the
  input of the preflight, although the input is read twice and may change. What an
  interrupted run has left is taken over only if it is identical and the run is
  resumed; a server started instead overwrites it with its own. No import replaces
  entries of a log in use, not even entries that are sequenced and not yet integrated.
  An interrupted import can be completed with `--resume` as long as its input is
  the same and the log is still empty.
* **Witness.** See the proofs.
* **Publisher.** A published checkpoint has a quorum of distinct witnesses that
  did cosign this size. A 409 brings the publisher back in step after a crash or
  a lost answer: without it `EventuallyPublished` fails. No process replaces its own
  checkpoint by an older one. Two that overlap can set it back, since the object
  is overwritten unconditionally. The older one then catches up; but if it is stopped
  first, the other believes its tree to be published and does not write it again
  before the tree grows or it is restarted. `OverwrittenByStopped` is this case, and
  the only exception of `EventuallyPublished`.
* **Vindex.** A process that serves has exactly the index of a prefix of the log,
  and of at least the integrated prefix if no other process integrates; without
  failing calls a crash, even a power loss, never costs a rebuild; with them the
  rebuild does its work. Wherever the log stops growing, all of it ends up indexed and integrated
  (`EventuallyIndexed`), with two exceptions. A process whose index is behind the
  database because another process integrated cannot integrate again before it is
  restarted (`LeftBehind`). And where a limit refuses an entry, integration stops at
  the batch with that entry, not before (`RefusedBatch`). The run fails without either.
* **Monitor.** The persisted index is at every moment that of the persisted head,
  since both are in one transaction. A cosigned tree obeys the rules from its first
  entry on, and a tree is refused for its content only if it breaks them,
  although a cancelled request leaves entries staged and a failed commit leaves
  the index in memory ahead: `Load` discards both.
* **Tiles and proofs.** Every hash of every stored tile is determined by its path,
  so rewriting an object rewrites the same bytes. From the tiles of any
  committed tree the server can prove consistency with every smaller size, also
  one that was never committed, and a client that cuts the tile to its bottom row
  gets the same inclusion proofs. No sequence of hashes makes the witness accept a
  tree with another leaf.
* **Rekor.** Every logged entry verifies from its own bytes. A 201 convinces a verifier
  who knows only the key of the log it names, also while servers with other keys replace
  the checkpoint and while a witness cosigns with the log's own key. Equal submissions
  are told the same index in every encoding and after every kind of lost answer, and a
  client that keeps trying is told an index that a checkpoint covers. A server that
  reads a checkpoint signed with another server's key answers 500, and the retry 409.
* **Prefix tree.** The root depends on the map alone, so that a tree rebuilt from the
  snapshot, in the order of a hash map, has the root handed out before. The proof of a
  key in the map leads to the root from its value and from no other. The proof of a
  lookup that finds nothing has only the siblings of the path and does not show what
  is at its end; it is not a proof of absence (see Findings).

### Bounds

Width 2 with 4 entries reaches full and partial tiles on levels 0 and 1, the first
node of level 2, bundles that are continued, completed and spanned by one
batch, and cycles that overlap with each of these. Two processes (workers, handlers,
publishers) are what a rolling deploy has, and the races of the code
are between a read and a write of two parties. A batch of 2 among 3 submissions
has full, partial and repeated batches, and equal entries in the same and in
different batches. Fault bounds let a fault happen while recovery from another
is under way (index, publisher) or anywhere in a run (sequencer, integration).
Two indices for three submissions exhaust the index range in the middle of a batch.
Tile height 2 with 17 leaves has partial and full tiles on levels 0 and 1, the
first node of level 2, and rows above the bottom row; the sizes reached from
batches of 3, 5 and 7 include powers of two, their neighbours and all offsets
within a tile. Six leaves have old sizes on every path of the verifier. The heads
of `monitor_safe` contain a repeated package, a replaced one, one that does not
parse, a fork, and the same entries in another order in another log.
An input of 3 entries in chunks of 2 with tile width 2 has a full and a partial chunk,
bundle and tile, and a second level; the server's entry completes the partial ones. One
fault suffices for an interrupted run and its resumption, while the second importer and
the server provide for the overlaps. Two clients can submit the same or different
things, a third would add no relation between answers. The 8 prefix tree keys part at
every bit, within bytes and at their ends, from single keys and from whole subtrees;
the 6561 states are all the maps there are.

Bounded counters (`MaxFaults`, `MaxInterrupts`, `MaxRequests`, `MaxSize`,
`MaxCrashes`, `MaxErrors`, `MaxIndex`) are guards of the actions they bound. No
run uses symmetry.

### Fairness

Weak fairness of each worker's own steps: the tokio tasks are scheduled, the
interval timers fire, calls return. For the sequencer the batch timer is fair
separately, as a branch of the `select!` that stays enabled until it is taken
or the batch is flushed. A call to a witness ends with a response or with the
ten-second timeout, and timeouts are bounded. The liveness properties have the form `<>[]P`: with a
bounded number of submissions and faults, P holds from some moment on. Nothing is
assumed about submissions, crashes, faults or late requests. Import: each importer's
steps are weakly fair, and resuming with the same command is strongly fair, which is the
operator who repeats the command; without the operator nobody promises anything. Rekor:
a client that was told no index submits again, the workers run, and `Sequence` is strongly
fair: a flush takes milliseconds and the timeout 30 seconds, so that not every attempt
times out in the queue. Nothing is assumed of the polling loop: a client may time out
while it waits, as often as it likes. Workers that lose a compare-and-swap
need no strong fairness: the winner has advanced the tree. In `Vindex` the log grows
without fairness (`Sequence`): nobody has to submit.

## Proofs

The theorems hold for every value of the constants that satisfies the modules'
assumptions: any number of processes, workers, publishers, importers, logs and
requests, any tile width and batch size, any log and any limits of the index, any bound
on faults. The proof modules are laid out alike: the inductive invariant as a
conjunction of named parts, lemmas on the operators of the model, one lemma or step per
action, and the theorems at the end. Every inductive invariant was checked with TLC on
the instance of its run before it was proved.

| Module | Theorem | Statement |
|---|---|---|
| `SequencerProofs` | `AlwaysGapless`, `AlwaysDurable`, `AlwaysUnique`, `NeverTwice` | `Spec => []P` for `RowsGapless`, `AnswerIsDurable`, `RekorUnique`, `NoDoubleSequencing` |
| `IntegrationProofs` | `AlwaysCommitsLog`, `AlwaysServed` | `Spec => []P` for `RootCommitsLog`, `CommittedTreesServed` |
| | `NeverOverwritten` | `Spec => ObjectsImmutable` |
| | `RefinesLog` | `Spec => ImplementsLog`, the refinement of `AppendOnlyLog` |
| `ImportProofs` | `AlwaysPreflighted`, `AlwaysServed` | `Spec => []P` for `ImportedIsPreflighted`, `CommittedTreesServed` |
| | `NeverReplaces` | `Spec => LogOnlyGrows` |
| `MonitorProofs` | `AlwaysExact`, `AlwaysValid`, `AlwaysJustRefusal`, `NeverSplitView` | `Spec => []P` for `ContentExact`, `CosignedIsValid`, `RefusedIsInvalid`, `MonitorNoSplitView` |
| `RekorProofs` | `AlwaysVerify`, `AlwaysProven`, `OneIndex` | `Spec => []P` for `LoggedEntriesVerify`, `CreatedIsProven`, `OneIndexPerSubmission` |
| `CosigningProofs` | `WitnessTypeCorrect`, `NeverSplitView`, `AlwaysPersisted`, `NeverRollsBack` | `WitnessSpec => []P` for `WitnessTypeOK`, `NoSplitView`, `CosignedIsPersisted`; `WitnessSpec => StateOnlyExtends` |
| | `AlwaysQuorum`, `NeverRegresses` | `Spec => []PublishedHasQuorum`, `Spec => NoRegression` (`Publisher`) |
| | `ConsistencyIsSound`, `InclusionIsSound`, `AcceptedIsPrefix` | what the verifiers of `MerkleProof` accept is true, for trees of every size and every proof |
| `VindexProofs` | `AlwaysExactIndex`, `AlwaysIntegratedIsIndexed`, `AlwaysDiskCovers`, `AlwaysExactLookup` | `Spec => []P` for `IndexExact`, `IntegratedIsIndexed`, `DiskCovers`, `LookupExact` |
| `TileLayoutProofs` | lemmas only | what the arithmetic of tile paths guarantees |

### Arguments

**Witness.** `NoSplitView` is not inductive: a handler about to cosign must be known
to hold a head that was persisted, and all persisted heads of a log must be known to
form a chain. `WitnessInv` adds: every head ever persisted (`accepted`) is below the
row of its log (`AcceptedBelowState`), these heads form a chain
(`AcceptedIsChain`), the only one of size 0 is the empty tree (`AcceptedEmpty`,
which is what makes the bootstrap without a proof safe), and a handler past its
checks still holds what they established against the state it read, which is one
of the accepted heads (`HandlersChecked`). The lemma `AcceptableExtends` says that
the checks of `add_checkpoint` imply extension. The step that matters is
`Update`: the compare-and-swap makes the state that was verified against the
current one, so the new head extends it and by transitivity all others.

**Sequencer.** The argument follows the writer lock. Only its holder is in a
transaction (`LockIsHeld`), and while it is there the committed state stands still, so
the rows of the open transaction continue the committed ones, its reservations are the
inverse of the two together, and the results gathered so far are true of them
(`TxnContinues`); a process that responds has results that are true of what is
committed (`RespondsCommitted`). `NoDoubleSequencing` compares two cardinalities. Its
proof keeps an injection from rows to the submissions they are charged to
(`ChargeInv`): a submission that waits, in one channel or one batch only
(`WaitsOnce`), has no row charged to it yet.

**Integration.** Nothing is locked while workers write. `StoreExact` says that the
content of every object is a function of its path and of the log, whoever wrote it, so
that no order of writes matters; `CommittedPresent` that every committed size has all
its objects; `WorkerRight` that a worker started from a committed size, that its
rows continue it, and that what it computed is the tree of the longer prefix with
every touched object stored or still to be written. The compare-and-swap then lets
only a worker commit whose tree extends the committed one. The arithmetic is in
`TileLayoutProofs`: a path determines the leaves below it, the touched tiles and
bundles of a growth from m to n, with the untouched ones of m, are all those of n, and
the tiles a cycle builds from stored ones and new leaves are exact. `RefinesLog` needs,
beyond the invariant, that appending grows the log by one entry at its end and that a
commit replaces the tree by a longer prefix.

**Publisher.** A signature is put on a checkpoint two messages after the witness issued
it. `SignaturesAreIssued` says that a response under way and the signatures collected
so far are all of cosignatures issued for the size being published, `IssuedIsPersisted`
that no cosignature is above what its witness has persisted, and `OwnIsBelow` that a
publisher's own checkpoint is never above what it has published or is publishing.

**Vindex.** Three things are kept apart in `VindexInv`: memory, disk and the control
state. `MemoryExact` says that index and prefix tree are those of the entries memory
counts, which is one more than `tree_size` between two locks; `SizesFit` that every
prefix indexed so far was within the limits, which turns the checks made per entry into
a bound on the whole index. `SnapshotBehind` says that the snapshot is the exact index of
a size the database has marked, hence never ahead of it. `NoFaultYet` holds until a call
fails: the WAL's records follow one another from a size the snapshot covers
(`WalCovers`), and those up to the integrated size are synced; after a crash torn records
may follow, none of them synced. `CycleRight` and `RebuildRight` say where in its batch a
cycle or a rebuild is. That a retried cycle covers the entries of the one before it, which
may be indexed already, is proved first (`RowsRead`): the tree never shrinks, the log
neither, and the size of a batch is fixed.

Recovery is where these meet. `ReplayExact` says that the loop over any records
whatever, in any order, from an exact snapshot, is always at the exact index of some
size, because a record is skipped, refused or the next one. `RecoverExact` concludes that a recovery
that goes through ends at exactly the integrated size, from above since the scan cuts
every record beyond, from below since coverage was checked: this needs no assumption
about failed calls, and is why they can cost a rebuild but never an entry.
`NoFaultRecovers` is the other half: without failed calls the records replay without a
gap, also those of the synced part alone, so that recovery goes through.

Both are inductions over the records of the WAL, as the index of n entries is one over
the entries. An induction is written as an argument about a least counterexample: a
non-empty set of numbers has a least member (`LeastMember`, from `WFMin`), hence a set
with 0 and with the successors of its members is everything up to the bound
(`Induction`).

**Import.** An importer past `begin_import` holds the writer lock, and while it does the
log is empty (`LockedLogIsEmpty`), since sequencing and integration need the same lock.
What it is about to commit was compared with the preflight (`ReadyToCommit`), the
manifest it stands by is its own (`ManifestIsOwn`) and synced before the commit, and a
log with entries lets no importer in again, so that the manifest stays
(`ImportedStays`).

The storage of `CommittedTreesServed` is not exact as in `Integration`: it may hold what
abandoned imports of other inputs have left. The proof looks at the part of it that is
right for a given log (`Right` in `TileLayoutProofs`): a tree is served exactly if all its
objects are in that part (`ServedIsPresent`), and the tree builder takes nothing from
other objects (`BuiltTilesRight`, `LoadedRight`). Between chunks an importer has stored
the tree of all it has read (`ChunkRight`); during uploads every touched object is stored
right or still to be written, and one that is there with another content ends the import
(`UploadRight`). Committed trees are served from the synced objects alone
(`MarkedServed`), which is why `sync_import` has to come before the commit, and a server
writes right objects only, so that overwriting a leftover takes nothing from an older
tree.

**Monitor.** A process past `lock_in` holds the row of its log (`LocksRight`), whose
state is the one its checks were made against (`StateRight`). `rollback_entries` and
`load_state` make the monitor object exactly the index of that state, whatever a
cancelled request left in it, and what is staged is exactly the new entries validated
so far (`ValidateRight`); what the transaction saves is what the new head adds
(`UpdateRight`); and everything cosigned is a prefix of what is persisted (`Persisted`).
`RejectedMeans` is the heart of both halves: an entry is rejected exactly if it breaks
the rules together with those before it. `AsTable` takes the earliest row of a key;
valid content has no key twice, so that a table is characterised by its rows
(`IsTable`), and tables of adjoining ranges can be joined in either order
(`TableJoins`).

**Consistency and inclusion proofs.** Of the elements of a proof nothing is assumed, not
even that they are hashes. `SubproofSound` is an induction over the size: a call of
`verify_subproof` that arrives at the hash of some subtree as the new hash arrives at the
hash of that subtree's first `m` leaves as the old one. A proof element can only be the
sibling, because it is hashed into the new root, and the prefix has the same left half
because the largest power of two below `n` is also the one below every `m` above it
(`SplitFacts`). For an old size that is a power of two, `ClimbSound` goes down from the
new root: every hash on the way is that of the left half of the next one, and only the
expected length of the proof (`proof_length`) makes the walk end at the old tree.
`PathSound` is the same for an audit path. With `TreeHashInjective` this gives
`AcceptedIsPrefix`, which is `ConsistencySound` of run `tile_proofs` for every size, and
what `Extends` stands for in `Witness`. That the recursive functions exist, which is
needed before anything can be said of their values, is a lemma for each of them
(`TreeHashSteps`, `SubproofSteps`, `ClimbSteps`, `PathSteps`).

**Rekor.** The duplicate check compares logged bytes, and the promise is about
submissions. `CanonicalIsEntry` says that `canonical_entry` depends on what is submitted
and not on the alphabet, the padding or the numeric key details it came in, and
`EntryInjective` that different submissions have different entries; `GoodVerifies` turns
the checks made before sequencing into what a verifier of the entry finds. The
invariant then says of the log that it has such entries only, none twice (`LogRight`),
of the queues that they hold nothing else, also for requests that timed out
(`QueueRight`), and of each client that what its request has read and what it was told
is true of the log (`RequestRight`, `AnswerRight`). The log and the tree only grow
(`Grows`), so that an index, a checkpoint and a proof stay true while other servers
replace the checkpoint object. That a server takes only its own signature for its own is
`OwnIsOwn`: the algorithm byte in the key ID tells the log's signature from a
cosignature, even if the in-process witness had the log's name and key. `NoteRoundTrip`
says that a published note is read as it was written.

### Assumptions

Each module states its own, and TLC evaluates them on the instances. They fix the
types of the constants, and that the values which stand for NULL or "nobody" differ
from the real ones (`NoProc`, `NoState`, `NoRoot`, `NoSize`, ...). Beyond that:

* `ExtensionAssumption` (`Witness`): `Extends` is reflexive and transitive, and every
  non-empty tree extends the empty one. Nothing is assumed about what logs sign or
  clients send.
* `PowerAssumption` (`TileLayout`): `W^0 = 1` and `W^(l+1) = W * W^l`. This is what `^`
  means; the prover has no arithmetic of exponentiation. `PowersOfTwo` (`MerkleProof`) says
  the same of 2, up to `SizeBits`.
* `ImportAssumption`: inputs are sequences that fit the bound, and chunks are multiples of
  the tile width, which `import` checks.
* `PublisherAssumption`: the configured witnesses are distinct, which the server checks
  at startup, and the quorum is at most their number.
* `SubmissionAssumption` (`Rekor`): a body has at most one key and one certificate, which
  are options in the code; the type of a key is what its OID, parameters and size make
  it; and two authorized submissions that agree in all parts are one. The last only
  names submissions by their content.
* `RekorAssumption`: a server's signer has the key ID of its name and key.
* `MonitorAssumption`: no package hash is the absent value.
* `VindexAssumption`: there are finitely many keys (byte strings of 32 bytes in the code),
  the keys of an entry are among them, and the values that stand for a missing snapshot
  and for a torn record are neither. The limits are any natural numbers, 0 included;
  an index limit of 0 per key still admits the first, which `IndexExact` allows for.

### What stays with TLC

Liveness under fairness (`EventuallyAnswered`, `EventuallyIntegrated`, ...) and
`ENABLED` are out of the prover's reach. So are RECURSIVE operators: `TileTree` and
`PrefixTree` follow recursive code over trees and hash terms, whose labels are packed into
bytes with shifts and powers of two, and are model-checked only: that the tiles are right,
that the proofs the server generates verify, and all of the prefix tree. Every other
safety property that a run checks is stated by a theorem.

The theorems about `Vindex`, `Monitor` and others speak of sequences next to functions
with other domains. The SMT encoding of `Len` and of the empty sequence is meant for
sequences only, so a leaf about a sequence has its membership in `Seq` among its facts and
leaves other functions hidden. All SMT obligations about sequences were checked a second
time with these axioms guarded by that condition.

## Findings

`LookupResult.root_hash` (`src/vindex/mod.rs`, lines 123-124) is documented as
captured under the same lock as the proof "so the pair is always consistent".
The HTTP handlers `vindex_lookup` and `vindex_lookup_key`
(`src/api/handlers.rs`, lines 270 and 305) do not use it: they call
`vindex.root_hash()` again, without the lock. If an entry is indexed in between,
the response carries the proof of one index and the root of the next one, and
the proof does not verify. Run `vindex_lookup` finds this; `LookupExact`, which is
about what `lookup` itself returns, holds.

`TileMutator::apply_to` (`src/merkle/integrate.rs`, lines 416-449) stores the inner
rows of a tile behind its bottom row, at offsets for the full width, and pads with
zeros: a partial tile of 3 hashes is stored and served with more than 256. A
comment in `src/merkle/proof.rs` (line 241) says "only its bottom row is stored",
and one in `src/client.rs` (line 124) calls this the format of "older siglog
tiles". Run `tile_rows` shows it. siglog's own readers look at the bottom row only
and are not affected (`InclusionComplete`); a reader that expects a partial tile
to have exactly its width, as the tlog-tiles specification the README names
prescribes, is.

Four smaller observations, not stated as properties. A refused entry holds up its
whole batch: `run_integration_cycle` (`src/worker.rs`, lines 204-220) indexes entry by
entry but marks the batch as a whole and retries from the same row, so that the entries
before the refused one are indexed and never integrated. `LookupResult.tree_size` may
be one entry behind the indices of the same result, since the size is updated
under its own lock after the index; `LookupExact` says exactly this. The README
says that WAL gaps fail startup, while `main` rebuilds the index automatically.
`lookup` (`src/vindex/prefix_tree.rs`, line 412) says that it returns "an
inclusion/exclusion proof"; for a key that is not found the proof does not contain the
leaf or node at which the path ended, so that a verifier can recompute no root from it.
The repository's README disclaims the completeness of lookups.

## Not modelled

* Hash values and signatures as bytes, the encodings of notes, keys and tiles: a hash is
  what it commits to, a signature a term that only its signer has.
* In-process witnesses in `Publisher`: they always sign. `Rekor` has one.
* Durability of what the server itself writes to object storage.
* The 64-bit limit on sizes in witness requests, rate limits, body limits.
* The batched WAL writer, which the server does not use; the page-cache state
  after an `fsync` that failed.
* Configuration, migrations, download limits, the normalisation of package records in
  `conda-monitor`: I/O, parsing, wiring.

## Plan

Done: all components that keep state are modelled, and every safety property of the
sequencer, the integration worker, the publisher, the witness, the monitoring witness, the
import, the Rekor API and the verifiable index is proved, and so is the soundness of the
verification of proofs.

Left: `TileTree` and `PrefixTree` use RECURSIVE operators and stay with TLC, as do the
liveness properties.
