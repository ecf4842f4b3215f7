-------------------------------- MODULE Import --------------------------------
(***************************************************************************)
(* The offline bulk import (src/import.rs, src/bin/import.rs): it reads    *)
(* its input once to fingerprint it, takes the database's writer lock,     *)
(* pins the fingerprint in a manifest object, reads the input again chunk  *)
(* by chunk, writes the tiles and entry bundles of every chunk, and        *)
(* commits size and root at the very end. A run that was interrupted is    *)
(* repeated with --resume.                                                 *)
(*                                                                         *)
(* Importers may run at once, fail at any step, and lose unsynced objects  *)
(* in a power loss; the input may change at any time; and although "the    *)
(* server must be stopped", one may be started before, during or after an  *)
(* import, in either mode. Fingerprints do not collide: a fingerprint is   *)
(* represented by the entries it was computed from.                        *)
(***************************************************************************)
EXTENDS Integers, Sequences, FiniteSets, TileLayout

CONSTANTS
    Importers,      \* siglog-import processes
    Files,          \* what the input files may hold: sequences of entries
    BadLine,        \* a line that is no valid entry
    ServerEntry,    \* what clients submit to a server
    ChunkSizes,     \* the chunk sizes given on the command line
    MaxChanges,     \* bound on changes of the input
    MaxFaults,      \* bound on failed calls, crashes and power losses
    MaxRequests,    \* bound on entries submitted to a server
    NoRoot,         \* log_state.root_hash is NULL
    NoMode,         \* log_config has no row yet
    NoSize,         \* there is no checkpoint object
    NoOne           \* the writer lock is free

\* bulk_import refuses a chunk size that is no multiple of the tile width.
ASSUME ImportAssumption ==
    /\ \A f \in Files : f \in Seq({f[k] : k \in DOMAIN f}) /\ Len(f) <= MaxSize
    /\ \A c \in ChunkSizes : c \in Nat \ {0} /\ c % W = 0
    /\ MaxChanges \in Nat /\ MaxFaults \in Nat /\ MaxRequests \in Nat
    /\ NoOne \notin Importers /\ NoSize \notin Nat

VARIABLES
    \* The database.
    next_index, integrated_size, root_hash,   \* log_state
    pending,        \* the indices in pending_entries
    mode,           \* log_config.mode
    writer,         \* the importer whose transaction holds the writer lock
    \* The object storage.
    store,          \* path -> content, the manifest included
    unsynced,       \* paths an importer wrote that a power loss may take
    checkpoint,     \* the size of the published checkpoint
    \* The importers, the server and the input.
    pc, job,        \* where each importer is, and what it works on
    server,         \* TRUE iff a server runs
    file,           \* the input files
    \* History and bounds.
    sequenced,      \* the entry that was given each index
    imported,       \* the entries an import committed
    marked,         \* every size integrated_size has had
    changes, faults

dbVars      == <<next_index, integrated_size, root_hash, pending>>
storageVars == <<store, unsynced, checkpoint>>
historyVars == <<sequenced, imported, marked>>
vars == <<dbVars, mode, writer, storageVars, pc, job, server, file, historyVars, changes, faults>>

-----------------------------------------------------------------------------
NoJob == [input |-> <<>>, chunk_size |-> 0, resume |-> FALSE,
          size |-> 0, new_size |-> 0, digest |-> <<>>, eof |-> FALSE, uploads |-> Empty,
          leaves |-> Empty, root |-> NoRoot]

ManifestPath == [kind |-> "manifest", level |-> 0, index |-> 0, partial |-> 0]

\* What the manifest records.
Manifest(j) == [input |-> j.input, chunk_size |-> j.chunk_size]

Init ==
    /\ next_index = 0 /\ integrated_size = 0 /\ root_hash = NoRoot /\ pending = {}
    /\ mode = NoMode /\ writer = NoOne
    /\ store = Empty /\ unsynced = {} /\ checkpoint = NoSize
    /\ pc = [i \in Importers |-> "idle"] /\ job = [i \in Importers |-> NoJob]
    /\ server = FALSE
    /\ file \in Files
    /\ sequenced = Empty /\ imported = <<>> /\ marked = {0}
    /\ changes = 0 /\ faults = 0

HasBadLine(f) == \E k \in DOMAIN f : f[k] = BadLine

\* ensure_mode: the first to start pins the mode; a log from before there were
\* modes is Tessera's.
PinnedMode(m) == IF mode # NoMode THEN mode ELSE IF next_index > 0 THEN "tessera" ELSE m

LockFree == writer = NoOne

\* The importer ends; an open transaction is rolled back.
Quit(i) ==
    /\ pc' = [pc EXCEPT ![i] = "idle"]
    /\ job' = [job EXCEPT ![i] = NoJob]
    /\ writer' = IF writer = i THEN NoOne ELSE writer

Goto(i, label) == pc' = [pc EXCEPT ![i] = label]

-----------------------------------------------------------------------------
(* main and bulk_import                                                     *)

\* InputSummary::scan; an empty input or a bad line is refused at once.
Preflight(i, c, resume) ==
    /\ pc[i] = "idle"
    /\ file # <<>> /\ ~HasBadLine(file)
    /\ job' = [job EXCEPT ![i] = [NoJob EXCEPT !.input = file, !.chunk_size = c, !.resume = resume]]
    /\ Goto(i, "begin")
    /\ UNCHANGED <<dbVars, mode, writer, storageVars, server, file, historyVars, changes, faults>>

\* Mutant: only the integrated tree is looked at.
NothingIntegrated == integrated_size = 0 /\ root_hash = NoRoot
EmptyLog == next_index = 0 /\ integrated_size = 0 /\ root_hash = NoRoot /\ pending = {}

\* begin_import: pin the mode, wait for the writer lock, look at the log under it.
BeginImport(i) ==
    /\ pc[i] = "begin"
    /\ LockFree
    /\ mode' = PinnedMode("tessera")
    /\ IF mode' = "tessera" /\ EmptyLog
       THEN writer' = i /\ Goto(i, "manifest") /\ UNCHANGED job
       ELSE Quit(i)
    /\ UNCHANGED <<dbVars, storageVars, server, file, historyVars, changes, faults>>

\* Mutant: an object that is there already is always refused.
WritableOnce(path, data, resume) == path \notin DOMAIN store

\* write_import_object: an existing object is accepted only if it is identical
\* and the import was resumed, and is never overwritten.
Writable(path, data, resume) == path \in DOMAIN store => resume /\ store[path] = data

Written(path, data) ==
    /\ store' = Extend(store, [x \in {path} |-> data])
    /\ unsynced' = IF path \in DOMAIN store THEN unsynced ELSE unsynced \cup {path}

\* A published checkpoint, or nothing to resume, ends the import; otherwise the
\* manifest goes first.
WriteManifest(i) ==
    /\ pc[i] = "manifest"
    /\ IF /\ checkpoint = NoSize
          /\ job[i].resume => ManifestPath \in DOMAIN store
          /\ Writable(ManifestPath, Manifest(job[i]), job[i].resume)
       THEN Written(ManifestPath, Manifest(job[i])) /\ Goto(i, "chunk") /\ UNCHANGED <<job, writer>>
       ELSE Quit(i) /\ UNCHANGED <<store, unsynced>>
    /\ UNCHANGED <<dbVars, mode, checkpoint, server, file, historyVars, changes, faults>>

\* The next chunk of the input as it is now; an input that has ended once stays
\* ended.
Chunk(j) == IF j.eof THEN <<>> ELSE SubSeq(file, j.size + 1, Smaller(j.size + j.chunk_size, Len(file)))

\* The objects that a tree grown from m to n leaves is written to.
TreeObjects(m, n, leaves) ==
    LET tiles == {TileOf(t[1], t[2], n) : t \in TouchedTiles(m, n)}
        bundles == {EntriesOf(b, n) : b \in TouchedBundles(m, n)}
    IN [o \in tiles \cup bundles |->
        IF o \in tiles THEN NewTile(store, o.level, o.index, m, n, leaves)
        ELSE [k \in Covered(0, o.index, n) |-> leaves[k]]]

\* A bad line, entries beyond the count of the preflight, or tiles that cannot
\* be read back end the import.
ReadChunk(i) ==
    LET j == job[i]
        chunk == Chunk(j)
        n == j.size + Len(chunk)
        leaves == Extend(LoadedLeaves(store, j.size), [k \in j.size .. n - 1 |-> chunk[k - j.size + 1]])
    IN /\ pc[i] = "chunk"
       /\ chunk # <<>>
       /\ IF ~HasBadLine(chunk) /\ Len(chunk) <= Len(j.input) - j.size /\ LeavesReadable(store, j.size)
          THEN /\ job' = [job EXCEPT ![i] = [j EXCEPT
                            !.new_size = n, !.leaves = leaves, !.digest = @ \o chunk,
                            !.eof = Len(chunk) < j.chunk_size,
                            !.uploads = TreeObjects(j.size, n, leaves)]]
               /\ Goto(i, "upload")
               /\ UNCHANGED writer
          ELSE Quit(i)
       /\ UNCHANGED <<dbVars, mode, storageVars, server, file, historyVars, changes, faults>>

\* One of the concurrent uploads, in any order; the last one completes the chunk.
Upload(i, o) ==
    LET j == job[i]
        rest == [x \in DOMAIN j.uploads \ {o} |-> j.uploads[x]]
    IN /\ pc[i] = "upload"
       /\ o \in DOMAIN j.uploads
       /\ IF Writable(o, j.uploads[o], j.resume)
          THEN /\ Written(o, j.uploads[o])
               /\ job' = [job EXCEPT ![i] =
                    IF rest # Empty THEN [j EXCEPT !.uploads = rest]
                    ELSE [j EXCEPT !.uploads = rest, !.size = j.new_size, !.root = j.leaves, !.leaves = Empty]]
               /\ Goto(i, IF rest # Empty THEN "upload" ELSE "chunk")
               /\ UNCHANGED writer
          ELSE Quit(i) /\ UNCHANGED <<store, unsynced>>
       /\ UNCHANGED <<dbVars, mode, checkpoint, server, file, historyVars, changes, faults>>

\* Mutant: only the number of entries is compared.
SameCount(j) == j.size = Len(j.input)
InputUnchanged(j) == j.size = Len(j.input) /\ j.digest = j.input

\* Mutant: directory entries are not flushed.
NotSynced == unsynced
Unsynced == {}

\* The input has ended: compare it with the preflight, then sync_import.
EndOfInput(i) ==
    /\ pc[i] = "chunk"
    /\ Chunk(job[i]) = <<>>
    /\ IF InputUnchanged(job[i]) /\ job[i].root # NoRoot
       THEN unsynced' = Unsynced /\ Goto(i, "commit") /\ UNCHANGED <<job, writer>>
       ELSE Quit(i) /\ UNCHANGED unsynced
    /\ UNCHANGED <<dbVars, mode, store, checkpoint, server, file, historyVars, changes, faults>>

\* finish_import. (Whether its caller learns of the commit makes no difference.)
FinishImport(i) ==
    LET j == job[i]
    IN /\ pc[i] = "commit"
       /\ next_index' = j.size /\ integrated_size' = j.size /\ root_hash' = j.root
       /\ sequenced' = [k \in 0 .. j.size - 1 |-> j.digest[k + 1]]
       /\ imported' = j.digest
       /\ marked' = marked \cup {j.size}
       /\ Quit(i)
       /\ UNCHANGED <<pending, mode, storageVars, server, file, changes, faults>>

-----------------------------------------------------------------------------
(* Failures, the operator, and the server                                   *)

\* A call fails or the process is killed. Uploaded objects remain.
ImportFails(i) ==
    /\ pc[i] # "idle"
    /\ faults < MaxFaults
    /\ faults' = faults + 1
    /\ Quit(i)
    /\ UNCHANGED <<dbVars, mode, storageVars, server, file, historyVars, changes>>

\* Every process ends, and what was not flushed may be gone.
PowerLoss ==
    /\ faults < MaxFaults
    /\ faults' = faults + 1
    /\ \E lost \in SUBSET unsynced : store' = [o \in DOMAIN store \ lost |-> store[o]]
    /\ unsynced' = {}
    /\ pc' = [i \in Importers |-> "idle"] /\ job' = [i \in Importers |-> NoJob]
    /\ writer' = NoOne /\ server' = FALSE
    /\ UNCHANGED <<dbVars, mode, checkpoint, file, historyVars, changes>>

ChangeFile(f) ==
    /\ f # file
    /\ changes < MaxChanges
    /\ changes' = changes + 1
    /\ file' = f
    /\ UNCHANGED <<dbVars, mode, writer, storageVars, pc, job, server, historyVars, faults>>

StartServer(m) ==
    /\ ~server
    /\ PinnedMode(m) = m
    /\ mode' = m
    /\ server' = TRUE
    /\ UNCHANGED <<dbVars, writer, storageVars, pc, job, file, historyVars, changes, faults>>

\* sequence_entries waits for the writer lock.
SequenceEntry ==
    /\ server /\ LockFree
    /\ next_index < MaxSize
    /\ next_index - Len(imported) < MaxRequests
    /\ next_index' = next_index + 1
    /\ pending' = pending \cup {next_index}
    /\ sequenced' = Extend(sequenced, [k \in {next_index} |-> ServerEntry])
    /\ UNCHANGED <<integrated_size, root_hash, mode, writer, storageVars, pc, job, server, file,
                   imported, marked, changes, faults>>

\* The server's bundle, with the entries an earlier one has; Integration has the
\* cycle step by step.
ServerObjects(m, n, leaves) ==
    [o \in DOMAIN TreeObjects(m, n, leaves) |->
        IF o.kind = "entries" /\ o.index = m \div W /\ m % W > 0
        THEN Extend(TreeObjects(m, n, leaves)[o], store[EntriesPath(o.index, m % W)])
        ELSE TreeObjects(m, n, leaves)[o]]

\* A cycle of the integration worker. It overwrites what an interrupted import
\* has left at its paths.
IntegrationCycle ==
    LET m == integrated_size
        n == next_index
        leaves == Extend(LoadedLeaves(store, m), [k \in pending |-> sequenced[k]])
    IN /\ server /\ LockFree
       /\ pending # {}
       /\ LeavesReadable(store, m)
       /\ m % W > 0 => EntriesPath(m \div W, m % W) \in DOMAIN store
       /\ store' = Extend(store, ServerObjects(m, n, leaves))
       /\ unsynced' = unsynced \ DOMAIN ServerObjects(m, n, leaves)
       /\ integrated_size' = n
       /\ root_hash' = leaves
       /\ pending' = {}
       /\ marked' = marked \cup {n}
       /\ UNCHANGED <<next_index, mode, writer, checkpoint, pc, job, server, file,
                      sequenced, imported, changes, faults>>

\* The publisher needs no lock, and publishes the empty tree too.
PublishCheckpoint ==
    /\ server
    /\ checkpoint # integrated_size
    /\ checkpoint' = integrated_size
    /\ UNCHANGED <<dbVars, mode, writer, store, unsynced, pc, job, server, file, historyVars, changes, faults>>

ImportStep(i) ==
    \/ BeginImport(i) \/ WriteManifest(i) \/ ReadChunk(i)
    \/ \E o \in DOMAIN job[i].uploads : Upload(i, o)
    \/ EndOfInput(i) \/ FinishImport(i)

Next ==
    \/ \E i \in Importers :
        \/ \E c \in ChunkSizes, resume \in BOOLEAN : Preflight(i, c, resume)
        \/ ImportStep(i) \/ ImportFails(i)
    \/ PowerLoss
    \/ \E f \in Files : ChangeFile(f)
    \/ \E m \in {"tessera", "rekor"} : StartServer(m)
    \/ SequenceEntry \/ IntegrationCycle \/ PublishCheckpoint

Spec == Init /\ [][Next]_vars

\* "Repeat the same command with --resume", as often as it takes.
Retry(i) == ManifestPath \in DOMAIN store /\ Preflight(i, store[ManifestPath].chunk_size, TRUE)

FairSpec == Spec /\ \A i \in Importers : WF_vars(ImportStep(i)) /\ SF_vars(Retry(i))

-----------------------------------------------------------------------------
(* Properties                                                               *)

\* Every tree the database has committed to is the tree of the log's entries and
\* is served whole from storage, whatever interrupted imports, their leftovers
\* under the same paths, resumed runs and power losses came before: the import
\* syncs before it commits, and neither it nor the server's first cycles take
\* over what an abandoned run has left (write_import_object, finalize).
CommittedTreesServed ==
    /\ integrated_size > 0 => root_hash = [k \in 0 .. integrated_size - 1 |-> sequenced[k]]
    /\ \A n \in marked : TreeServed(store, n, sequenced)

\* What an import has committed is, entry by entry, the input that its preflight
\* fingerprinted and its manifest records, although the input is read twice.
ImportedIsPreflighted ==
    imported # <<>> =>
        /\ ManifestPath \in DOMAIN store
        /\ store[ManifestPath].input = imported
        /\ \A k \in DOMAIN imported : sequenced[k - 1] = imported[k]

\* An import never replaces entries of a log, neither those of a server nor those
\* of an import completed by another process after this one's preflight.
LogOnlyGrows ==
    [][\A k \in DOMAIN sequenced : k \in DOMAIN sequenced' /\ sequenced'[k] = sequenced[k]]_vars

\* An import was begun with the input as it is, nothing stored differs from what
\* it would write, and no server has used the log since.
Resumable ==
    LET j == store[ManifestPath]
        ends == {n \in 1 .. Len(file) : n % j.chunk_size = 0 \/ n = Len(file)}
    IN /\ ManifestPath \in DOMAIN store
       /\ j.input = file
       /\ mode = "tessera" /\ EmptyLog /\ checkpoint = NoSize
       /\ \A n \in ends :
            /\ \A t \in TilesOf(n) : TileOf(t[1], t[2], n) \in DOMAIN store =>
                store[TileOf(t[1], t[2], n)] = [k \in Covered(t[1], t[2], n) |-> file[k + 1]]
            /\ \A b \in 0 .. (n - 1) \div W : EntriesOf(b, n) \in DOMAIN store =>
                store[EntriesOf(b, n)] = [k \in Covered(0, b, n) |-> file[k + 1]]

\* An interrupted import can be completed: no import stays resumable for ever
\* when it is resumed again and again with the same command.
EventuallyImported == <>[]~Resumable
=============================================================================
