---------------------------- MODULE ImportProofs ----------------------------
(***************************************************************************)
(* An import commits exactly the input its preflight fingerprinted, never  *)
(* replaces entries of a log, and leaves every committed tree stored whole *)
(* and right, for any number of importers, any inputs and chunk sizes, a   *)
(* server next to them, and any number of crashes and power losses.        *)
(*                                                                         *)
(* The argument: an importer past begin_import holds the writer lock, and  *)
(* while it does the log is empty, since sequencing and integration wait   *)
(* for the same lock. What it commits was compared with the preflight, and *)
(* the manifest it stands by was written under the same lock and is synced *)
(* before the commit. A log with entries lets no importer in again, so     *)
(* that the manifest stays. The storage may hold what abandoned imports of *)
(* other inputs have left; a tree is built only from objects of its own    *)
(* smaller trees, which are right, and whatever it writes is right too, so *)
(* that leftovers are refused, overwritten, or not looked at.              *)
(***************************************************************************)
EXTENDS Import, TileLayoutProofs, SequenceTheorems, TLAPS

\* j is a record with the fields of a job.
JobFields == {"input", "chunk_size", "resume", "size", "new_size", "digest", "eof", "uploads",
              "leaves", "root"}
IsJob(j) == DOMAIN j = JobFields

TypeOK ==
    /\ next_index \in Nat
    /\ DOMAIN sequenced = 0 .. next_index - 1
    /\ writer \in Importers \cup {NoOne}
    /\ pc \in [Importers -> {"idle", "begin", "manifest", "chunk", "upload", "commit"}]
    /\ job = [i \in Importers |-> job[i]]
    /\ \A i \in Importers : IsJob(job[i])
    /\ file \in Files

\* An importer that waits for the lock, or holds it, has a preflighted input.
Preflighted == \A i \in Importers : pc[i] # "idle" => job[i].input \in Files /\ job[i].input # <<>>

\* The importers past begin_import hold the lock, and the log is empty.
LockedLogIsEmpty ==
    \A i \in Importers :
        /\ pc[i] \in {"manifest", "chunk", "upload", "commit"} <=> writer = i
        /\ writer = i => EmptyLog /\ imported = <<>>

\* The manifest is the lock holder's own once it has written it.
ManifestIsOwn ==
    \A i \in Importers : pc[i] \in {"chunk", "upload", "commit"} =>
        /\ ManifestPath \in DOMAIN store
        /\ store[ManifestPath] = Manifest(job[i])

\* Before the commit the input was compared, and everything synced.
ReadyToCommit ==
    \A i \in Importers : pc[i] = "commit" =>
        /\ job[i].size = Len(job[i].input) /\ job[i].digest = job[i].input
        /\ unsynced = {}

\* The entries of an import are at the start of the log, and its manifest stays.
ImportedStays ==
    imported # <<>> =>
        /\ imported \in Files
        /\ Len(imported) <= next_index /\ next_index > 0
        /\ ManifestPath \notin unsynced

\* The inductive invariant.
ImportInv ==
    /\ TypeOK
    /\ Preflighted
    /\ LockedLogIsEmpty
    /\ ManifestIsOwn
    /\ ReadyToCommit
    /\ ImportedStays
    /\ ImportedIsPreflighted

-----------------------------------------------------------------------------
\* An input is a sequence, and is empty only if it has no entries.
LEMMA FileIsSequence ==
    ASSUME NEW f \in Files
    PROVE  /\ Len(f) \in Nat /\ DOMAIN f = 1 .. Len(f)
           /\ f # <<>> => Len(f) > 0
<1>1. f \in Seq({f[k] : k \in DOMAIN f})
  BY ImportAssumption
<1> HIDE DEF ImportAssumption
<1> QED
  BY <1>1

\* The objects of a tree are tiles and entry bundles, never the manifest.
LEMMA NoManifestAmongTreeObjects ==
    ASSUME NEW m, NEW n, NEW leaves
    PROVE  ManifestPath \notin DOMAIN ServerObjects(m, n, leaves)
<1>1. DOMAIN ServerObjects(m, n, leaves) = DOMAIN TreeObjects(m, n, leaves)
  BY DEF ServerObjects
<1>2. DOMAIN TreeObjects(m, n, leaves) =
        {TileOf(t[1], t[2], n) : t \in TouchedTiles(m, n)}
            \cup {EntriesOf(b, n) : b \in TouchedBundles(m, n)}
  BY DEF TreeObjects
<1>3. \A l, i, p : TilePath(l, i, p).kind = "tile" /\ EntriesPath(i, p).kind = "entries"
  BY DEF TilePath, EntriesPath
<1>4. ManifestPath.kind = "manifest"
  BY DEF ManifestPath
<1> QED
  BY <1>1, <1>2, <1>3, <1>4 DEF TileOf, EntriesOf

\* The empty job is one.
LEMMA NoJobIsJob == IsJob(NoJob)
BY DEF IsJob, JobFields, NoJob

\* An importer that ends drops its job and its lock.
LEMMA QuitStep ==
    ASSUME ImportInv, NEW i \in Importers, Quit(i),
           UNCHANGED <<dbVars, storageVars, historyVars>>, file' \in Files
    PROVE  ImportInv'
<1> USE DEF ImportInv
<1>1. UNCHANGED <<next_index, integrated_size, root_hash, pending, store, unsynced,
                  checkpoint, sequenced, imported, marked>>
  BY DEF dbVars, storageVars, historyVars
<1>2. /\ pc' = [pc EXCEPT ![i] = "idle"] /\ job' = [job EXCEPT ![i] = NoJob]
      /\ writer' = IF writer = i THEN NoOne ELSE writer
  BY DEF Quit
<1>3. /\ pc'[i] = "idle" /\ writer' # i
      /\ \A k \in Importers \ {i} : pc'[k] = pc[k] /\ job'[k] = job[k] /\ (writer' = k <=> writer = k)
  BY <1>2, ImportAssumption DEF TypeOK
<1>4. IsJob(NoJob)
  BY NoJobIsJob
<1>5. TypeOK'
  BY <1>1, <1>2, <1>4 DEF TypeOK, IsJob
<1>6. Preflighted' /\ LockedLogIsEmpty'
  BY <1>1, <1>3 DEF Preflighted, LockedLogIsEmpty, EmptyLog
<1>7. ManifestIsOwn' /\ ReadyToCommit'
  BY <1>1, <1>3 DEF ManifestIsOwn, ReadyToCommit, Manifest
<1> QED
  BY <1>1, <1>5, <1>6, <1>7 DEF ImportedStays, ImportedIsPreflighted

\* The lock holder works on its own input, under its own manifest.
LEMMA HolderStep ==
    ASSUME ImportInv, NEW i \in Importers, writer = i,
           NEW label \in {"chunk", "upload", "commit"}, pc' = [pc EXCEPT ![i] = label],
           NEW j, IsJob(j), job' = [job EXCEPT ![i] = j],
           j.input = job[i].input, j.chunk_size = job[i].chunk_size,
           ManifestPath \in DOMAIN store', store'[ManifestPath] = Manifest(job[i]),
           label = "commit" => j.size = Len(j.input) /\ j.digest = j.input /\ unsynced' = {},
           UNCHANGED <<dbVars, writer, file, historyVars>>
    PROVE  ImportInv'
<1> USE DEF ImportInv
<1>1. UNCHANGED <<next_index, integrated_size, root_hash, pending, writer, file, sequenced, imported>>
  BY DEF dbVars, historyVars
<1>2. /\ pc'[i] = label /\ job'[i] = j
      /\ \A k \in Importers \ {i} : pc'[k] = pc[k] /\ job'[k] = job[k]
      /\ \A k \in Importers \ {i} : pc[k] \notin {"manifest", "chunk", "upload", "commit"}
  BY DEF TypeOK, LockedLogIsEmpty
<1>3. imported = <<>> /\ pc[i] # "idle"
  BY DEF LockedLogIsEmpty, TypeOK
<1>4. TypeOK'
  BY <1>1, <1>2 DEF TypeOK
<1>5. Preflighted' /\ LockedLogIsEmpty'
  BY <1>1, <1>2, <1>3 DEF Preflighted, LockedLogIsEmpty, EmptyLog
<1>6. ManifestIsOwn'
  BY <1>2 DEF ManifestIsOwn, Manifest
<1>7. ReadyToCommit'
  BY <1>2 DEF ReadyToCommit
<1> QED
  BY <1>1, <1>3, <1>4, <1>5, <1>6, <1>7 DEF ImportedStays, ImportedIsPreflighted

\* A step of the server or the operator, which sees the lock free or writes
\* nothing an import depends on.
LEMMA OutsideStep ==
    ASSUME ImportInv, UNCHANGED <<pc, job, writer, next_index, sequenced, imported>>, file' \in Files,
           writer = NoOne \/ UNCHANGED <<dbVars, store, unsynced>>,
           unsynced' \subseteq unsynced,
           ManifestPath \in DOMAIN store =>
               ManifestPath \in DOMAIN store' /\ store'[ManifestPath] = store[ManifestPath]
    PROVE  ImportInv'
<1> USE DEF ImportInv
<1>1. TypeOK' /\ Preflighted'
  BY DEF TypeOK, Preflighted, IsJob
<1>2. LockedLogIsEmpty'
  BY ImportAssumption DEF LockedLogIsEmpty, EmptyLog, dbVars
<1>3. ManifestIsOwn' /\ ReadyToCommit'
  BY DEF ManifestIsOwn, ReadyToCommit, Manifest
<1>4. ImportedStays' /\ ImportedIsPreflighted'
  BY DEF ImportedStays, ImportedIsPreflighted
<1> QED
  BY <1>1, <1>2, <1>3, <1>4

\* An empty log and idle importers satisfy the invariant.
LEMMA InitInv == Init => ImportInv
<1> SUFFICES ASSUME Init PROVE ImportInv
  OBVIOUS
<1>1. TypeOK
  BY NoJobIsJob DEF Init, TypeOK, Empty
<1>2. Preflighted /\ LockedLogIsEmpty /\ ManifestIsOwn /\ ReadyToCommit
  BY ImportAssumption DEF Init, Preflighted, LockedLogIsEmpty, ManifestIsOwn, ReadyToCommit
<1> QED
  BY <1>1, <1>2 DEF Init, ImportInv, ImportedStays, ImportedIsPreflighted

\* Every step of an importer, the server, the operator or a failure preserves
\* the inductive invariant.
LEMMA StepInv == ImportInv /\ [Next]_vars => ImportInv'
<1> SUFFICES ASSUME ImportInv, [Next]_vars PROVE ImportInv'
  OBVIOUS
<1> USE DEF ImportInv
<1>1. ASSUME NEW i \in Importers, NEW c \in ChunkSizes, NEW resume \in BOOLEAN,
             Preflight(i, c, resume)
      PROVE  ImportInv'
  <2> DEFINE j == [NoJob EXCEPT !.input = file, !.chunk_size = c, !.resume = resume]
  <2>1. IsJob(j) /\ j.input = file
    BY NoJobIsJob DEF IsJob, JobFields
  <2> HIDE DEF j
  <2>2. /\ pc[i] = "idle" /\ pc' = [pc EXCEPT ![i] = "begin"] /\ file # <<>>
        /\ job' = [job EXCEPT ![i] = j]
        /\ UNCHANGED <<next_index, integrated_size, root_hash, pending, writer, store, unsynced,
                       file, sequenced, imported>>
    BY <1>1 DEF Preflight, Goto, dbVars, storageVars, historyVars, j
  <2>3. /\ pc'[i] = "begin" /\ job'[i] = j
        /\ \A k \in Importers \ {i} : pc'[k] = pc[k] /\ job'[k] = job[k]
    BY <2>2 DEF TypeOK
  <2>4. TypeOK'
    BY <2>1, <2>2 DEF TypeOK, IsJob
  <2>5. Preflighted' /\ LockedLogIsEmpty'
    BY <2>1, <2>2, <2>3 DEF Preflighted, LockedLogIsEmpty, EmptyLog, TypeOK
  <2>6. ManifestIsOwn' /\ ReadyToCommit'
    BY <2>2, <2>3 DEF ManifestIsOwn, ReadyToCommit, Manifest
  <2> QED
    BY <2>2, <2>4, <2>5, <2>6 DEF ImportedStays, ImportedIsPreflighted
<1>2. ASSUME NEW i \in Importers, BeginImport(i) PROVE ImportInv'
  <2>1. UNCHANGED <<dbVars, storageVars, file, historyVars>>
    BY <1>2 DEF BeginImport
  <2>2. CASE Quit(i)
    BY <2>1, <2>2, QuitStep DEF TypeOK
  <2>3. CASE ~Quit(i)
    <3>1. /\ pc[i] = "begin" /\ writer = NoOne /\ EmptyLog
          /\ writer' = i /\ pc' = [pc EXCEPT ![i] = "manifest"] /\ UNCHANGED job
          /\ UNCHANGED <<next_index, integrated_size, root_hash, pending, store, unsynced,
                         sequenced, imported, file>>
      BY <1>2, <2>1, <2>3 DEF BeginImport, LockFree, Goto, dbVars, storageVars, historyVars
    <3>2. imported = <<>>
      BY <3>1 DEF EmptyLog, ImportedStays
    <3>3. \A k \in Importers : pc[k] \in {"idle", "begin"}
      BY <3>1, ImportAssumption DEF LockedLogIsEmpty, TypeOK
    <3>4. TypeOK' /\ Preflighted'
      BY <3>1 DEF TypeOK, Preflighted, IsJob
    <3>5. LockedLogIsEmpty'
      BY <3>1, <3>2, <3>3 DEF LockedLogIsEmpty, EmptyLog, TypeOK
    <3>6. ManifestIsOwn' /\ ReadyToCommit'
      BY <3>1, <3>3 DEF ManifestIsOwn, ReadyToCommit, TypeOK
    <3> QED
      BY <3>1, <3>2, <3>4, <3>5, <3>6 DEF ImportedStays, ImportedIsPreflighted
  <2> QED
    BY <2>2, <2>3
<1>3. ASSUME NEW i \in Importers, WriteManifest(i) PROVE ImportInv'
  <2>1. CASE Quit(i) /\ UNCHANGED <<store, unsynced>>
    BY <1>3, <2>1, QuitStep DEF WriteManifest, storageVars, TypeOK
  <2>2. CASE Written(ManifestPath, Manifest(job[i])) /\ Goto(i, "chunk") /\ UNCHANGED <<job, writer>>
    <3>1. writer = i
      BY <1>3 DEF WriteManifest, LockedLogIsEmpty
    <3>2. ManifestPath \in DOMAIN store' /\ store'[ManifestPath] = Manifest(job[i])
      BY <2>2 DEF Written, Extend
    <3>3. /\ pc' = [pc EXCEPT ![i] = "chunk"] /\ job' = [job EXCEPT ![i] = job[i]]
          /\ UNCHANGED <<dbVars, writer, file, historyVars>>
      BY <1>3, <2>2 DEF WriteManifest, Goto, TypeOK
    <3> QED
      BY <3>1, <3>2, <3>3, HolderStep DEF TypeOK
  <2> QED
    BY <1>3, <2>1, <2>2 DEF WriteManifest
<1>4. ASSUME NEW i \in Importers, ReadChunk(i) PROVE ImportInv'
  <2>1. CASE Quit(i)
    BY <1>4, <2>1, QuitStep DEF ReadChunk, TypeOK
  <2>2. CASE ~Quit(i)
    <3> DEFINE n == job[i].size + Len(Chunk(job[i]))
               leaves == Extend(LoadedLeaves(store, job[i].size),
                                [k \in job[i].size .. n - 1 |-> Chunk(job[i])[k - job[i].size + 1]])
               j == [job[i] EXCEPT !.new_size = n, !.leaves = leaves, !.digest = @ \o Chunk(job[i]),
                                   !.eof = Len(Chunk(job[i])) < job[i].chunk_size,
                                   !.uploads = TreeObjects(job[i].size, n, leaves)]
    <3>1. /\ pc[i] = "chunk" /\ pc' = [pc EXCEPT ![i] = "upload"] /\ job' = [job EXCEPT ![i] = j]
          /\ UNCHANGED <<dbVars, writer, store, file, historyVars>>
      BY <1>4, <2>2 DEF ReadChunk, Goto, storageVars
    <3> HIDE DEF n, leaves
    <3>2. IsJob(j) /\ j.input = job[i].input /\ j.chunk_size = job[i].chunk_size
      BY DEF IsJob, JobFields, TypeOK
    <3> HIDE DEF j
    <3>3. /\ writer = i
          /\ ManifestPath \in DOMAIN store' /\ store'[ManifestPath] = Manifest(job[i])
      BY <3>1 DEF LockedLogIsEmpty, ManifestIsOwn
    <3> QED
      BY <3>1, <3>2, <3>3, HolderStep
  <2> QED
    BY <2>1, <2>2
<1>5. ASSUME NEW i \in Importers, NEW o \in DOMAIN job[i].uploads, Upload(i, o) PROVE ImportInv'
  <2>1. CASE Quit(i) /\ UNCHANGED <<store, unsynced>>
    BY <1>5, <2>1, QuitStep DEF Upload, storageVars, TypeOK
  <2>2. CASE ~(Quit(i) /\ UNCHANGED <<store, unsynced>>)
    <3> DEFINE rest == [x \in DOMAIN job[i].uploads \ {o} |-> job[i].uploads[x]]
               j == IF rest # Empty THEN [job[i] EXCEPT !.uploads = rest]
                    ELSE [job[i] EXCEPT !.uploads = rest, !.size = job[i].new_size,
                                        !.root = job[i].leaves, !.leaves = Empty]
    <3>1. PICK label \in {"chunk", "upload"} : pc' = [pc EXCEPT ![i] = label]
      BY <1>5, <2>2 DEF Upload, Goto
    <3>2. /\ pc[i] = "upload" /\ job' = [job EXCEPT ![i] = j]
          /\ Writable(o, job[i].uploads[o], job[i].resume) /\ Written(o, job[i].uploads[o])
          /\ UNCHANGED <<dbVars, writer, file, historyVars>>
      BY <1>5, <2>2 DEF Upload
    <3> HIDE DEF rest
    <3>3. IsJob(j) /\ j.input = job[i].input /\ j.chunk_size = job[i].chunk_size
      BY DEF IsJob, JobFields, TypeOK
    <3> HIDE DEF j
    <3>4. /\ writer = i
          /\ ManifestPath \in DOMAIN store /\ store[ManifestPath] = Manifest(job[i])
      BY <3>2 DEF LockedLogIsEmpty, ManifestIsOwn
    <3>5. ManifestPath \in DOMAIN store' /\ store'[ManifestPath] = Manifest(job[i])
      BY <3>2, <3>4 DEF Writable, Written, Extend
    <3> QED
      BY <3>1, <3>2, <3>3, <3>4, <3>5, HolderStep
  <2> QED
    BY <2>1, <2>2
<1>6. ASSUME NEW i \in Importers, EndOfInput(i) PROVE ImportInv'
  <2>1. CASE Quit(i) /\ UNCHANGED unsynced
    BY <1>6, <2>1, QuitStep DEF EndOfInput, storageVars, TypeOK
  <2>2. CASE ~(Quit(i) /\ UNCHANGED unsynced)
    <3>1. /\ pc[i] = "chunk" /\ pc' = [pc EXCEPT ![i] = "commit"]
          /\ job' = [job EXCEPT ![i] = job[i]]
          /\ InputUnchanged(job[i]) /\ unsynced' = {}
          /\ UNCHANGED <<dbVars, writer, store, file, historyVars>>
      BY <1>6, <2>2 DEF EndOfInput, Goto, Unsynced, TypeOK
    <3>2. /\ writer = i
          /\ ManifestPath \in DOMAIN store' /\ store'[ManifestPath] = Manifest(job[i])
      BY <3>1 DEF LockedLogIsEmpty, ManifestIsOwn
    <3> QED
      BY <3>1, <3>2, HolderStep DEF InputUnchanged, TypeOK
  <2> QED
    BY <2>1, <2>2
<1>7. ASSUME NEW i \in Importers, FinishImport(i) PROVE ImportInv'
  <2> DEFINE j == job[i]
  <2>1. /\ pc[i] = "commit" /\ writer = i /\ unsynced = {}
        /\ j.size = Len(j.input) /\ j.digest = j.input /\ j.input \in Files /\ j.input # <<>>
        /\ ManifestPath \in DOMAIN store /\ store[ManifestPath] = Manifest(j)
    BY <1>7 DEF FinishImport, LockedLogIsEmpty, ReadyToCommit, ManifestIsOwn, Preflighted
  <2>2. /\ next_index' = Len(j.input)
        /\ sequenced' = [k \in 0 .. Len(j.input) - 1 |-> j.input[k + 1]]
        /\ imported' = j.input
        /\ pc' = [pc EXCEPT ![i] = "idle"] /\ job' = [job EXCEPT ![i] = NoJob] /\ writer' = NoOne
        /\ UNCHANGED <<store, unsynced, file>>
    BY <1>7, <2>1 DEF FinishImport, Quit, storageVars
  <2>3. /\ Len(j.input) \in Nat /\ Len(j.input) > 0 /\ DOMAIN j.input = 1 .. Len(j.input)
    BY <2>1, FileIsSequence
  <2>4. \A k \in Importers : pc'[k] \in {"idle", "begin"} /\ (pc'[k] = "begin" => pc[k] = "begin" /\ job'[k] = job[k])
    BY <2>1, <2>2 DEF LockedLogIsEmpty, TypeOK
  <2>5. TypeOK'
    BY <2>2, <2>3, NoJobIsJob DEF TypeOK
  <2>6. Preflighted' /\ LockedLogIsEmpty'
    BY <2>2, <2>4, ImportAssumption DEF Preflighted, LockedLogIsEmpty
  <2>7. ManifestIsOwn' /\ ReadyToCommit'
    BY <2>4 DEF ManifestIsOwn, ReadyToCommit
  <2>8. ImportedStays'
    BY <2>1, <2>2, <2>3 DEF ImportedStays
  <2>9. \A k \in DOMAIN j.input : sequenced'[k - 1] = j.input[k]
    BY <2>2, <2>3
  <2>10. ImportedIsPreflighted'
    BY <2>1, <2>2, <2>9 DEF ImportedIsPreflighted, Manifest
  <2> QED
    BY <2>5, <2>6, <2>7, <2>8, <2>10
<1>8. ASSUME NEW i \in Importers, ImportFails(i) PROVE ImportInv'
  BY <1>8, QuitStep DEF ImportFails, TypeOK
<1>9. CASE PowerLoss
  <2>1. PICK lost \in SUBSET unsynced : store' = [o \in DOMAIN store \ lost |-> store[o]]
    BY <1>9 DEF PowerLoss
  <2>2. /\ pc' = [i \in Importers |-> "idle"] /\ job' = [i \in Importers |-> NoJob]
        /\ writer' = NoOne /\ unsynced' = {}
        /\ UNCHANGED <<next_index, file, sequenced, imported>>
    BY <1>9 DEF PowerLoss, dbVars, historyVars
  <2>3. TypeOK' /\ Preflighted'
    BY <2>2, NoJobIsJob DEF TypeOK, Preflighted
  <2>4. LockedLogIsEmpty' /\ ManifestIsOwn' /\ ReadyToCommit'
    BY <2>2, ImportAssumption DEF LockedLogIsEmpty, ManifestIsOwn, ReadyToCommit
  <2>5. ImportedStays' /\ ImportedIsPreflighted'
    BY <2>1, <2>2 DEF ImportedStays, ImportedIsPreflighted
  <2> QED
    BY <2>3, <2>4, <2>5
<1>10. ASSUME NEW f \in Files, ChangeFile(f) PROVE ImportInv'
  BY <1>10, OutsideStep DEF ChangeFile, storageVars, historyVars, dbVars
<1>11. ASSUME NEW m \in {"tessera", "rekor"}, StartServer(m) PROVE ImportInv'
  BY <1>11, OutsideStep DEF StartServer, storageVars, historyVars, dbVars, TypeOK
<1>12. CASE SequenceEntry
  <2>1. /\ writer = NoOne /\ next_index' = next_index + 1
        /\ sequenced' = Extend(sequenced, [k \in {next_index} |-> ServerEntry])
        /\ UNCHANGED <<writer, pc, job, store, unsynced, file, imported>>
    BY <1>12 DEF SequenceEntry, LockFree, storageVars
  <2>2. /\ DOMAIN sequenced' = 0 .. next_index' - 1 /\ next_index' \in Nat
        /\ \A k \in DOMAIN sequenced : sequenced'[k] = sequenced[k]
    <3>1. /\ DOMAIN sequenced' = DOMAIN sequenced \cup {next_index}
          /\ \A k \in DOMAIN sequenced \ {next_index} : sequenced'[k] = sequenced[k]
      BY <2>1 DEF Extend
    <3>2. next_index \in Nat /\ DOMAIN sequenced = 0 .. next_index - 1
      BY DEF TypeOK
    <3>3. \A n \in Nat : (0 .. n - 1) \cup {n} = 0 .. (n + 1) - 1
      OBVIOUS
    <3>4. next_index \notin DOMAIN sequenced /\ next_index' \in Nat
      BY <2>1, <3>2
    <3>5. DOMAIN sequenced' = 0 .. next_index' - 1
      BY <2>1, <3>1, <3>2, <3>3
    <3> QED
      BY <3>1, <3>4, <3>5
  <2>3. TypeOK' /\ Preflighted'
    BY <2>1, <2>2 DEF TypeOK, Preflighted, IsJob
  <2>4. \A k \in Importers : pc[k] \in {"idle", "begin"}
    BY <2>1, ImportAssumption DEF LockedLogIsEmpty, TypeOK
  <2>5. LockedLogIsEmpty' /\ ManifestIsOwn' /\ ReadyToCommit'
    BY <2>1, <2>4, ImportAssumption DEF LockedLogIsEmpty, ManifestIsOwn, ReadyToCommit
  <2>6. ImportedStays'
    <3>1. imported # <<>> => Len(imported) \in Nat
      BY FileIsSequence DEF ImportedStays
    <3> QED
      BY <2>1, <3>1 DEF ImportedStays, TypeOK
  <2>7. ImportedIsPreflighted'
    <3>1. ASSUME imported # <<>>, NEW k \in DOMAIN imported
          PROVE  k - 1 \in DOMAIN sequenced
      <4>1. DOMAIN imported = 1 .. Len(imported) /\ Len(imported) \in Nat /\ Len(imported) <= next_index
        BY <3>1, FileIsSequence DEF ImportedStays
      <4> QED
        BY <3>1, <4>1 DEF TypeOK
    <3> QED
      BY <2>1, <2>2, <3>1 DEF ImportedIsPreflighted
  <2> QED
    BY <2>3, <2>5, <2>6, <2>7
<1>13. CASE IntegrationCycle
  <2> DEFINE m == integrated_size
             n == next_index
             leaves == Extend(LoadedLeaves(store, m), [k \in pending |-> sequenced[k]])
  <2>1. /\ writer = NoOne /\ store' = Extend(store, ServerObjects(m, n, leaves))
        /\ unsynced' \subseteq unsynced
        /\ UNCHANGED <<pc, job, writer, next_index, file, sequenced, imported>>
    BY <1>13 DEF IntegrationCycle, LockFree
  <2>2. ManifestPath \notin DOMAIN ServerObjects(m, n, leaves)
    BY NoManifestAmongTreeObjects
  <2> HIDE DEF leaves
  <2>3. ManifestPath \in DOMAIN store =>
            ManifestPath \in DOMAIN store' /\ store'[ManifestPath] = store[ManifestPath]
    BY <2>1, <2>2 DEF Extend
  <2> QED
    BY <2>1, <2>3, OutsideStep DEF TypeOK
<1>14. CASE PublishCheckpoint
  BY <1>14, OutsideStep DEF PublishCheckpoint, historyVars, dbVars, TypeOK
<1>15. CASE UNCHANGED vars
  BY <1>15, OutsideStep DEF vars, storageVars, historyVars, dbVars, TypeOK
<1> QED
  BY <1>1, <1>2, <1>3, <1>4, <1>5, <1>6, <1>7, <1>8, <1>9, <1>10, <1>11, <1>12, <1>13, <1>14,
     <1>15 DEF Next, ImportStep

-----------------------------------------------------------------------------
\* The inductive invariant holds throughout.
THEOREM ImportInvariant == Spec => []ImportInv
BY InitInv, StepInv, PTL DEF Spec

\* What an import commits is what its preflight read and its manifest records.
THEOREM AlwaysPreflighted == Spec => []ImportedIsPreflighted
<1>1. ImportInv => ImportedIsPreflighted
  BY DEF ImportInv
<1> QED
  BY <1>1, ImportInvariant, PTL

\* No import, and no server next to one, changes an entry that has an index.
THEOREM NeverReplaces == Spec => LogOnlyGrows
<1> DEFINE Grown == \A k \in DOMAIN sequenced : k \in DOMAIN sequenced' /\ sequenced'[k] = sequenced[k]
<1>1. ASSUME ImportInv, [Next]_vars PROVE [Grown]_vars
  <2> USE <1>1 DEF ImportInv
  <2>1. ASSUME UNCHANGED sequenced PROVE Grown
    BY <2>1
  <2>2. CASE SequenceEntry
    <3>1. sequenced' = Extend(sequenced, [k \in {next_index} |-> ServerEntry])
      BY <2>2 DEF SequenceEntry
    <3>2. next_index \notin DOMAIN sequenced
      BY DEF TypeOK
    <3> QED
      BY <3>1, <3>2 DEF Extend
  <2>3. ASSUME NEW i \in Importers, FinishImport(i) PROVE Grown
    <3>1. next_index = 0
      BY <2>3 DEF FinishImport, LockedLogIsEmpty, EmptyLog
    <3> QED
      BY <3>1 DEF TypeOK
  <2>4. \/ UNCHANGED sequenced
        \/ SequenceEntry
        \/ \E i \in Importers : FinishImport(i)
    BY DEF Next, ImportStep, Preflight, BeginImport, WriteManifest, ReadChunk, Upload, EndOfInput,
       ImportFails, PowerLoss, ChangeFile, StartServer, IntegrationCycle, PublishCheckpoint, vars,
       historyVars
  <2> QED
    BY <2>1, <2>2, <2>3, <2>4
<1> QED
  BY <1>1, ImportInvariant, PTL DEF Spec, LogOnlyGrows

-----------------------------------------------------------------------------
(* The stored trees                                                         *)

\* What entries inputs consist of, and the log that an importer has read so far.
Entries == UNION {{f[k] : k \in DOMAIN f} : f \in Files}
LogOf(digest) == [k \in 0 .. Len(digest) - 1 |-> digest[k + 1]]

\* The objects that a power loss leaves.
Synced == [o \in DOMAIN store \ unsynced |-> store[o]]

\* The pending entries are those not integrated yet, and the root is that of the rest.
LogState ==
    /\ integrated_size \in 0 .. next_index /\ next_index <= MaxSize
    /\ pending = integrated_size .. next_index - 1
    /\ integrated_size > 0 => root_hash = [k \in 0 .. integrated_size - 1 |-> sequenced[k]]

\* Every committed tree is served, also after a power loss.
MarkedServed ==
    /\ integrated_size \in marked
    /\ \A n \in marked : n \in 0 .. integrated_size /\ TreeServed(Synced, n, sequenced)

\* Between chunks an importer has stored the tree of all it has read.
ChunkRight(i) ==
    LET j == job[i]
        e == LogOf(j.digest)
    IN /\ j.digest \in Seq(Entries) /\ Len(j.digest) = j.size /\ j.size <= Len(j.input)
       /\ TreeServed(store, j.size, e)
       /\ j.size > 0 => j.root = e

\* During uploads every object that the chunk touches is stored, or still to be
\* written, with the right content.
UploadRight(i) ==
    LET j == job[i]
        e == LogOf(j.digest)
    IN /\ j.digest \in Seq(Entries) /\ Len(j.digest) = j.new_size /\ j.new_size <= Len(j.input)
       /\ j.size \in Nat /\ j.size < j.new_size
       /\ TreeServed(store, j.size, e)
       /\ j.leaves = e
       /\ \A o \in TouchedObjects(j.size, j.new_size) :
            o \in DOMAIN j.uploads \/ (o \in DOMAIN store /\ store[o] = ContentOf(o, e))
       /\ \A o \in DOMAIN j.uploads : j.uploads[o] = ContentOf(o, e)

JobRight(i) ==
    /\ pc[i] # "idle" => job[i].chunk_size \in ChunkSizes
    /\ pc[i] \in {"begin", "manifest"} => job[i].size = 0 /\ job[i].digest = <<>>
    /\ pc[i] \in {"chunk", "commit"} => ChunkRight(i)
    /\ pc[i] = "upload" => UploadRight(i)

TreeInv ==
    /\ LogState
    /\ MarkedServed
    /\ \A i \in Importers : JobRight(i)

\* Inputs are sequences of entries.
LEMMA FileEntries ==
    ASSUME NEW f \in Files
    PROVE  f \in Seq(Entries) /\ Len(f) <= MaxSize
<1>1. f \in Seq({f[k] : k \in DOMAIN f}) /\ Len(f) <= MaxSize
  BY ImportAssumption
<1>2. {f[k] : k \in DOMAIN f} \subseteq Entries
  BY DEF Entries
<1> QED
  BY <1>1, <1>2

\* An importer builds the right objects from a tree that is served, whatever else
\* is stored.
LEMMA TreeObjectsRight ==
    ASSUME NEW m \in Nat, NEW n \in Nat, m < n, NEW e, NEW leaves,
           TreeServed(store, m, e), Agree(leaves, e, n)
    PROVE  /\ DOMAIN TreeObjects(m, n, leaves) = TouchedObjects(m, n)
           /\ \A o \in TouchedObjects(m, n) : TreeObjects(m, n, leaves)[o] = ContentOf(o, e)
<1> DEFINE tiles == {TileOf(t[1], t[2], n) : t \in TouchedTiles(m, n)}
<1>1. /\ DOMAIN TreeObjects(m, n, leaves) = TouchedObjects(m, n)
      /\ \A o \in TouchedObjects(m, n) : TreeObjects(m, n, leaves)[o] =
            IF o \in tiles THEN NewTile(store, o.level, o.index, m, n, leaves)
            ELSE [k \in Covered(0, o.index, n) |-> leaves[k]]
  BY DEF TreeObjects, TouchedObjects
<1>2. ASSUME NEW o \in tiles PROVE NewTile(store, o.level, o.index, m, n, leaves) = ContentOf(o, e)
  <2>1. PICK t \in TouchedTiles(m, n) : o = TileOf(t[1], t[2], n)
    OBVIOUS
  <2> QED
    BY <2>1, BuiltTilesRight
<1>3. ASSUME NEW b \in TouchedBundles(m, n), NEW o, o = EntriesOf(b, n)
      PROVE  [k \in Covered(0, o.index, n) |-> leaves[k]] = ContentOf(o, e)
  <2>1. b \in Nat /\ b * W < n
    BY TouchedBundleIsOfTree
  <2>2. o.index = b
    BY <1>3 DEF EntriesOf, EntriesPath
  <2>3. Covered(0, b, n) = LeavesOf(o)
    BY <1>3, <2>1, BundleLeaves
  <2>4. \A k \in Covered(0, b, n) : k \in 0 .. n - 1
    BY <2>1, LevelZero, CoveredInTree
  <2> QED
    BY <2>2, <2>3, <2>4 DEF ContentOf, Agree
<1> HIDE DEF tiles
<1>4. ASSUME NEW o \in TouchedObjects(m, n) PROVE TreeObjects(m, n, leaves)[o] = ContentOf(o, e)
  <2>1. CASE o \in tiles
    BY <1>1, <1>2, <2>1
  <2>2. CASE o \notin tiles
    <3>1. PICK b \in TouchedBundles(m, n) : o = EntriesOf(b, n)
      BY <2>2 DEF TouchedObjects, tiles
    <3> QED
      BY <1>1, <1>3, <2>2, <3>1
  <2> QED
    BY <2>1, <2>2
<1> QED
  BY <1>1, <1>4

\* And so does the server, which reads back the last bundle.
LEMMA ServerObjectsRight ==
    ASSUME NEW m \in Nat, NEW n \in Nat, m < n, m <= MaxSize, NEW e, NEW leaves,
           TreeServed(store, m, e), Agree(leaves, e, n)
    PROVE  /\ DOMAIN ServerObjects(m, n, leaves) = TouchedObjects(m, n)
           /\ \A o \in TouchedObjects(m, n) : ServerObjects(m, n, leaves)[o] = ContentOf(o, e)
<1>1. /\ DOMAIN TreeObjects(m, n, leaves) = TouchedObjects(m, n)
      /\ \A o \in TouchedObjects(m, n) : TreeObjects(m, n, leaves)[o] = ContentOf(o, e)
  BY TreeObjectsRight
<1>2. /\ DOMAIN ServerObjects(m, n, leaves) = TouchedObjects(m, n)
      /\ \A o \in TouchedObjects(m, n) : ServerObjects(m, n, leaves)[o] =
            IF o.kind = "entries" /\ o.index = m \div W /\ m % W > 0
            THEN Extend(ContentOf(o, e), store[EntriesPath(o.index, m % W)])
            ELSE ContentOf(o, e)
  BY <1>1 DEF ServerObjects
<1>3. ASSUME NEW o \in TouchedObjects(m, n), o.kind = "entries", o.index = m \div W, m % W > 0
      PROVE  Extend(ContentOf(o, e), store[EntriesPath(o.index, m % W)]) = ContentOf(o, e)
  <2>1. PICK b \in TouchedBundles(m, n) : o = EntriesOf(b, n)
    <3>1. \A t \in TouchedTiles(m, n) : TileOf(t[1], t[2], n).kind = "tile"
      BY DEF TileOf, TilePath
    <3> QED
      BY <1>3, <3>1 DEF TouchedObjects
  <2>2. b = m \div W
    BY <1>3, <2>1 DEF EntriesOf, EntriesPath
  <2>3. b \in Nat /\ b * W < n /\ b \in 0 .. MaxSize
    BY TouchedBundleIsOfTree
  <2>4. /\ W \in Nat \ {0} /\ SizeAt(0, m) = m /\ SizeAt(0, n) = n /\ W^0 = 1 /\ 0 \in 0 .. MaxSize
    BY LevelZero
  <2>5. b * W < m
    <3>1. m % W \in Nat /\ m = W * b + (m % W)
      BY <2>2, <2>4, DivMod
    <3> QED
      BY <1>3, <2>3, <2>4, <3>1
  <2>6. EntriesOf(b, m) = EntriesPath(o.index, m % W)
    BY <1>3, <2>2, <2>3, <2>4 DEF EntriesOf, PartialTileSize
  <2>7. store[EntriesOf(b, m)] = [k \in Covered(0, b, m) |-> e[k]]
    BY <2>3, <2>5 DEF TreeServed
  <2>8. Covered(0, b, n) = LeavesOf(o)
    BY <2>1, <2>3, BundleLeaves
  <2>9. Covered(0, b, m) \subseteq Covered(0, b, n)
    <3>1. ASSUME NEW k \in Covered(0, b, m) PROVE k \in Covered(0, b, n)
      <4>1. k \in 0 .. m - 1 /\ b * W^(0 + 1) <= k /\ k < (b + 1) * W^(0 + 1)
        BY <2>3, <2>4, CoveredInTree
      <4>2. k \in Nat /\ k < SizeAt(0, n) * W^0
        BY <2>4, <4>1
      <4> QED
        BY <2>3, <2>4, <4>1, <4>2, CoveredComplete
    <3> QED
      BY <3>1
  <2> QED
    BY <2>6, <2>7, <2>8, <2>9 DEF Extend, ContentOf
<1> QED
  BY <1>2, <1>3

\* The log and what was marked stay, and the storage loses nothing synced, or
\* nothing was committed yet.
LEMMA LogFrame ==
    ASSUME ImportInv, TreeInv,
           UNCHANGED <<next_index, integrated_size, root_hash, pending, sequenced, marked>>,
           integrated_size = 0 \/
               \A o \in DOMAIN store \ unsynced : o \in DOMAIN store' \ unsynced' /\ store'[o] = store[o]
    PROVE  LogState' /\ MarkedServed'
<1>1. LogState /\ MarkedServed
  BY DEF TreeInv
<1>2. LogState'
  BY <1>1 DEF LogState
<1>3. ASSUME NEW n \in marked PROVE TreeServed(Synced', n, sequenced)
  <2>1. n \in 0 .. integrated_size /\ TreeServed(Synced, n, sequenced)
    BY <1>1 DEF MarkedServed
  <2>2. CASE integrated_size = 0
    <3>1. n = 0
      BY <2>1, <2>2
    <3> QED
      BY <3>1, EmptyServed
  <2>3. CASE integrated_size # 0
    <3>1. \A o \in DOMAIN Synced : o \in DOMAIN Synced' /\ Synced'[o] = Synced[o]
      BY <2>3 DEF Synced
    <3>2. n \in Nat
      BY <1>1, <2>1 DEF LogState
    <3> QED
      BY <2>1, <3>1, <3>2, ServedStays
  <2> QED
    BY <2>2, <2>3
<1>4. MarkedServed'
  BY <1>1, <1>3 DEF MarkedServed
<1> QED
  BY <1>2, <1>4

\* An importer that does nothing, and whose lock keeps the storage as it is.
LEMMA JobFrame ==
    ASSUME ImportInv, TreeInv, NEW i \in Importers, pc'[i] = pc[i], job'[i] = job[i],
           writer = i => UNCHANGED store
    PROVE  JobRight(i)'
<1>1. JobRight(i)
  BY DEF TreeInv
<1>2. pc[i] \in {"chunk", "upload", "commit"} => UNCHANGED store
  BY DEF ImportInv, LockedLogIsEmpty
<1> QED
  BY <1>1, <1>2 DEF JobRight, ChunkRight, UploadRight

\* An importer ends.
LEMMA QuitTree ==
    ASSUME ImportInv, TreeInv, NEW i \in Importers, Quit(i),
           UNCHANGED <<store, unsynced, next_index, integrated_size, root_hash, pending, sequenced, marked>>
    PROVE  TreeInv'
<1>1. LogState' /\ MarkedServed'
  BY LogFrame
<1>2. pc'[i] = "idle" /\ \A k \in Importers \ {i} : pc'[k] = pc[k] /\ job'[k] = job[k]
  BY DEF Quit, ImportInv, TypeOK
<1>3. JobRight(i)'
  BY <1>2 DEF JobRight
<1>4. \A k \in Importers : JobRight(k)'
  BY <1>2, <1>3, JobFrame
<1> QED
  BY <1>1, <1>4 DEF TreeInv

\* An importer does one thing; others do not hold the lock it holds, and nothing
\* is committed while it does.
LEMMA StepTree ==
    ASSUME ImportInv, TreeInv, NEW i \in Importers,
           NEW label, pc' = [pc EXCEPT ![i] = label], NEW j, job' = [job EXCEPT ![i] = j],
           writer = i \/ UNCHANGED <<store, unsynced>>,
           UNCHANGED <<next_index, integrated_size, root_hash, pending, sequenced, marked>>,
           JobRight(i)'
    PROVE  TreeInv'
<1>1. writer = i => integrated_size = 0
  BY DEF ImportInv, LockedLogIsEmpty, EmptyLog
<1>2. LogState' /\ MarkedServed'
  BY <1>1, LogFrame
<1>3. \A k \in Importers \ {i} : pc'[k] = pc[k] /\ job'[k] = job[k]
  BY DEF ImportInv, TypeOK
<1>4. ASSUME NEW k \in Importers PROVE JobRight(k)'
  <2>1. CASE k # i
    BY <1>3, <2>1, JobFrame
  <2> QED
    BY <2>1
<1> QED
  BY <1>2, <1>4 DEF TreeInv

\* A chunk continues what was read.
LEMMA ChunkContinues ==
    ASSUME NEW digest \in Seq(Entries), NEW chunk \in Seq(Entries)
    PROVE  LET after == digest \o chunk
               m == Len(digest)
               n == Len(digest) + Len(chunk)
           IN /\ after \in Seq(Entries) /\ Len(after) = n /\ m \in Nat /\ n \in Nat /\ m <= n
              /\ Agree(LogOf(after), LogOf(digest), m)
              /\ LogOf(after) = Extend(LogOf(digest), [k \in m .. n - 1 |-> chunk[k - m + 1]])
<1> DEFINE after == digest \o chunk
           m == Len(digest)
           n == Len(digest) + Len(chunk)
<1>1. /\ after \in Seq(Entries) /\ Len(after) = n
      /\ \A k \in 1 .. n : after[k] = IF k <= m THEN digest[k] ELSE chunk[k - m]
  BY ConcatProperties
<1>2. m \in Nat /\ n \in Nat /\ m <= n
  OBVIOUS
<1> HIDE DEF after, m, n
<1>3. \A k \in 0 .. m - 1 : k + 1 \in 1 .. n /\ k + 1 <= m /\ k \in 0 .. n - 1
  BY <1>2
<1>4. \A k \in m .. n - 1 : k + 1 \in 1 .. n /\ ~(k + 1 <= m) /\ (k + 1) - m = k - m + 1
  BY <1>2
<1>5. 0 .. n - 1 = (0 .. m - 1) \cup (m .. n - 1) /\ \A k \in m .. n - 1 : k \notin 0 .. m - 1
  BY <1>2
<1>6. /\ LogOf(after) = [k \in 0 .. n - 1 |-> after[k + 1]]
      /\ LogOf(digest) = [k \in 0 .. m - 1 |-> digest[k + 1]]
  BY <1>1 DEF LogOf, m
<1>7. Agree(LogOf(after), LogOf(digest), m)
  BY <1>1, <1>3, <1>6 DEF Agree
<1>8. LogOf(after) = Extend(LogOf(digest), [k \in m .. n - 1 |-> chunk[k - m + 1]])
  <2>1. \A k \in 0 .. m - 1 : after[k + 1] = digest[k + 1]
    BY <1>1, <1>3
  <2>2. \A k \in m .. n - 1 : after[k + 1] = chunk[k - m + 1]
    BY <1>1, <1>4
  <2> QED
    BY <1>5, <1>6, <2>1, <2>2 DEF Extend
<1> QED
  BY <1>1, <1>2, <1>7, <1>8 DEF after, m, n

\* The next chunk is one of entries.
LEMMA ChunkEntries ==
    ASSUME NEW j, j.size \in Nat, j.chunk_size \in ChunkSizes, file \in Files
    PROVE  Chunk(j) \in Seq(Entries)
<1>1. file \in Seq(Entries)
  BY FileEntries
<1>2. j.chunk_size \in Nat
  BY ImportAssumption
<1>3. PICK a, b : a = j.size + 1 /\ b = Smaller(j.size + j.chunk_size, Len(file))
  OBVIOUS
<1>4. a \in Nat \ {0} /\ b \in Nat /\ b <= Len(file)
  BY <1>1, <1>2, <1>3 DEF Smaller
<1>5. SubSeq(file, a, b) \in Seq(Entries)
  BY <1>1, <1>4
<1> QED
  BY <1>3, <1>5 DEF Chunk

\* A chunk is read and its objects are built.
LEMMA ReadChunkTree ==
    ASSUME ImportInv, TreeInv, NEW i \in Importers, ReadChunk(i)
    PROVE  TreeInv'
<1>1. /\ pc[i] = "chunk" /\ writer = i /\ JobRight(i) /\ ChunkRight(i) /\ file \in Files
      /\ job[i].input \in Files /\ IsJob(job[i])
      /\ UNCHANGED <<store, unsynced, next_index, integrated_size, root_hash, pending, sequenced, marked>>
  BY DEF ReadChunk, ImportInv, TypeOK, Preflighted, LockedLogIsEmpty, TreeInv, JobRight, dbVars,
     storageVars, historyVars
<1>2. CASE Quit(i)
  BY <1>1, <1>2, QuitTree
<1>3. CASE ~Quit(i)
  <2>1. PICK j, chunk, m, n, loaded :
          /\ j = job[i] /\ chunk = Chunk(job[i]) /\ m = job[i].size /\ n = m + Len(chunk)
          /\ loaded = LoadedLeaves(store, m)
    OBVIOUS
  <2>2. PICK leaves : leaves = Extend(loaded, [k \in m .. n - 1 |-> chunk[k - m + 1]])
    OBVIOUS
  <2>3. PICK next : next = [j EXCEPT !.new_size = n, !.leaves = leaves, !.digest = @ \o chunk,
                                     !.eof = Len(chunk) < j.chunk_size, !.uploads = TreeObjects(m, n, leaves)]
    OBVIOUS
  <2>4. /\ chunk # <<>> /\ Len(chunk) <= Len(j.input) - m
        /\ pc' = [pc EXCEPT ![i] = "upload"] /\ job' = [job EXCEPT ![i] = next]
    BY <1>3, <2>1, <2>2, <2>3 DEF ReadChunk, Goto
  <2>5. /\ j.digest \in Seq(Entries) /\ Len(j.digest) = m /\ m \in Nat /\ m <= Len(j.input)
        /\ j.chunk_size \in ChunkSizes /\ TreeServed(store, m, LogOf(j.digest))
    BY <1>1, <2>1 DEF ChunkRight, JobRight
  <2>6. chunk \in Seq(Entries) /\ Len(chunk) \in Nat /\ Len(chunk) > 0
    BY <1>1, <2>1, <2>4, <2>5, ChunkEntries
  <2>7. Len(j.input) \in Nat /\ Len(j.input) <= MaxSize /\ m <= MaxSize /\ m < n /\ n <= Len(j.input) /\ n \in Nat
    <3>1. Len(j.input) \in Nat /\ Len(j.input) <= MaxSize
      BY <1>1, <2>1, FileIsSequence, FileEntries
    <3> QED
      <4>1. PICK l, d : l = Len(j.input) /\ d = Len(chunk)
        OBVIOUS
      <4>2. /\ l \in Nat /\ l <= MaxSize /\ m \in Nat /\ m <= l /\ d \in Nat /\ d > 0
            /\ n = m + d /\ d <= l - m /\ MaxSize \in Nat
        BY <2>1, <2>4, <2>5, <2>6, <3>1, <4>1, TileLayoutAssumption
      <4>3. m <= MaxSize /\ m < n /\ n <= l /\ n \in Nat
        BY <4>2
      <4> QED
        BY <3>1, <4>1, <4>3
  <2>8. PICK after, e : after = j.digest \o chunk /\ e = LogOf(after)
    OBVIOUS
  <2>9. /\ after \in Seq(Entries) /\ Len(after) = n
        /\ Agree(e, LogOf(j.digest), m)
        /\ e = Extend(LogOf(j.digest), [k \in m .. n - 1 |-> chunk[k - m + 1]])
    <3>1. PICK d : d = j.digest
      OBVIOUS
    <3>2. d \in Seq(Entries) /\ Len(d) = m /\ Len(d) + Len(chunk) = n /\ after = d \o chunk
      BY <2>1, <2>5, <2>8, <3>1
    <3>3. /\ after \in Seq(Entries) /\ Len(after) = n
          /\ Agree(LogOf(after), LogOf(d), m)
          /\ LogOf(after) = Extend(LogOf(d), [k \in m .. n - 1 |-> chunk[k - m + 1]])
      BY <2>6, <3>2, ChunkContinues
    <3> QED
      BY <2>8, <3>1, <3>3
  <2>10. loaded = LogOf(j.digest)
    <3>1. loaded = [k \in 0 .. m - 1 |-> LogOf(j.digest)[k]]
      BY <2>1, <2>5, <2>7, LoadedRight
    <3> QED
      BY <2>5, <3>1 DEF LogOf
  <2>11. leaves = e
    BY <2>2, <2>9, <2>10
  <2>12. TreeServed(store, m, e)
    BY <2>5, <2>9, ServedAgrees
  <2>13. PICK built : built = TreeObjects(m, n, leaves)
    OBVIOUS
  <2>14. DOMAIN built = TouchedObjects(m, n) /\ \A o \in DOMAIN built : built[o] = ContentOf(o, e)
    <3>1. Agree(leaves, e, n)
      BY <2>11 DEF Agree
    <3> QED
      BY <2>5, <2>7, <2>12, <2>13, <3>1, TreeObjectsRight
  <2>15. /\ next.size = m /\ next.new_size = n /\ next.leaves = e /\ next.digest = after
         /\ next.uploads = built /\ next.input = j.input /\ next.chunk_size = j.chunk_size
    BY <1>1, <2>1, <2>3, <2>8, <2>11, <2>13 DEF IsJob, JobFields
  <2>16. pc'[i] = "upload" /\ job'[i] = next
    BY <2>4 DEF ImportInv, TypeOK
  <2>17. UploadRight(i)'
    BY <1>1, <2>5, <2>7, <2>8, <2>9, <2>12, <2>14, <2>15, <2>16 DEF UploadRight
  <2>18. JobRight(i)'
    BY <2>5, <2>15, <2>16, <2>17 DEF JobRight
  <2> QED
    BY <1>1, <2>4, <2>18, StepTree
<1> QED
  BY <1>2, <1>3

\* An object is uploaded, the last one of a chunk perhaps.
LEMMA UploadTree ==
    ASSUME ImportInv, TreeInv, NEW i \in Importers, NEW o, Upload(i, o)
    PROVE  TreeInv'
<1>1. /\ pc[i] = "upload" /\ writer = i /\ JobRight(i) /\ UploadRight(i) /\ IsJob(job[i])
      /\ o \in DOMAIN job[i].uploads
      /\ UNCHANGED <<next_index, integrated_size, root_hash, pending, sequenced, marked>>
  BY DEF Upload, ImportInv, TypeOK, LockedLogIsEmpty, TreeInv, JobRight, dbVars, historyVars
<1>2. CASE Quit(i) /\ UNCHANGED <<store, unsynced>>
  BY <1>1, <1>2, QuitTree
<1>3. CASE ~(Quit(i) /\ UNCHANGED <<store, unsynced>>)
  <2>1. PICK j, e, m, n, rest : /\ j = job[i] /\ e = LogOf(j.digest) /\ m = j.size /\ n = j.new_size
                                /\ rest = [x \in DOMAIN j.uploads \ {o} |-> j.uploads[x]]
    OBVIOUS
  <2>2. PICK next : next = IF rest # Empty THEN [j EXCEPT !.uploads = rest]
                           ELSE [j EXCEPT !.uploads = rest, !.size = j.new_size, !.root = j.leaves,
                                          !.leaves = Empty]
    OBVIOUS
  <2>3. PICK label : label = IF rest # Empty THEN "upload" ELSE "chunk"
    OBVIOUS
  <2>4. /\ Writable(o, j.uploads[o], j.resume) /\ Written(o, j.uploads[o])
        /\ pc' = [pc EXCEPT ![i] = label] /\ job' = [job EXCEPT ![i] = next]
    BY <1>3, <2>1, <2>2, <2>3 DEF Upload, Goto
  <2>5. /\ j.digest \in Seq(Entries) /\ Len(j.digest) = n /\ n <= Len(j.input) /\ n \in Nat
        /\ m \in Nat /\ m < n /\ TreeServed(store, m, e) /\ j.leaves = e
        /\ \A x \in TouchedObjects(m, n) :
              x \in DOMAIN j.uploads \/ (x \in DOMAIN store /\ store[x] = ContentOf(x, e))
        /\ \A x \in DOMAIN j.uploads : j.uploads[x] = ContentOf(x, e)
        /\ j.chunk_size \in ChunkSizes
    BY <1>1, <2>1 DEF UploadRight, JobRight
  <2>6. /\ DOMAIN store' = DOMAIN store \cup {o} /\ store'[o] = ContentOf(o, e)
        /\ \A x \in DOMAIN store : x \in DOMAIN store' /\ store'[x] = store[x]
    BY <1>1, <2>1, <2>4, <2>5 DEF Writable, Written, Extend
  <2>7. TreeServed(store', m, e)
    BY <2>5, <2>6, ServedStays
  <2>8. \A x \in TouchedObjects(m, n) :
            x \in DOMAIN rest \/ (x \in DOMAIN store' /\ store'[x] = ContentOf(x, e))
    BY <2>1, <2>5, <2>6
  <2>9. \A x \in DOMAIN rest : rest[x] = ContentOf(x, e)
    BY <2>1, <2>5
  <2>10. pc'[i] = label /\ job'[i] = next
    BY <2>4 DEF ImportInv, TypeOK
  <2>11. CASE rest # Empty
    <3>1. /\ next.size = m /\ next.new_size = n /\ next.leaves = e /\ next.digest = j.digest
          /\ next.uploads = rest /\ next.input = j.input /\ next.chunk_size = j.chunk_size
      BY <1>1, <2>1, <2>2, <2>5, <2>11 DEF IsJob, JobFields
    <3>2. UploadRight(i)'
      BY <2>1, <2>5, <2>7, <2>8, <2>9, <2>10, <3>1 DEF UploadRight
    <3>3. JobRight(i)'
      BY <2>3, <2>5, <2>10, <2>11, <3>1, <3>2 DEF JobRight
    <3> QED
      BY <1>1, <2>4, <3>3, StepTree
  <2>12. CASE rest = Empty
    <3>1. /\ next.size = n /\ next.root = e /\ next.digest = j.digest
          /\ next.input = j.input /\ next.chunk_size = j.chunk_size
      BY <1>1, <2>1, <2>2, <2>5, <2>12 DEF IsJob, JobFields
    <3>2. DOMAIN rest = {}
      BY <2>12 DEF Empty
    <3>3. TreeServed(store', n, e)
      BY <2>5, <2>7, <2>8, <3>2, ServedGrows
    <3>4. ChunkRight(i)'
      BY <2>1, <2>5, <2>10, <3>1, <3>3 DEF ChunkRight
    <3>5. JobRight(i)'
      BY <2>3, <2>5, <2>10, <2>12, <3>1, <3>4 DEF JobRight
    <3> QED
      BY <1>1, <2>4, <3>5, StepTree
  <2> QED
    BY <2>11, <2>12
<1> QED
  BY <1>2, <1>3

\* The import is committed: everything was synced, and the root is that of the
\* stored tree.
LEMMA FinishTree ==
    ASSUME ImportInv, TreeInv, NEW i \in Importers, FinishImport(i)
    PROVE  TreeInv'
<1>1. PICK j, e, n : j = job[i] /\ e = LogOf(j.digest) /\ n = j.size
  OBVIOUS
<1>2. /\ pc[i] = "commit" /\ writer = i /\ unsynced = {} /\ n = Len(j.input) /\ j.input \in Files
      /\ j.input # <<>> /\ integrated_size = 0 /\ pending = {} /\ ChunkRight(i) /\ LogState /\ MarkedServed
  BY <1>1 DEF FinishImport, ImportInv, LockedLogIsEmpty, EmptyLog, ReadyToCommit, Preflighted, TreeInv,
     JobRight
<1>3. /\ n \in Nat /\ n > 0 /\ n <= MaxSize
  BY <1>2, FileIsSequence, FileEntries
<1>4. Len(j.digest) = n /\ TreeServed(store, n, e) /\ j.root = e
  BY <1>1, <1>2, <1>3 DEF ChunkRight
<1>5. /\ next_index' = n /\ integrated_size' = n /\ root_hash' = e /\ sequenced' = e
      /\ marked' = marked \cup {n} /\ Quit(i) /\ UNCHANGED <<pending, store, unsynced>>
  BY <1>1, <1>4 DEF FinishImport, storageVars, LogOf
<1>6. LogState'
  <2>1. e = [k \in 0 .. n - 1 |-> e[k]]
    BY <1>1, <1>4 DEF LogOf
  <2>2. {} = n .. n - 1
    BY <1>3
  <2> QED
    <3>1. n \in 0 .. n /\ n <= MaxSize
      BY <1>3
    <3>2. pending' = n .. n - 1
      BY <1>2, <1>5, <2>2
    <3>3. root_hash' = [k \in 0 .. n - 1 |-> sequenced'[k]]
      BY <1>5, <2>1
    <3> QED
      BY <1>5, <3>1, <3>2, <3>3 DEF LogState
<1>7. MarkedServed'
  <2>1. TreeServed(Synced', n, e)
    <3>1. \A o \in DOMAIN store : o \in DOMAIN Synced' /\ Synced'[o] = store[o]
      BY <1>2, <1>5 DEF Synced
    <3> QED
      BY <1>3, <1>4, <3>1, ServedStays
  <2>2. ASSUME NEW k \in marked' PROVE k \in 0 .. n /\ TreeServed(Synced', k, e)
    <3>1. k = n \/ k = 0
      BY <1>2, <1>5 DEF MarkedServed
    <3> QED
      BY <1>3, <2>1, <3>1, EmptyServed
  <2> QED
    BY <1>5, <2>2 DEF MarkedServed
<1>8. pc'[i] = "idle" /\ \A k \in Importers \ {i} : pc'[k] = pc[k] /\ job'[k] = job[k]
  BY <1>5 DEF Quit, ImportInv, TypeOK
<1>9. JobRight(i)'
  BY <1>8 DEF JobRight
<1>10. \A k \in Importers : JobRight(k)'
  BY <1>5, <1>8, <1>9, JobFrame
<1> QED
  BY <1>6, <1>7, <1>10 DEF TreeInv

\* What was not synced may be gone.
LEMMA PowerLossTree ==
    ASSUME ImportInv, TreeInv, PowerLoss
    PROVE  TreeInv'
<1>1. PICK lost \in SUBSET unsynced : store' = [o \in DOMAIN store \ lost |-> store[o]]
  BY DEF PowerLoss
<1>2. /\ pc' = [i \in Importers |-> "idle"] /\ unsynced' = {}
      /\ UNCHANGED <<next_index, integrated_size, root_hash, pending, sequenced, marked>>
  BY DEF PowerLoss, dbVars, historyVars
<1>3. \A o \in DOMAIN store \ unsynced : o \in DOMAIN store' \ unsynced' /\ store'[o] = store[o]
  BY <1>1, <1>2
<1>4. LogState' /\ MarkedServed'
  BY <1>2, <1>3, LogFrame
<1>5. \A i \in Importers : JobRight(i)'
  BY <1>2 DEF JobRight
<1> QED
  BY <1>4, <1>5 DEF TreeInv

\* The server appends an entry, which no stored tree has.
LEMMA SequenceTree ==
    ASSUME ImportInv, TreeInv, SequenceEntry
    PROVE  TreeInv'
<1>1. LogState /\ MarkedServed /\ next_index \in Nat /\ DOMAIN sequenced = 0 .. next_index - 1
  BY DEF TreeInv, ImportInv, TypeOK
<1>2. PICK m, n : m = integrated_size /\ n = next_index
  OBVIOUS
<1>3. /\ n < MaxSize /\ next_index' = n + 1 /\ pending' = pending \cup {n}
      /\ sequenced' = Extend(sequenced, [k \in {n} |-> ServerEntry])
      /\ UNCHANGED <<integrated_size, root_hash, store, unsynced, pc, job, marked>>
  BY <1>2 DEF SequenceEntry, storageVars
<1>4. m \in 0 .. n /\ pending = m .. n - 1 /\ n \in Nat /\ m \in Nat
  BY <1>1, <1>2 DEF LogState
<1>5. \A k \in 0 .. n - 1 : sequenced'[k] = sequenced[k]
  <2>1. \A k \in 0 .. n - 1 : k \in DOMAIN sequenced /\ k \notin {n}
    BY <1>1, <1>2, <1>4
  <2> QED
    BY <1>3, <2>1 DEF Extend
<1>6. m > 0 => root_hash = [k \in 0 .. m - 1 |-> sequenced'[k]]
  <2>1. \A k \in 0 .. m - 1 : sequenced'[k] = sequenced[k]
    BY <1>4, <1>5
  <2> QED
    BY <1>1, <1>2, <2>1 DEF LogState
<1>7. LogState'
  <2>1. (m .. n - 1) \cup {n} = m .. (n + 1) - 1 /\ m \in 0 .. n + 1 /\ n + 1 <= MaxSize
    BY <1>3, <1>4, TileLayoutAssumption
  <2> QED
    BY <1>2, <1>3, <1>4, <1>6, <2>1 DEF LogState
<1>8. MarkedServed'
  <2>1. Synced' = Synced
    BY <1>3 DEF Synced
  <2>2. ASSUME NEW k \in marked PROVE k \in 0 .. m /\ TreeServed(Synced, k, sequenced')
    <3>1. k \in 0 .. m /\ TreeServed(Synced, k, sequenced)
      BY <1>1, <1>2 DEF MarkedServed
    <3>2. k \in Nat /\ \A x \in 0 .. k - 1 : x \in 0 .. n - 1
      BY <1>4, <3>1
    <3>3. Agree(sequenced', sequenced, k)
      BY <1>5, <3>2 DEF Agree
    <3> QED
      BY <3>1, <3>2, <3>3, ServedAgrees
  <2> QED
    BY <1>1, <1>2, <1>3, <2>1, <2>2 DEF MarkedServed
<1>9. \A i \in Importers : JobRight(i)'
  BY <1>3, JobFrame
<1> QED
  BY <1>7, <1>8, <1>9 DEF TreeInv

\* The server integrates what is pending, over whatever an import has left.
LEMMA IntegrationTree ==
    ASSUME ImportInv, TreeInv, IntegrationCycle
    PROVE  TreeInv'
<1>1. LogState /\ MarkedServed
  BY DEF TreeInv
<1>2. PICK m, n, e, loaded : m = integrated_size /\ n = next_index /\ e = sequenced /\ loaded = LoadedLeaves(store, m)
  OBVIOUS
<1>3. PICK leaves : leaves = Extend(loaded, [k \in pending |-> e[k]])
  OBVIOUS
<1>4. PICK built : built = ServerObjects(m, n, leaves)
  OBVIOUS
<1>5. /\ writer = NoOne /\ pending # {} /\ store' = Extend(store, built) /\ unsynced' = unsynced \ DOMAIN built
      /\ integrated_size' = n /\ root_hash' = leaves /\ pending' = {} /\ marked' = marked \cup {n}
      /\ next_index' = n /\ sequenced' = e /\ UNCHANGED <<pc, job>>
  BY <1>2, <1>3, <1>4 DEF IntegrationCycle, LockFree
<1>6. /\ m \in Nat /\ n \in Nat /\ m < n /\ n <= MaxSize /\ m <= MaxSize /\ pending = m .. n - 1
  <2>1. next_index \in Nat /\ integrated_size \in 0 .. next_index /\ next_index <= MaxSize
        /\ pending = integrated_size .. next_index - 1
    BY <1>1 DEF LogState, ImportInv, TypeOK
  <2>2. m .. n - 1 # {}
    BY <1>2, <1>5, <2>1
  <2> QED
    BY <1>2, <2>1, <2>2, TileLayoutAssumption
<1>7. TreeServed(Synced, m, e) /\ \A k \in marked : k \in 0 .. m /\ TreeServed(Synced, k, e)
  BY <1>1, <1>2 DEF MarkedServed
<1>8. TreeServed(store, m, e)
  <2>1. \A o \in DOMAIN Synced : o \in DOMAIN store /\ store[o] = Synced[o]
    BY DEF Synced
  <2> QED
    BY <1>6, <1>7, <2>1, ServedStays
<1>9. leaves = [k \in 0 .. n - 1 |-> e[k]]
  <2>1. loaded = [k \in 0 .. m - 1 |-> e[k]]
    BY <1>2, <1>6, <1>8, LoadedRight
  <2>2. (0 .. m - 1) \cup (m .. n - 1) = 0 .. n - 1
    BY <1>6
  <2> QED
    BY <1>3, <1>6, <2>1, <2>2 DEF Extend
<1>10. DOMAIN built = TouchedObjects(m, n) /\ \A o \in DOMAIN built : built[o] = ContentOf(o, e)
  <2>1. Agree(leaves, e, n)
    BY <1>9 DEF Agree
  <2> QED
    BY <1>4, <1>6, <1>8, <2>1, ServerObjectsRight
<1>11. /\ \A o \in DOMAIN Synced : Synced[o] = ContentOf(o, e) => o \in DOMAIN Synced' /\ Synced'[o] = Synced[o]
       /\ \A o \in DOMAIN built : o \in DOMAIN Synced' /\ Synced'[o] = ContentOf(o, e)
  <2>1. /\ DOMAIN store' = DOMAIN store \cup DOMAIN built
        /\ \A o \in DOMAIN store \cup DOMAIN built : store'[o] = IF o \in DOMAIN built THEN built[o] ELSE store[o]
    BY <1>5 DEF Extend
  <2>2. /\ DOMAIN Synced = DOMAIN store \ unsynced /\ \A o \in DOMAIN Synced : Synced[o] = store[o]
        /\ DOMAIN Synced' = DOMAIN store' \ unsynced' /\ \A o \in DOMAIN Synced' : Synced'[o] = store'[o]
    BY DEF Synced
  <2> QED
    BY <1>5, <1>10, <2>1, <2>2
<1>12. ASSUME NEW k \in marked PROVE TreeServed(Synced', k, e)
  <2>1. k \in Nat /\ TreeServed(Synced, k, e)
    BY <1>6, <1>7
  <2> QED
    BY <1>11, <2>1, ServedStays
<1>13. TreeServed(Synced', n, e)
  <2>1. TreeServed(Synced', m, e)
    BY <1>1, <1>2, <1>12 DEF MarkedServed
  <2> QED
    BY <1>6, <1>10, <1>11, <2>1, ServedGrows
<1>14. LogState'
  <2>1. n \in 0 .. n /\ n .. n - 1 = {}
    BY <1>6
  <2> QED
    BY <1>5, <1>6, <1>9, <2>1 DEF LogState
<1>15. MarkedServed'
  <2>1. ASSUME NEW k \in marked' PROVE k \in 0 .. n /\ TreeServed(Synced', k, e)
    BY <1>5, <1>6, <1>7, <1>12, <1>13
  <2> QED
    BY <1>5, <2>1 DEF MarkedServed
<1>16. \A i \in Importers : JobRight(i)'
  BY <1>5, JobFrame, ImportAssumption
<1> QED
  BY <1>14, <1>15, <1>16 DEF TreeInv

\* Nothing is stored or committed initially.
LEMMA InitTree == Init => TreeInv
<1> SUFFICES ASSUME Init PROVE TreeInv
  OBVIOUS
<1>1. LogState
  BY TileLayoutAssumption DEF Init, LogState
<1>2. MarkedServed
  BY EmptyServed DEF Init, MarkedServed
<1>3. \A i \in Importers : JobRight(i)
  BY DEF Init, JobRight
<1> QED
  BY <1>1, <1>2, <1>3 DEF TreeInv

\* Every step keeps the committed trees stored, and those being imported right.
LEMMA NextTree == ImportInv /\ TreeInv /\ [Next]_vars => TreeInv'
<1> SUFFICES ASSUME ImportInv, TreeInv, [Next]_vars PROVE TreeInv'
  OBVIOUS
<1>1. ASSUME NEW i \in Importers, NEW c \in ChunkSizes, NEW resume \in BOOLEAN,
             Preflight(i, c, resume)
      PROVE  TreeInv'
  <2>1. PICK j : j = [NoJob EXCEPT !.input = file, !.chunk_size = c, !.resume = resume]
    OBVIOUS
  <2>2. /\ pc' = [pc EXCEPT ![i] = "begin"] /\ job' = [job EXCEPT ![i] = j]
        /\ UNCHANGED <<store, unsynced, next_index, integrated_size, root_hash, pending, sequenced, marked>>
    BY <1>1, <2>1 DEF Preflight, Goto, dbVars, storageVars, historyVars
  <2>3. j.chunk_size = c /\ j.size = 0 /\ j.digest = <<>>
    BY <2>1 DEF NoJob
  <2>4. pc'[i] = "begin" /\ job'[i] = j
    BY <2>2 DEF ImportInv, TypeOK
  <2>5. JobRight(i)'
    BY <2>3, <2>4 DEF JobRight
  <2> QED
    BY <2>2, <2>5, StepTree
<1>2. ASSUME NEW i \in Importers, BeginImport(i) PROVE TreeInv'
  <2>1. UNCHANGED <<store, unsynced, next_index, integrated_size, root_hash, pending, sequenced, marked>>
    BY <1>2 DEF BeginImport, dbVars, storageVars, historyVars
  <2>2. CASE Quit(i)
    BY <2>1, <2>2, QuitTree
  <2>3. CASE ~Quit(i)
    <3>1. /\ pc[i] = "begin" /\ pc' = [pc EXCEPT ![i] = "manifest"] /\ job' = [job EXCEPT ![i] = job[i]]
          /\ pc'[i] = "manifest" /\ job'[i] = job[i] /\ JobRight(i)
      BY <1>2, <2>3 DEF BeginImport, Goto, ImportInv, TypeOK, TreeInv
    <3>2. JobRight(i)'
      BY <3>1 DEF JobRight
    <3> QED
      BY <2>1, <3>1, <3>2, StepTree
  <2> QED
    BY <2>2, <2>3
<1>3. ASSUME NEW i \in Importers, WriteManifest(i) PROVE TreeInv'
  <2>1. /\ pc[i] = "manifest" /\ writer = i /\ JobRight(i) /\ job[i].input \in Files
        /\ UNCHANGED <<next_index, integrated_size, root_hash, pending, sequenced, marked>>
    BY <1>3 DEF WriteManifest, ImportInv, LockedLogIsEmpty, Preflighted, TreeInv, dbVars, historyVars
  <2>2. CASE Quit(i) /\ UNCHANGED <<store, unsynced>>
    BY <2>1, <2>2, QuitTree
  <2>3. CASE ~(Quit(i) /\ UNCHANGED <<store, unsynced>>)
    <3>1. /\ pc' = [pc EXCEPT ![i] = "chunk"] /\ job' = [job EXCEPT ![i] = job[i]]
          /\ pc'[i] = "chunk" /\ job'[i] = job[i]
      BY <1>3, <2>3 DEF WriteManifest, Goto, ImportInv, TypeOK
    <3>2. job[i].size = 0 /\ job[i].digest = <<>> /\ job[i].chunk_size \in ChunkSizes
      BY <2>1 DEF JobRight
    <3>3. 0 <= Len(job[i].input)
      BY <2>1, FileIsSequence
    <3>4. ChunkRight(i)'
      <4>1. PICK j, e : j = job[i] /\ e = LogOf(j.digest)
        OBVIOUS
      <4>2. j.digest \in Seq(Entries) /\ Len(j.digest) = 0
        <5>1. j.digest = <<>>
          BY <3>2, <4>1
        <5>2. <<>> \in Seq(Entries) /\ Len(<<>>) = 0
          BY EmptySeq
        <5> QED
          BY <5>1, <5>2
      <4>3. TreeServed(store', 0, e)
        BY EmptyServed
      <4> QED
        BY <3>1, <3>2, <3>3, <4>1, <4>2, <4>3 DEF ChunkRight
    <3>5. JobRight(i)'
      BY <3>1, <3>2, <3>4 DEF JobRight
    <3> QED
      BY <2>1, <3>1, <3>5, StepTree
  <2> QED
    BY <2>2, <2>3
<1>4. ASSUME NEW i \in Importers, ReadChunk(i) PROVE TreeInv'
  BY <1>4, ReadChunkTree
<1>5. ASSUME NEW i \in Importers, NEW o \in DOMAIN job[i].uploads, Upload(i, o) PROVE TreeInv'
  BY <1>5, UploadTree
<1>6. ASSUME NEW i \in Importers, EndOfInput(i) PROVE TreeInv'
  <2>1. /\ pc[i] = "chunk" /\ writer = i /\ JobRight(i)
        /\ UNCHANGED <<store, next_index, integrated_size, root_hash, pending, sequenced, marked>>
    BY <1>6 DEF EndOfInput, ImportInv, LockedLogIsEmpty, TreeInv, dbVars, historyVars
  <2>2. CASE Quit(i) /\ UNCHANGED unsynced
    BY <2>1, <2>2, QuitTree
  <2>3. CASE ~(Quit(i) /\ UNCHANGED unsynced)
    <3>1. /\ pc' = [pc EXCEPT ![i] = "commit"] /\ job' = [job EXCEPT ![i] = job[i]]
          /\ pc'[i] = "commit" /\ job'[i] = job[i]
      BY <1>6, <2>3 DEF EndOfInput, Goto, ImportInv, TypeOK
    <3>2. JobRight(i)'
      BY <2>1, <3>1 DEF JobRight, ChunkRight
    <3> QED
      BY <2>1, <3>1, <3>2, StepTree
  <2> QED
    BY <2>2, <2>3
<1>7. ASSUME NEW i \in Importers, FinishImport(i) PROVE TreeInv'
  BY <1>7, FinishTree
<1>8. ASSUME NEW i \in Importers, ImportFails(i) PROVE TreeInv'
  BY <1>8, QuitTree DEF ImportFails, dbVars, storageVars, historyVars
<1>9. CASE PowerLoss
  BY <1>9, PowerLossTree
<1>10. CASE SequenceEntry
  BY <1>10, SequenceTree
<1>11. CASE IntegrationCycle
  BY <1>11, IntegrationTree
<1>12. ASSUME UNCHANGED <<store, unsynced, next_index, integrated_size, root_hash, pending, sequenced, marked,
                          pc, job>>
       PROVE  TreeInv'
  <2>1. LogState' /\ MarkedServed'
    BY <1>12, LogFrame
  <2>2. \A i \in Importers : JobRight(i)'
    BY <1>12, JobFrame
  <2> QED
    BY <2>1, <2>2 DEF TreeInv
<1>13. ASSUME NEW f \in Files, ChangeFile(f) PROVE TreeInv'
  BY <1>12, <1>13 DEF ChangeFile, dbVars, storageVars, historyVars
<1>14. ASSUME NEW m \in {"tessera", "rekor"}, StartServer(m) PROVE TreeInv'
  BY <1>12, <1>14 DEF StartServer, dbVars, storageVars, historyVars
<1>15. CASE PublishCheckpoint
  BY <1>12, <1>15 DEF PublishCheckpoint, dbVars, historyVars
<1>16. CASE UNCHANGED vars
  BY <1>12, <1>16 DEF vars, dbVars, storageVars, historyVars
<1> QED
  BY <1>1, <1>2, <1>3, <1>4, <1>5, <1>6, <1>7, <1>8, <1>9, <1>10, <1>11, <1>13, <1>14, <1>15, <1>16
     DEF Next, ImportStep

\* Every tree the database has committed to is served whole and right from
\* storage, after any interrupted and resumed imports and any power loss.
THEOREM AlwaysServed == Spec => []CommittedTreesServed
<1>1. Init => ImportInv /\ TreeInv
  BY InitInv, InitTree
<1>2. ImportInv /\ TreeInv /\ [Next]_vars => (ImportInv /\ TreeInv)'
  BY StepInv, NextTree
<1>3. ImportInv /\ TreeInv => CommittedTreesServed
  <2> SUFFICES ASSUME TreeInv PROVE CommittedTreesServed
    OBVIOUS
  <2>1. ASSUME NEW n \in marked PROVE TreeServed(store, n, sequenced)
    <3>1. n \in 0 .. integrated_size /\ TreeServed(Synced, n, sequenced)
      BY DEF TreeInv, MarkedServed
    <3>2. n \in Nat
      BY <3>1
    <3>3. \A o \in DOMAIN Synced : o \in DOMAIN store /\ store[o] = Synced[o]
      BY DEF Synced
    <3> QED
      BY <3>1, <3>2, <3>3, ServedStays
  <2> QED
    BY <2>1 DEF TreeInv, LogState, CommittedTreesServed
<1> QED
  BY <1>1, <1>2, <1>3, PTL DEF Spec
=============================================================================
