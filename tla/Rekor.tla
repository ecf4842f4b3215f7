-------------------------------- MODULE Rekor --------------------------------
(***************************************************************************)
(* The Rekor submission (create_entry and submit of src/api/rekor.rs) and  *)
(* what it waits for: the sequencer's duplicate check and append, the      *)
(* integration worker, the checkpoint publisher, and the client that       *)
(* submits again when it was not told an index.                            *)
(*                                                                         *)
(* Servers share the database and the storage and may have different       *)
(* signing keys, as when a key is replaced in a rolling deploy. The        *)
(* sequencer, the worker and the publisher are taken from their own        *)
(* modules: one step appends one entry (Sequencer has the batches), grows  *)
(* the tree (Integration has the objects), or writes a checkpoint of a     *)
(* tree that was committed (Publisher has the witnesses).                  *)
(***************************************************************************)
EXTENDS Integers, Sequences, FiniteSets, Notes, HashedRekord

CONSTANTS
    Servers,        \* server processes
    SignerOf,       \* the log's signer that each server is configured with
    WitnessSigner,  \* an in-process witness
    Origin,
    Clients,        \* each submits one entry until it is told an index
    Submissions,    \* what clients may submit
    MaySubmit,      \* the submissions each client chooses from
    Content,        \* the content of each submission, before it is encoded
    Encodings,      \* how bodies may be encoded
    MaxEntrySize,
    MaxFaults,      \* bound on crashes and failed calls
    None

ASSUME RekorAssumption ==
    /\ Servers # {} /\ MaxFaults \in Nat
    /\ \A s \in Servers : SignerOf[s] = Signer(SignerOf[s].name, SignerOf[s].key)

\* What a submission consists of, before it is encoded. Keys and certificates are
\* optional, the type of a key is what its OID, parameters and size make it, and
\* what two authorized clients submit is the same submission if it is the same
\* in all parts.
Parts(m) == [x \in {"digest", "sig", "public_key", "x509_certificate", "details"} |-> Content[m][x]]
ASSUME SubmissionAssumption ==
    \A m \in Submissions :
        /\ \A x, y \in Content[m].public_key : x = y
        /\ \A x, y \in Content[m].x509_certificate : x = y
        /\ \A x \in Content[m].public_key \cup Content[m].x509_certificate, a \in DOMAIN Algorithms :
            x.spki.type = a <=>
                /\ x.spki.oid = Algorithms[a].oid /\ x.spki.params \in Algorithms[a].params
                /\ Algorithms[a].oid = "rsa" => x.spki.bits = Algorithms[a].bits
        /\ \A n \in Submissions :
            Content[m].authorized /\ Content[n].authorized /\ Parts(m) = Parts(n) => m = n

VARIABLES
    log,            \* the sequenced entries, in order of their indices
    integrated,     \* log_state.integrated_size
    checkpoint,     \* the checkpoint object: which server wrote it, of which size
    last_published, \* the size each server's publisher has published last
    client,         \* what each client submits and where its request is
    orphans,        \* <<server, entry>> still queued though the request has timed out
    faults

logVars == <<log, integrated, checkpoint>>
vars == <<logVars, last_published, client, orphans, faults>>

-----------------------------------------------------------------------------
Text(bytes, e) == [alphabet |-> e.alphabet, padded |-> e.padded, bytes |-> bytes]

NumberOf(details) == CHOOSE n \in DOMAIN Numbers : Numbers[n] = details

\* The JSON body a client sends for submission m.
Body(m, e) ==
    [digest |-> Text(m.digest, e),
     content |-> Text(m.sig, e),
     verifier |->
        [public_key |-> {Text(d, e) : d \in m.public_key},
         x509_certificate |-> {Text(d, e) : d \in m.x509_certificate},
         key_details |->
            IF e.numeric /\ m.details \in DOMAIN Algorithms
            THEN [number |-> TRUE, value |-> NumberOf(m.details)]
            ELSE [number |-> FALSE, value |-> m.details]]]

\* canonical_entry of every body: the entry, or None if it is refused.
Canonical ==
    [m \in Submissions |-> [e \in Encodings |->
        IF Acceptable(Body(Content[m], e), MaxEntrySize) THEN CanonicalEntry(Body(Content[m], e)) ELSE None]]

Answer(code) == [code |-> code]
\* An answer that tells the client the index of its entry.
Told(c) == client[c].answer.code \in {201, 409}

Init ==
    /\ log = <<>> /\ integrated = 0 /\ checkpoint = None
    /\ last_published = [s \in Servers |-> 0]
    /\ \E submits \in [Clients -> Submissions] :
        /\ \A c \in Clients : submits[c] \in MaySubmit[c]
        /\ client = [c \in Clients |->
            [submission |-> submits[c], pc |-> "idle", server |-> None, entry |-> None,
             index |-> None, envelope |-> None, answer |-> Answer(0)]]
    /\ orphans = {}
    /\ faults = 0

Index(entry) == (CHOOSE k \in DOMAIN log : log[k] = entry) - 1
Logged(entry) == \E k \in DOMAIN log : log[k] = entry

\* create_entry answers, and submit's future is gone with all it has read.
Respond(c, answer) ==
    client' = [client EXCEPT ![c] =
        [@ EXCEPT !.pc = "answered", !.server = None, !.entry = None, !.index = None,
                  !.envelope = None, !.answer = answer]]

-----------------------------------------------------------------------------
(* submit                                                                   *)

\* The first attempt, or another one after an answer that told no index; a 400
\* or a 401 is final. Authorization and canonical_entry are done before the
\* entry is queued.
Submit(c, s, e) ==
    LET m == client[c].submission
    IN /\ client[c].pc \in {"idle", "answered"}
       /\ client[c].answer.code \in {0, 500, 504}
       /\ IF ~Content[m].authorized THEN Respond(c, Answer(401))
          ELSE IF Canonical[m][e] = None THEN Respond(c, Answer(400))
          ELSE client' = [client EXCEPT ![c] =
                [@ EXCEPT !.pc = "queued", !.server = s, !.entry = Canonical[m][e], !.answer = Answer(0)]]
       /\ UNCHANGED <<logVars, last_published, orphans, faults>>

\* Mutant: a duplicate is an error like any other.
DuplicateUntold(entry) == Answer(500)
\* Error::Duplicate carries the index of the first submission, in x-log-index.
Duplicate(entry) == [code |-> 409, index |-> Index(entry)]

\* Sequencer::add returns; a queued entry is appended unless it is in the log.
Sequence(c) ==
    /\ client[c].pc = "queued"
    /\ IF Logged(client[c].entry)
       THEN Respond(c, Duplicate(client[c].entry)) /\ UNCHANGED log
       ELSE /\ log' = Append(log, client[c].entry)
            /\ client' = [client EXCEPT ![c] = [@ EXCEPT !.pc = "waiting", !.index = Len(log)]]
    /\ UNCHANGED <<integrated, checkpoint, last_published, orphans, faults>>

\* The entry of a request that was answered is sequenced all the same.
SequenceOrphan(s, entry) ==
    /\ <<s, entry>> \in orphans
    /\ orphans' = orphans \ {<<s, entry>>}
    /\ log' = IF Logged(entry) THEN log ELSE Append(log, entry)
    /\ UNCHANGED <<integrated, checkpoint, last_published, client, faults>>

\* The transaction fails, or commits and the answer to the commit is lost.
SequenceFails(c, committed) ==
    /\ client[c].pc = "queued"
    /\ faults < MaxFaults
    /\ faults' = faults + 1
    /\ log' = IF committed /\ ~Logged(client[c].entry) THEN Append(log, client[c].entry) ELSE log
    /\ Respond(c, Answer(500))
    /\ UNCHANGED <<integrated, checkpoint, last_published, orphans>>

\* The text of a checkpoint object: publish_checkpoint signs the tree of that
\* size, and its in-process witness cosigns. The log only grows, so that the
\* tree is always the same.
Envelope(x) ==
    LET cp == Checkpoint(Origin, x.size, SubSeq(log, 1, x.size))
    IN ToText(AddSignature(NewNote(cp, SignerOf[x.by]), CosignV1(WitnessSigner, cp, 0)))

\* Mutant: any checkpoint in the storage is taken for the log's own.
AnySignature(note, signer) == note.signatures # <<>>
\* A signature of the log's own key, as this server has it.
OwnSignature(note, signer) ==
    \E k \in DOMAIN note.signatures :
        LET sig == note.signatures[k]
        IN /\ sig.name = signer.name /\ sig.key_id = signer.key_id
           /\ VerifyStrict(signer.key, ToBody(note.checkpoint), sig.signature)

\* One turn of the polling loop: a checkpoint that covers the index and has the
\* log's signature is kept; one without it ends the request.
ReadCheckpoint(c) ==
    LET text == Envelope(checkpoint)
        note == FromText(text)
    IN /\ client[c].pc = "waiting"
       /\ checkpoint # None
       /\ IF ~IsNote(text) THEN Respond(c, Answer(500))
          ELSE /\ note.checkpoint.size > client[c].index
               /\ IF OwnSignature(note, SignerOf[client[c].server])
                  THEN client' = [client EXCEPT ![c] = [@ EXCEPT !.pc = "proving", !.envelope = checkpoint]]
                  ELSE Respond(c, Answer(500))
       /\ UNCHANGED <<logVars, last_published, orphans, faults>>

\* generate_inclusion_proof: the storage has the tiles of every size that was
\* integrated. A proof is represented by the leaves it commits to.
InclusionProof(index, size) == [index |-> index, size |-> size, leaves |-> SubSeq(log, 1, size)]
VerifyInclusionProof(entry, proof, root_hash) ==
    proof.leaves = root_hash /\ proof.leaves[proof.index + 1] = entry

\* The proof is for the checkpoint that was read, and is verified against it.
Prove(c) ==
    LET j == client[c]
        cp == FromText(Envelope(j.envelope)).checkpoint
        proof == InclusionProof(j.index, cp.size)
    IN /\ j.pc = "proving"
       /\ Respond(c, IF cp.size <= integrated /\ VerifyInclusionProof(j.entry, proof, cp.root_hash)
                     THEN [code |-> 201, index |-> j.index, canonicalizedBody |-> j.entry,
                           logId |-> SignerOf[j.server], proof |-> proof, envelope |-> j.envelope]
                     ELSE Answer(500))
       /\ UNCHANGED <<logVars, last_published, orphans, faults>>

\* The storage fails a read.
StorageFails(c) ==
    /\ client[c].pc \in {"waiting", "proving"}
    /\ faults < MaxFaults
    /\ faults' = faults + 1
    /\ Respond(c, Answer(500))
    /\ UNCHANGED <<logVars, last_published, orphans>>

\* 30 seconds have passed. A queued entry stays in the sequencer's queue.
Timeout(c) ==
    /\ client[c].pc \in {"queued", "waiting", "proving"}
    /\ orphans' = IF client[c].pc = "queued" THEN orphans \cup {<<client[c].server, client[c].entry>>} ELSE orphans
    /\ Respond(c, Answer(504))
    /\ UNCHANGED <<logVars, last_published, faults>>

-----------------------------------------------------------------------------
(* The workers and crashes                                                  *)

Integrate ==
    /\ integrated < Len(log)
    /\ integrated' = integrated + 1
    /\ UNCHANGED <<log, checkpoint, last_published, client, orphans, faults>>

\* A publisher writes the checkpoint of a tree it read some time ago, never one
\* it has published.
Publish(s, n) ==
    /\ n \in last_published[s] + 1 .. integrated
    /\ checkpoint' = [by |-> s, size |-> n]
    /\ last_published' = [last_published EXCEPT ![s] = n]
    /\ UNCHANGED <<log, integrated, client, orphans, faults>>

\* The process is killed and started again; its clients see the connection close.
Crash(s) ==
    /\ faults < MaxFaults
    /\ faults' = faults + 1
    /\ last_published' = [last_published EXCEPT ![s] = 0]
    /\ orphans' = {o \in orphans : o[1] # s}
    /\ client' = [c \in Clients |->
        IF client[c].server = s
        THEN [client[c] EXCEPT !.pc = "answered", !.server = None, !.entry = None, !.index = None, !.envelope = None]
        ELSE client[c]]
    /\ UNCHANGED logVars

Next ==
    \/ \E c \in Clients :
        \/ \E s \in Servers, e \in Encodings : Submit(c, s, e)
        \/ Sequence(c) \/ \E committed \in BOOLEAN : SequenceFails(c, committed)
        \/ ReadCheckpoint(c) \/ Prove(c) \/ StorageFails(c) \/ Timeout(c)
    \/ \E o \in orphans : SequenceOrphan(o[1], o[2])
    \/ Integrate
    \/ \E s \in Servers : Crash(s) \/ \E n \in 1 .. integrated : Publish(s, n)

Spec == Init /\ [][Next]_vars

\* A client submits until it is told an index, the workers run, and every so
\* often the sequencer, which flushes within milliseconds, is faster than the
\* timeout.
FairSpec ==
    /\ Spec
    /\ \A c \in Clients :
        /\ SF_vars(Sequence(c))
        /\ WF_vars(Timeout(c) \/ \E s \in Servers, e \in Encodings : Submit(c, s, e))
    /\ WF_vars(\E o \in orphans : SequenceOrphan(o[1], o[2]))
    /\ WF_vars(Integrate)
    /\ \A s \in Servers : WF_vars(\E n \in 1 .. integrated : Publish(s, n))

-----------------------------------------------------------------------------
(* Properties                                                               *)

\* Every logged entry can be verified from its own bytes: its key is of the kind
\* its keyDetails says, its digest has the length of its hash algorithm, and its
\* signature is valid ("Artifact signatures and key/algorithm agreement are
\* verified before sequencing").
LoggedEntriesVerify ==
    \A k \in DOMAIN log :
        LET e == log[k]
            spki == e.rawBytes.spki
        IN /\ spki.type = e.keyDetails
           /\ e.content = [by |-> spki.key, scheme |-> Scheme(spki.type), over |-> e.digest]
           /\ e.digest.len = DigestLength[e.algorithm]

\* A 201 convinces a verifier who knows the public key of the log ID in it and
\* nothing of the server: the checkpoint carries that log's signature and not
\* just a cosignature, the proof leads from the canonicalized body to its root,
\* and the entry has that index in the log. The checkpoint object may have been
\* replaced, by another server too, between the poll and the proof.
CreatedIsProven ==
    \A c \in Clients :
        LET a == client[c].answer
            note == FromText(Envelope(a.envelope))
        IN a.code = 201 =>
            /\ Verify(LogConfig(Origin, a.logId), note)
            /\ a.proof.size = note.checkpoint.size
            /\ VerifyInclusionProof(a.canonicalizedBody, a.proof, note.checkpoint.root_hash)
            /\ VerifyCosignature(LogConfig(Origin, WitnessSigner), note.signatures[2], ToBody(note.checkpoint))
            /\ a.index < Len(log) /\ log[a.index + 1] = a.canonicalizedBody

\* Clients that submit the same digest, signature and key are told the same
\* index however they encode them, and others are told others, through timeouts,
\* lost answers and crashes: "Exact canonical entries are deduplicated
\* permanently", and a retry after a 504 learns the index of the entry that
\* timed out.
OneIndexPerSubmission ==
    \A c, d \in {x \in Clients : Told(x)} :
        client[c].answer.index = client[d].answer.index <=> client[c].submission = client[d].submission

\* The entry of a client that keeps submitting is one day covered by a published
\* checkpoint and the client knows its index, unless it was refused. A 409 "is
\* not an inclusion promise", but the entry does get there.
EventuallyIncluded ==
    \A c \in Clients :
        <>(\/ client[c].answer.code \in {400, 401}
           \/ Told(c) /\ checkpoint # None /\ checkpoint.size > client[c].answer.index)
=============================================================================
