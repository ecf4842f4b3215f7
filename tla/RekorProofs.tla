----------------------------- MODULE RekorProofs -----------------------------
(***************************************************************************)
(* What the Rekor API promises its clients, for any number of servers,     *)
(* clients, submissions and encodings, and any number of crashes, lost     *)
(* answers and timeouts: every logged entry verifies, a 201 convinces a    *)
(* verifier, and equal submissions share one index.                        *)
(*                                                                         *)
(* The argument: canonical_entry is a function of what is submitted and    *)
(* not of its encoding, and an injective one (EntryFor), so that the       *)
(* duplicate check on logged bytes is one on submissions. The log only     *)
(* grows, so that an index, a checkpoint and a proof that a client holds   *)
(* stay true of it while other servers replace the checkpoint object.      *)
(***************************************************************************)
EXTENDS Rekor, SequenceTheorems, TLAPS

\* The one key or certificate of a submission.
Materials(m) == Content[m].public_key \cup Content[m].x509_certificate
DerFor(m) == CHOOSE d \in Materials(m) : TRUE

\* The checks of canonical_entry, on what is submitted.
Good(m) ==
    /\ Content[m].public_key = {} <=> Content[m].x509_certificate # {}
    /\ Content[m].details \in DOMAIN Algorithms
    /\ KeyMatches(DerFor(m).spki, Content[m].details)
    /\ Content[m].digest.len = DigestLength[Algorithms[Content[m].details].hash]
    /\ SignatureVerifies(DerFor(m).spki, Content[m].details, Content[m].digest, Content[m].sig)

\* The entry that is logged for it.
EntryFor(m) ==
    [algorithm |-> Algorithms[Content[m].details].hash, digest |-> Content[m].digest,
     content |-> Content[m].sig,
     kind |-> IF Content[m].public_key # {} THEN "publicKey" ELSE "x509Certificate",
     rawBytes |-> DerFor(m), keyDetails |-> Content[m].details]

\* Submissions that can get into the log.
Loggable(m) == m \in Submissions /\ Content[m].authorized /\ Good(m)

-----------------------------------------------------------------------------
(* canonical_entry                                                          *)

\* Every name of key details has a number, which stands for it.
LEMMA NumberStandsFor ==
    ASSUME NEW d \in DOMAIN Algorithms
    PROVE  NumberOf(d) \in DOMAIN Numbers /\ Numbers[NumberOf(d)] = d
<1>1. DOMAIN Numbers = {5, 8, 9, 10, 11, 12, 13}
  BY DEF Numbers
<1>2. /\ Numbers[5] = "PKIX_ECDSA_P256_SHA_256" /\ Numbers[8] = "PKIX_ED25519_PH"
      /\ Numbers[9] = "PKIX_RSA_PKCS1V15_2048_SHA256"
      /\ Numbers[10] = "PKIX_RSA_PKCS1V15_3072_SHA256"
      /\ Numbers[11] = "PKIX_RSA_PKCS1V15_4096_SHA256"
      /\ Numbers[12] = "PKIX_ECDSA_P384_SHA_384" /\ Numbers[13] = "PKIX_ECDSA_P521_SHA_512"
  BY DEF Numbers
<1>3. d \in {"PKIX_ED25519_PH", "PKIX_ECDSA_P256_SHA_256", "PKIX_ECDSA_P384_SHA_384",
             "PKIX_ECDSA_P521_SHA_512", "PKIX_RSA_PKCS1V15_2048_SHA256",
             "PKIX_RSA_PKCS1V15_3072_SHA256", "PKIX_RSA_PKCS1V15_4096_SHA256"}
  BY DEF Algorithms
<1>4. \E n \in DOMAIN Numbers : Numbers[n] = d
  BY <1>1, <1>2, <1>3
<1> QED
  BY <1>4 DEF NumberOf

\* Exactly one key or certificate.
LEMMA OneMaterial ==
    ASSUME NEW m \in Submissions, Content[m].public_key = {} <=> Content[m].x509_certificate # {}
    PROVE  Materials(m) = {DerFor(m)}
<1>1. Materials(m) # {}
  BY DEF Materials
<1>2. DerFor(m) \in Materials(m)
  BY <1>1 DEF DerFor
<1>3. ASSUME NEW x \in Materials(m), NEW y \in Materials(m) PROVE x = y
  <2>1. /\ \A a, b \in Content[m].public_key : a = b
        /\ \A a, b \in Content[m].x509_certificate : a = b
    BY SubmissionAssumption
  <2> QED
    BY <2>1 DEF Materials
<1> QED
  BY <1>2, <1>3

\* canonical_entry depends on what is submitted and not on the encoding.
LEMMA CanonicalIsEntry ==
    ASSUME NEW m \in Submissions, NEW e \in Encodings, Canonical[m][e] # None
    PROVE  Good(m) /\ Canonical[m][e] = EntryFor(m)
<1> DEFINE b == Body(Content[m], e)
           v == b.verifier
<1>1. Acceptable(b, MaxEntrySize) /\ Canonical[m][e] = CanonicalEntry(b)
  BY DEF Canonical
<1>2. /\ Decode(b.digest) = Content[m].digest /\ Decode(b.content) = Content[m].sig
      /\ v.public_key = {Text(d, e) : d \in Content[m].public_key}
      /\ v.x509_certificate = {Text(d, e) : d \in Content[m].x509_certificate}
      /\ v.key_details = IF e.numeric /\ Content[m].details \in DOMAIN Algorithms
                         THEN [number |-> TRUE, value |-> NumberOf(Content[m].details)]
                         ELSE [number |-> FALSE, value |-> Content[m].details]
  BY DEF Body, Decode, Text
<1> HIDE DEF b
<1>3. Content[m].details \in DOMAIN Algorithms /\ DetailsOf(v) = Content[m].details
  <2>1. KnownDetails(v)
    BY <1>1 DEF Acceptable
  <2>2. CASE e.numeric /\ Content[m].details \in DOMAIN Algorithms
    <3>1. v.key_details.number = TRUE /\ v.key_details.value = NumberOf(Content[m].details)
      BY <1>2, <2>2
    <3> QED
      BY <2>2, <3>1, NumberStandsFor DEF DetailsOf
  <2>3. CASE ~(e.numeric /\ Content[m].details \in DOMAIN Algorithms)
    <3>1. v.key_details.number = FALSE /\ v.key_details.value = Content[m].details
      BY <1>2, <2>3
    <3> QED
      BY <2>1, <3>1 DEF KnownDetails, DetailsOf
  <2> QED
    BY <2>2, <2>3
<1>4. /\ Content[m].public_key = {} <=> Content[m].x509_certificate # {}
      /\ v.public_key = {} <=> Content[m].public_key = {}
  <2>1. v.public_key = {} <=> v.x509_certificate # {}
    BY <1>1 DEF Acceptable, ValidMaterial
  <2>2. v.public_key = {} <=> Content[m].public_key = {}
    BY <1>2
  <2>3. v.x509_certificate = {} <=> Content[m].x509_certificate = {}
    BY <1>2
  <2> QED
    BY <2>1, <2>2, <2>3
<1>5. PICK d : d = DerFor(m)
  OBVIOUS
<1>6. Materials(m) = {d}
  BY <1>4, <1>5, OneMaterial
<1>7. MaterialOf(v) = {Text(d, e)}
  <2>1. MaterialOf(v) = {Text(x, e) : x \in Materials(m)}
    BY <1>2 DEF MaterialOf, Materials
  <2> QED
    BY <1>6, <2>1
<1>8. Der(v) = d
  <2>1. (CHOOSE t \in MaterialOf(v) : TRUE) = Text(d, e)
    BY <1>7
  <2>2. Text(d, e).bytes = d
    BY DEF Text
  <2>3. Der(v) = Text(d, e).bytes
    BY <2>1 DEF Der, Decode
  <2> QED
    BY <2>2, <2>3
<1>9. Good(m)
  <2>1. /\ KeyMatches(Der(v).spki, DetailsOf(v))
        /\ Decode(b.digest).len = DigestLength[Algorithms[DetailsOf(v)].hash]
        /\ SignatureVerifies(Der(v).spki, DetailsOf(v), Decode(b.digest), Decode(b.content))
    BY <1>1 DEF Acceptable
  <2> QED
    BY <1>2, <1>3, <1>4, <1>5, <1>8, <2>1 DEF Good
<1>10. CanonicalEntry(b) = EntryFor(m)
  BY <1>2, <1>3, <1>4, <1>5, <1>8 DEF CanonicalEntry, EntryFor, Kind
<1> QED
  BY <1>1, <1>9, <1>10

\* Different submissions have different entries.
LEMMA EntryInjective ==
    ASSUME NEW m, NEW n, Loggable(m), Loggable(n), EntryFor(m) = EntryFor(n)
    PROVE  m = n
<1>1. m \in Submissions /\ n \in Submissions /\ Content[m].authorized /\ Content[n].authorized
  BY DEF Loggable
<1>2. /\ Content[m].public_key = {} <=> Content[m].x509_certificate # {}
      /\ Content[n].public_key = {} <=> Content[n].x509_certificate # {}
  BY DEF Loggable, Good
<1>3. /\ Content[m].digest = Content[n].digest /\ Content[m].sig = Content[n].sig
      /\ DerFor(m) = DerFor(n) /\ Content[m].details = Content[n].details
      /\ Content[m].public_key # {} <=> Content[n].public_key # {}
  BY DEF EntryFor
<1>4. ASSUME NEW k \in Submissions, Content[k].public_key = {} <=> Content[k].x509_certificate # {}
      PROVE  /\ Content[k].public_key # {} =>
                Content[k].public_key = {DerFor(k)} /\ Content[k].x509_certificate = {}
             /\ Content[k].public_key = {} => Content[k].x509_certificate = {DerFor(k)}
  <2>1. Materials(k) = {DerFor(k)}
    BY <1>4, OneMaterial
  <2> QED
    BY <1>4, <2>1 DEF Materials
<1>5. /\ Content[m].public_key = Content[n].public_key
      /\ Content[m].x509_certificate = Content[n].x509_certificate
  BY <1>1, <1>2, <1>3, <1>4
<1>6. Parts(m) = Parts(n)
  BY <1>3, <1>5 DEF Parts
<1> QED
  BY <1>1, <1>6, SubmissionAssumption

\* An entry verifies from its own bytes.
EntryVerifies(e) ==
    /\ e.rawBytes.spki.type = e.keyDetails
    /\ e.content = [by |-> e.rawBytes.spki.key, scheme |-> Scheme(e.rawBytes.spki.type), over |-> e.digest]
    /\ e.digest.len = DigestLength[e.algorithm]

\* What passes the checks of canonical_entry verifies.
LEMMA GoodVerifies ==
    ASSUME NEW m, Loggable(m)
    PROVE  EntryVerifies(EntryFor(m))
<1>1. Good(m) /\ m \in Submissions
  BY DEF Loggable
<1>2. DerFor(m) \in Materials(m)
  BY <1>1 DEF Good, DerFor, Materials
<1>3. DerFor(m).spki.type = Content[m].details
  BY <1>1, <1>2, SubmissionAssumption DEF Good, KeyMatches, Materials
<1> QED
  BY <1>1, <1>3 DEF EntryVerifies, EntryFor, Good, SignatureVerifies

-----------------------------------------------------------------------------
(* Checkpoints as notes                                                     *)

\* Short sequences, put together.
LEMMA ShortSequences ==
    ASSUME NEW a, NEW b, NEW c
    PROVE  /\ <<a>> \o <<>> \o <<b>> = <<a, b>>
           /\ <<a>> \o <<b>> \o <<c>> = <<a, b, c>>
           /\ Append(<<a>>, b) = <<a, b>>
<1> DEFINE S == {a, b, c}
<1>1. /\ <<a>> \in Seq(S) /\ <<b>> \in Seq(S) /\ <<c>> \in Seq(S)
      /\ <<a, b>> \in Seq(S) /\ <<a, b, c>> \in Seq(S)
      /\ a \in S /\ b \in S /\ c \in S
  OBVIOUS
<1>2. /\ Len(<<a>>) = 1 /\ Len(<<b>>) = 1 /\ Len(<<c>>) = 1 /\ Len(<<a, b>>) = 2 /\ Len(<<a, b, c>>) = 3
      /\ <<a>>[1] = a /\ <<b>>[1] = b /\ <<c>>[1] = c
      /\ <<a, b>>[1] = a /\ <<a, b>>[2] = b
      /\ <<a, b, c>>[1] = a /\ <<a, b, c>>[2] = b /\ <<a, b, c>>[3] = c
  OBVIOUS
<1> HIDE DEF S
<1>3. <<a>> \o <<b>> = <<a, b>>
  <2>1. /\ <<a>> \o <<b>> \in Seq(S) /\ Len(<<a>> \o <<b>>) = 2
        /\ \A i \in 1 .. 1 + 1 : (<<a>> \o <<b>>)[i] = IF i <= 1 THEN <<a>>[i] ELSE <<b>>[i - 1]
    BY <1>1, <1>2, ConcatProperties
  <2>2. (<<a>> \o <<b>>)[1] = a /\ (<<a>> \o <<b>>)[2] = b
    BY <1>2, <2>1
  <2>3. \A i \in 1 .. Len(<<a>> \o <<b>>) : (<<a>> \o <<b>>)[i] = <<a, b>>[i]
    BY <1>2, <2>1, <2>2
  <2> QED
    BY <1>1, <1>2, <2>1, <2>3, SeqEqual
<1>4. <<a>> \o <<>> = <<a>>
  BY <1>1, ConcatEmptySeq
<1>5. <<a, b>> \o <<c>> = <<a, b, c>>
  <2>1. /\ <<a, b>> \o <<c>> \in Seq(S) /\ Len(<<a, b>> \o <<c>>) = 3
        /\ \A i \in 1 .. 2 + 1 : (<<a, b>> \o <<c>>)[i] = IF i <= 2 THEN <<a, b>>[i] ELSE <<c>>[i - 2]
    BY <1>1, <1>2, ConcatProperties
  <2>2. (<<a, b>> \o <<c>>)[1] = a /\ (<<a, b>> \o <<c>>)[2] = b /\ (<<a, b>> \o <<c>>)[3] = c
    BY <1>2, <2>1
  <2>3. \A i \in 1 .. Len(<<a, b>> \o <<c>>) : (<<a, b>> \o <<c>>)[i] = <<a, b, c>>[i]
    BY <1>2, <2>1, <2>2
  <2> QED
    BY <1>1, <1>2, <2>1, <2>3, SeqEqual
<1>6. Append(<<a>>, b) = <<a>> \o <<b>>
  BY <1>1, AppendIsConcat
<1> QED
  BY <1>3, <1>4, <1>5, <1>6

\* A signature line is read as it was written.
LEMMA LineRoundTrip ==
    ASSUME NEW name, NEW id, NEW time, NEW sig,
           NEW s, s = CheckpointSignature(name, id, time, sig),
           time = <<>> \/ \E t : time = <<t>>
    PROVE  IsSignatureLine(ToLine(s)) /\ FromLine(ToLine(s)) = s
<1>0. s.name = name /\ s.key_id = id /\ s.timestamp = time /\ s.signature = sig
  BY DEF CheckpointSignature
<1>1. CASE time = <<>>
  <2>1. <<id>> \o <<>> \o <<sig>> = <<id, sig>>
    BY ShortSequences
  <2>2. ToLine(s) = [name |-> name, blob |-> <<id, sig>>]
    BY <1>0, <1>1, <2>1 DEF ToLine
  <2>3. Len(<<id, sig>>) = 2 /\ <<id, sig>>[1] = id /\ <<id, sig>>[2] = sig
    OBVIOUS
  <2>4. PICK l : l = ToLine(s)
    OBVIOUS
  <2>5. l.name = name /\ Len(l.blob) = 2 /\ l.blob[1] = id /\ l.blob[2] = sig
    BY <2>2, <2>3, <2>4
  <2>6. FromLine(l) = CheckpointSignature(name, id, <<>>, sig)
    BY <2>5 DEF FromLine
  <2> QED
    BY <1>1, <2>4, <2>5, <2>6 DEF IsSignatureLine
<1>2. CASE \E t : time = <<t>>
  <2>0. PICK t : time = <<t>>
    BY <1>2
  <2>1. <<id>> \o <<t>> \o <<sig>> = <<id, t, sig>>
    BY ShortSequences
  <2>2. ToLine(s) = [name |-> name, blob |-> <<id, t, sig>>]
    BY <1>0, <2>0, <2>1 DEF ToLine
  <2>3. Len(<<id, t, sig>>) = 3 /\ <<id, t, sig>>[1] = id /\ <<id, t, sig>>[2] = t /\ <<id, t, sig>>[3] = sig
    OBVIOUS
  <2>4. PICK l : l = ToLine(s)
    OBVIOUS
  <2>5. l.name = name /\ Len(l.blob) = 3 /\ l.blob[1] = id /\ l.blob[2] = t /\ l.blob[3] = sig
    BY <2>2, <2>3, <2>4
  <2>6. FromLine(l) = CheckpointSignature(name, id, <<t>>, sig)
    BY <2>5 DEF FromLine
  <2> QED
    BY <2>0, <2>4, <2>5, <2>6 DEF IsSignatureLine
<1> QED
  BY <1>1, <1>2

\* The checkpoint, and the signatures of the log and of the witness, that the
\* object x stands for.
CheckpointOf(x) == Checkpoint(Origin, x.size, SubSeq(log, 1, x.size))
NoteOf(x) ==
    [checkpoint |-> CheckpointOf(x),
     signatures |-> <<PlainSignature(SignerOf[x.by], CheckpointOf(x)), CosignV1(WitnessSigner, CheckpointOf(x), 0)>>]

\* A published note is read as it was written.
LEMMA NoteRoundTrip ==
    ASSUME NEW x
    PROVE  IsNote(Envelope(x)) /\ FromText(Envelope(x)) = NoteOf(x)
<1> DEFINE cp == CheckpointOf(x)
           p == PlainSignature(SignerOf[x.by], cp)
           w == CosignV1(WitnessSigner, cp, 0)
           note == AddSignature(NewNote(cp, SignerOf[x.by]), w)
           text == ToText(note)
<1>1. Envelope(x) = text
  BY DEF Envelope, CheckpointOf
<1>2. IsSignatureLine(ToLine(p)) /\ FromLine(ToLine(p)) = p
  BY LineRoundTrip DEF PlainSignature
<1>3. IsSignatureLine(ToLine(w)) /\ FromLine(ToLine(w)) = w
  BY LineRoundTrip DEF CosignV1
<1>4. cp.origin = Origin /\ cp.size = x.size /\ cp.root_hash = SubSeq(log, 1, x.size)
      /\ cp = Checkpoint(cp.origin, cp.size, cp.root_hash)
  BY DEF CheckpointOf, Checkpoint
<1>5. note = [checkpoint |-> cp, signatures |-> <<p, w>>]
  <2>1. NewNote(cp, SignerOf[x.by]) = [checkpoint |-> cp, signatures |-> <<p>>]
    BY DEF NewNote
  <2> HIDE DEF p, w, cp
  <2>2. Append(<<p>>, w) = <<p, w>>
    BY ShortSequences
  <2> QED
    BY <2>1, <2>2 DEF AddSignature
<1> HIDE DEF p, w, cp, note
<1>6. /\ text.body = <<cp.origin, cp.size, cp.root_hash>>
      /\ text.signatures = [k \in {1, 2} |-> IF k = 1 THEN ToLine(p) ELSE ToLine(w)]
  <2>1. note.checkpoint = cp /\ note.signatures = <<p, w>>
    BY <1>5
  <2>2. DOMAIN <<p, w>> = {1, 2} /\ <<p, w>>[1] = p /\ <<p, w>>[2] = w
    OBVIOUS
  <2> QED
    BY <2>1, <2>2 DEF ToText, ToBody
<1> HIDE DEF text
<1>7. IsNote(text)
  <2>1. Len(text.body) = 3
    BY <1>6
  <2>2. DOMAIN text.signatures = {1, 2} /\ text.signatures[1] = ToLine(p) /\ text.signatures[2] = ToLine(w)
    BY <1>6
  <2>3. text.signatures # <<>>
    BY <2>2
  <2> QED
    BY <1>2, <1>3, <2>1, <2>2, <2>3 DEF IsNote
<1>8. FromText(text) = [checkpoint |-> cp, signatures |-> <<p, w>>]
  <2>1. Checkpoint(text.body[1], text.body[2], text.body[3]) = cp
    BY <1>4, <1>6
  <2>2. [k \in DOMAIN text.signatures |-> FromLine(text.signatures[k])] = [k \in {1, 2} |-> IF k = 1 THEN p ELSE w]
    BY <1>2, <1>3, <1>6
  <2>3. [k \in {1, 2} |-> IF k = 1 THEN p ELSE w] = <<p, w>>
    OBVIOUS
  <2> QED
    BY <2>1, <2>2, <2>3 DEF FromText
<1> QED
  BY <1>1, <1>7, <1>8 DEF NoteOf, cp, p, w

\* A server takes for its own only what a server with the same signer has written,
\* although the in-process witness may have the log's name and key.
LEMMA OwnIsOwn ==
    ASSUME NEW x, x.by \in Servers, NEW s \in Servers, OwnSignature(NoteOf(x), SignerOf[s])
    PROVE  SignerOf[x.by] = SignerOf[s]
<1> DEFINE p == PlainSignature(SignerOf[x.by], CheckpointOf(x))
           w == CosignV1(WitnessSigner, CheckpointOf(x), 0)
<1>0. /\ SignerOf[s].key_id = <<SignerOf[s].name, SignerOf[s].key, 1>>
      /\ SignerOf[x.by].key_id = <<SignerOf[x.by].name, SignerOf[x.by].key, 1>>
  <2>1. ASSUME NEW r \in Servers
        PROVE  SignerOf[r].key_id = <<SignerOf[r].name, SignerOf[r].key, 1>>
    <3>1. PICK n, k : n = SignerOf[r].name /\ k = SignerOf[r].key
      OBVIOUS
    <3>2. SignerOf[r] = Signer(n, k)
      BY <3>1, RekorAssumption
    <3> QED
      BY <3>1, <3>2 DEF Signer, KeyId, ALG_ED25519
  <2> QED
    BY <2>1
<1>1. /\ p.name = SignerOf[x.by].name /\ p.key_id = SignerOf[x.by].key_id
      /\ w.key_id = <<WitnessSigner.name, WitnessSigner.key, 4>>
  BY DEF PlainSignature, CosignV1, CheckpointSignature, KeyId, ALG_COSIGNATURE_V1
<1> HIDE DEF p, w
<1>2. NoteOf(x).signatures = <<p, w>>
  BY DEF NoteOf, p, w
<1>3. PICK k \in {1, 2} : <<p, w>>[k].name = SignerOf[s].name /\ <<p, w>>[k].key_id = SignerOf[s].key_id
  <2>1. DOMAIN <<p, w>> = {1, 2}
    OBVIOUS
  <2> QED
    BY <1>2, <2>1 DEF OwnSignature
<1>4. k = 1
  BY <1>0, <1>1, <1>3
<1>5. SignerOf[x.by].name = SignerOf[s].name /\ SignerOf[x.by].key = SignerOf[s].key
  BY <1>0, <1>1, <1>3, <1>4
<1> QED
  BY <1>5, RekorAssumption

\* A verifier accepts the note under the key of the server that wrote it, and the
\* cosignature under that of the witness.
LEMMA NoteVerifies ==
    ASSUME NEW x, x.by \in Servers
    PROVE  /\ Verify(LogConfig(Origin, SignerOf[x.by]), NoteOf(x))
           /\ VerifyCosignature(LogConfig(Origin, WitnessSigner), NoteOf(x).signatures[2],
                                ToBody(NoteOf(x).checkpoint))
<1> DEFINE cp == CheckpointOf(x)
           p == PlainSignature(SignerOf[x.by], cp)
           w == CosignV1(WitnessSigner, cp, 0)
<1>1. /\ NoteOf(x).checkpoint = cp /\ NoteOf(x).signatures = <<p, w>> /\ cp.origin = Origin
      /\ 1 \in DOMAIN <<p, w>> /\ <<p, w>>[1] = p /\ <<p, w>>[2] = w
  BY DEF NoteOf, CheckpointOf, Checkpoint
<1>2. VerifySignature(LogConfig(Origin, SignerOf[x.by]), p, ToBody(cp))
  BY DEF VerifySignature, LogConfig, PlainSignature, CheckpointSignature, VerifyStrict
<1>3. VerifyCosignature(LogConfig(Origin, WitnessSigner), w, ToBody(cp))
  <2>1. /\ w.timestamp = <<0>> /\ w.timestamp # <<>> /\ w.timestamp[1] = 0
        /\ w.name = WitnessSigner.name
        /\ w.key_id = KeyId(WitnessSigner.name, WitnessSigner.key, ALG_COSIGNATURE_V1)
        /\ w.signature = Sign(WitnessSigner.key, cosignature_v1_message(0, ToBody(cp)))
    BY DEF CosignV1, CheckpointSignature
  <2> HIDE DEF w, cp
  <2> QED
    BY <2>1 DEF VerifyCosignature, LogConfig, VerifyStrict
<1> HIDE DEF p, w, cp
<1>4. Verify(LogConfig(Origin, SignerOf[x.by]), NoteOf(x))
  <2>1. LogConfig(Origin, SignerOf[x.by]).origin = Origin
    BY DEF LogConfig
  <2> QED
    BY <1>1, <1>2, <2>1 DEF Verify
<1> QED
  BY <1>1, <1>3, <1>4

-----------------------------------------------------------------------------
(* The inductive invariant                                                  *)

\* The entry of a submission that can get into the log.
IsEntryOf(entry, m) == Loggable(m) /\ entry = EntryFor(m)

\* The log has entries of submissions, none twice.
LogRight ==
    /\ log \in Seq({EntryFor(m) : m \in {n \in Submissions : Loggable(n)}})
    /\ \A j, k \in 1 .. Len(log) : log[j] = log[k] => j = k
    /\ integrated \in 0 .. Len(log)

QueueRight == \A o \in orphans : \E m \in Submissions : IsEntryOf(o[2], m)

\* A checkpoint of an integrated tree, written by one of the servers.
Stands(x) == x.by \in Servers /\ x.size \in 1 .. integrated
CheckpointRight == checkpoint # None => Stands(checkpoint)

\* The entry has that index.
At(index, entry) == index \in 0 .. Len(log) - 1 /\ log[index + 1] = entry

Fields == {"submission", "pc", "server", "entry", "index", "envelope", "answer"}

\* What submit knows at each of its awaits.
RequestRight(c) ==
    LET j == client[c]
    IN /\ j.pc \in {"queued", "waiting", "proving"} => IsEntryOf(j.entry, j.submission) /\ j.server \in Servers
       /\ j.pc \in {"waiting", "proving"} => At(j.index, j.entry)
       /\ j.pc = "proving" =>
            /\ Stands(j.envelope) /\ j.index < j.envelope.size
            /\ SignerOf[j.envelope.by] = SignerOf[j.server]

\* What the client was told is true of the log.
AnswerRight(a, m) ==
    /\ a.code \in {201, 409} => Loggable(m) /\ At(a.index, EntryFor(m))
    /\ a.code = 201 =>
        /\ a.canonicalizedBody = EntryFor(m)
        /\ Stands(a.envelope) /\ a.index < a.envelope.size
        /\ a.logId = SignerOf[a.envelope.by]
        /\ a.proof = InclusionProof(a.index, a.envelope.size)

ClientRight(c) ==
    /\ DOMAIN client[c] = Fields /\ client[c].submission \in Submissions
    /\ RequestRight(c)
    /\ AnswerRight(client[c].answer, client[c].submission)

RekorInv ==
    /\ LogRight
    /\ QueueRight
    /\ CheckpointRight
    /\ DOMAIN client = Clients
    /\ \A c \in Clients : ClientRight(c)

-----------------------------------------------------------------------------
(* Frames                                                                   *)

\* The log and the tree only grow.
Grows ==
    /\ Len(log) \in Nat /\ Len(log') \in Nat /\ Len(log) <= Len(log')
    /\ \A k \in 1 .. Len(log) : log'[k] = log[k]
    /\ integrated \in 0 .. Len(log) /\ integrated' \in 0 .. Len(log') /\ integrated <= integrated'

\* An entry keeps its index.
LEMMA AtStays ==
    ASSUME Grows, NEW index, NEW entry, At(index, entry)
    PROVE  At(index, entry)'
BY DEF Grows, At

\* A checkpoint stands, and a proof for it is always the same.
LEMMA StandsStays ==
    ASSUME LogRight, LogRight', Grows, NEW x, Stands(x), NEW index
    PROVE  Stands(x)' /\ InclusionProof(index, x.size)' = InclusionProof(index, x.size)
<1>1. x.by \in Servers /\ x.size \in 1 .. integrated
  BY DEF Stands
<1>2. x.size \in Nat /\ x.size <= Len(log) /\ x.size <= Len(log') /\ x.size \in 1 .. integrated'
  BY <1>1 DEF Grows
<1>3. SubSeq(log, 1, x.size) = [k \in 1 .. x.size |-> log[k]]
  BY <1>2 DEF LogRight
<1>4. SubSeq(log', 1, x.size) = [k \in 1 .. x.size |-> log'[k]]
  BY <1>2 DEF LogRight
<1>5. \A k \in 1 .. x.size : log'[k] = log[k]
  BY <1>2 DEF Grows
<1>6. SubSeq(log', 1, x.size) = SubSeq(log, 1, x.size)
  BY <1>3, <1>4, <1>5
<1> QED
  BY <1>1, <1>2, <1>6 DEF Stands, InclusionProof

\* An answer stays true.
LEMMA AnswerStays ==
    ASSUME LogRight, LogRight', Grows, NEW a, NEW m, AnswerRight(a, m)
    PROVE  AnswerRight(a, m)'
<1>1. ASSUME a.code \in {201, 409} PROVE Loggable(m) /\ At(a.index, EntryFor(m))'
  BY <1>1, AtStays DEF AnswerRight
<1>2. ASSUME a.code = 201
      PROVE  Stands(a.envelope)' /\ a.proof = InclusionProof(a.index, a.envelope.size)'
  <2>1. Stands(a.envelope) /\ a.proof = InclusionProof(a.index, a.envelope.size)
    BY <1>2 DEF AnswerRight
  <2> QED
    BY <2>1, StandsStays
<1> QED
  BY <1>1, <1>2 DEF AnswerRight

\* A client that is left alone keeps what it knows.
LEMMA ClientFrame ==
    ASSUME LogRight, LogRight', Grows, NEW c \in Clients, ClientRight(c), client'[c] = client[c]
    PROVE  ClientRight(c)'
<1>1. PICK j : j = client[c]
  OBVIOUS
<1>2. /\ DOMAIN j = Fields /\ j.submission \in Submissions
      /\ j.pc \in {"queued", "waiting", "proving"} => IsEntryOf(j.entry, j.submission) /\ j.server \in Servers
      /\ j.pc \in {"waiting", "proving"} => At(j.index, j.entry)
      /\ j.pc = "proving" =>
            /\ Stands(j.envelope) /\ j.index < j.envelope.size
            /\ SignerOf[j.envelope.by] = SignerOf[j.server]
      /\ AnswerRight(j.answer, j.submission)
  BY <1>1 DEF ClientRight, RequestRight
<1>3. j.pc \in {"waiting", "proving"} => At(j.index, j.entry)'
  BY <1>2, AtStays
<1>4. j.pc = "proving" => Stands(j.envelope)'
  BY <1>2, StandsStays
<1>5. AnswerRight(j.answer, j.submission)'
  BY <1>2, AnswerStays
<1>6. client'[c] = j
  BY <1>1
<1>7. RequestRight(c)'
  BY <1>2, <1>3, <1>4, <1>6 DEF RequestRight, At, Stands
<1>8. AnswerRight(client[c].answer, client[c].submission)'
  BY <1>5, <1>6 DEF AnswerRight, At, Stands, InclusionProof
<1> QED
  BY <1>2, <1>6, <1>7, <1>8 DEF ClientRight

\* Whether a step of the sequencer appends an entry or finds it in the log.
LEMMA LogStep ==
    ASSUME LogRight, NEW entry, NEW m, IsEntryOf(entry, m), UNCHANGED integrated,
           log' = log \/ (~Logged(entry) /\ log' = Append(log, entry)),
           NEW n, n = Len(log)
    PROVE  /\ LogRight' /\ Grows
           /\ ~Logged(entry) /\ log' = Append(log, entry) => At(n, entry)'
<1> DEFINE S == {EntryFor(j) : j \in {k \in Submissions : Loggable(k)}}
<1>1. entry \in S
  BY DEF IsEntryOf, Loggable
<1>2. log \in Seq(S) /\ Len(log) \in Nat /\ DOMAIN log = 1 .. Len(log) /\ integrated \in 0 .. Len(log)
  BY DEF LogRight
<1> HIDE DEF S
<1>3. CASE log' = log
  BY <1>2, <1>3 DEF LogRight, Grows
<1>4. CASE ~Logged(entry) /\ log' = Append(log, entry)
  <2>1. /\ log' \in Seq(S) /\ Len(log') = Len(log) + 1 /\ log'[Len(log) + 1] = entry
        /\ \A k \in 1 .. Len(log) : log'[k] = log[k]
    <3>1. PICK q : q = Append(log, entry)
      OBVIOUS
    <3>2. /\ q \in Seq(S) /\ Len(q) = Len(log) + 1 /\ q[Len(log) + 1] = entry
          /\ \A k \in 1 .. Len(log) : q[k] = log[k]
      BY <1>1, <1>2, <3>1, AppendProperties
    <3>3. log' = q
      BY <1>4, <3>1
    <3> QED
      BY <3>2, <3>3
  <2>2. Grows
    BY <1>2, <2>1 DEF Grows
  <2>3. \A k \in 1 .. Len(log) : log[k] # entry
    BY <1>2, <1>4 DEF Logged
  <2>4. \A k : k \in 1 .. Len(log') <=> k \in 1 .. Len(log) \/ k = Len(log) + 1
    BY <1>2, <2>1
  <2>5. \A j, k \in 1 .. Len(log') : log'[j] = log'[k] => j = k
    BY <2>1, <2>3, <2>4 DEF LogRight
  <2>6. LogRight'
    <3>1. log' \in Seq({EntryFor(j) : j \in {k \in Submissions : Loggable(k)}})
      BY <2>1 DEF S
    <3>2. integrated' \in 0 .. Len(log')
      BY <2>2 DEF Grows
    <3> QED
      BY <2>5, <3>1, <3>2 DEF LogRight
  <2>7. At(n, entry)'
    BY <1>2, <2>1 DEF At
  <2> QED
    BY <2>2, <2>6, <2>7
<1> QED
  BY <1>3, <1>4

\* Nothing happens to the log.
LEMMA SameLog ==
    ASSUME LogRight, UNCHANGED <<log, integrated>>
    PROVE  LogRight' /\ Grows
BY DEF LogRight, Grows

\* The checkpoint object stays.
LEMMA SameCheckpoint ==
    ASSUME CheckpointRight, LogRight, LogRight', Grows, UNCHANGED checkpoint
    PROVE  CheckpointRight'
<1>1. ASSUME NEW x, Stands(x) PROVE Stands(x)'
  BY <1>1, StandsStays
<1> QED
  BY <1>1 DEF CheckpointRight, Stands

\* A request is answered.
LEMMA RespondStep ==
    ASSUME RekorInv, LogRight', Grows, QueueRight', CheckpointRight',
           NEW c \in Clients, NEW a, Respond(c, a), NEW m, m = client[c].submission, AnswerRight(a, m)'
    PROVE  RekorInv'
<1>1. LogRight /\ DOMAIN client = Clients /\ ClientRight(c)
  BY DEF RekorInv
<1>2. /\ DOMAIN client' = Clients /\ client'[c].pc = "answered" /\ client'[c].answer = a
      /\ client'[c].submission = m /\ DOMAIN client'[c] = Fields
      /\ \A d \in Clients \ {c} : client'[d] = client[d]
  BY <1>1 DEF Respond, ClientRight, Fields
<1>3. ClientRight(c)'
  <2>1. RequestRight(c)'
    BY <1>2 DEF RequestRight
  <2>2. AnswerRight(client[c].answer, client[c].submission)'
    BY <1>2 DEF AnswerRight, At, Stands, InclusionProof
  <2> QED
    BY <1>1, <1>2, <2>1, <2>2 DEF ClientRight
<1>4. ASSUME NEW d \in Clients PROVE ClientRight(d)'
  <2>1. CASE d # c
    BY <1>1, <1>2, <2>1, ClientFrame DEF RekorInv
  <2> QED
    BY <1>3, <2>1
<1> QED
  BY <1>2, <1>4 DEF RekorInv

\* An answer that tells no index.
LEMMA ErrorStep ==
    ASSUME RekorInv, LogRight', Grows, QueueRight', CheckpointRight',
           NEW c \in Clients, NEW code \in {400, 401, 500, 504}, Respond(c, Answer(code))
    PROVE  RekorInv'
<1>1. PICK m : m = client[c].submission
  OBVIOUS
<1>2. Answer(code).code = code
  BY DEF Answer
<1>3. AnswerRight(Answer(code), m)'
  BY <1>2 DEF AnswerRight
<1> QED
  BY <1>1, <1>3, RespondStep

\* Only the workers, or the storage, did something.
LEMMA WorkerStep ==
    ASSUME RekorInv, LogRight', Grows, QueueRight', CheckpointRight', UNCHANGED client
    PROVE  RekorInv'
<1>1. \A c \in Clients : ClientRight(c)'
  BY ClientFrame DEF RekorInv
<1> QED
  BY <1>1 DEF RekorInv

-----------------------------------------------------------------------------
(* The steps                                                                *)

\* An empty log and clients that have not submitted anything.
LEMMA InitInv == Init => RekorInv
<1> SUFFICES ASSUME Init PROVE RekorInv
  OBVIOUS
<1>1. PICK submits \in [Clients -> Submissions] :
        client = [c \in Clients |->
            [submission |-> submits[c], pc |-> "idle", server |-> None, entry |-> None,
             index |-> None, envelope |-> None, answer |-> Answer(0)]]
  BY DEF Init
<1>2. LogRight /\ QueueRight /\ CheckpointRight
  BY DEF Init, LogRight, QueueRight, CheckpointRight
<1>3. ASSUME NEW c \in Clients PROVE ClientRight(c)
  <2>1. /\ DOMAIN client[c] = Fields /\ client[c].submission \in Submissions
        /\ client[c].pc = "idle" /\ client[c].answer = Answer(0)
    BY <1>1 DEF Fields
  <2>2. Answer(0).code = 0
    BY DEF Answer
  <2> QED
    BY <2>1, <2>2 DEF ClientRight, RequestRight, AnswerRight
<1> QED
  BY <1>1, <1>2, <1>3 DEF RekorInv

\* canonical_entry: what is queued is the entry of the submission, however encoded.
LEMMA SubmitStep ==
    ASSUME RekorInv, NEW c \in Clients, NEW s \in Servers, NEW e \in Encodings, Submit(c, s, e)
    PROVE  RekorInv'
<1>1. /\ LogRight /\ QueueRight /\ CheckpointRight /\ DOMAIN client = Clients /\ ClientRight(c)
  BY DEF RekorInv
<1>2. UNCHANGED <<log, integrated, checkpoint, orphans>>
  BY DEF Submit, logVars
<1>3. LogRight' /\ Grows
  BY <1>1, <1>2, SameLog
<1>4. QueueRight' /\ CheckpointRight'
  BY <1>1, <1>2, <1>3, SameCheckpoint DEF QueueRight
<1>5. PICK m : m = client[c].submission
  OBVIOUS
<1>6. m \in Submissions
  BY <1>1, <1>5 DEF ClientRight
<1>7. CASE Respond(c, Answer(401)) \/ Respond(c, Answer(400))
  BY <1>3, <1>4, <1>7, ErrorStep
<1>8. CASE /\ Content[m].authorized /\ Canonical[m][e] # None
           /\ client' = [client EXCEPT ![c] =
                [@ EXCEPT !.pc = "queued", !.server = s, !.entry = Canonical[m][e], !.answer = Answer(0)]]
  <2>1. IsEntryOf(Canonical[m][e], m)
    BY <1>6, <1>8, CanonicalIsEntry DEF IsEntryOf, Loggable
  <2>2. /\ DOMAIN client' = Clients /\ DOMAIN client'[c] = Fields
        /\ client'[c].submission = m /\ client'[c].pc = "queued"
        /\ client'[c].server = s /\ client'[c].entry = Canonical[m][e]
        /\ client'[c].answer = Answer(0)
        /\ \A d \in Clients \ {c} : client'[d] = client[d]
    BY <1>1, <1>5, <1>8 DEF ClientRight, Fields
  <2>3. ClientRight(c)'
    <3>1. Answer(0).code = 0
      BY DEF Answer
    <3>2. RequestRight(c)'
      BY <2>1, <2>2 DEF RequestRight
    <3>3. AnswerRight(client[c].answer, client[c].submission)'
      BY <2>2, <3>1 DEF AnswerRight
    <3> QED
      BY <1>6, <2>2, <3>2, <3>3 DEF ClientRight
  <2>4. ASSUME NEW d \in Clients PROVE ClientRight(d)'
    <3>1. CASE d # c
      BY <1>1, <1>3, <2>2, <3>1, ClientFrame DEF RekorInv
    <3> QED
      BY <2>3, <3>1
  <2> QED
    BY <1>3, <1>4, <2>2, <2>4 DEF RekorInv
<1> QED
  BY <1>5, <1>7, <1>8 DEF Submit

\* The index of an entry that is in the log.
LEMMA IndexIsAt ==
    ASSUME LogRight, NEW entry, Logged(entry)
    PROVE  At(Index(entry), entry)
<1>1. PICK k : k = CHOOSE j \in DOMAIN log : log[j] = entry
  OBVIOUS
<1>2. k \in DOMAIN log /\ log[k] = entry
  BY <1>1 DEF Logged
<1>3. Index(entry) = k - 1
  BY <1>1 DEF Index
<1>4. DOMAIN log = 1 .. Len(log) /\ Len(log) \in Nat
  BY DEF LogRight
<1>5. k - 1 \in 0 .. Len(log) - 1 /\ (k - 1) + 1 = k
  BY <1>2, <1>4
<1> QED
  BY <1>2, <1>3, <1>5 DEF At

\* The sequencer appends the entry, or tells the index it has.
LEMMA SequenceStep ==
    ASSUME RekorInv, NEW c \in Clients, Sequence(c)
    PROVE  RekorInv'
<1>1. /\ LogRight /\ QueueRight /\ CheckpointRight /\ DOMAIN client = Clients /\ ClientRight(c)
  BY DEF RekorInv
<1>2. PICK entry, m, n : entry = client[c].entry /\ m = client[c].submission /\ n = Len(log)
  OBVIOUS
<1>3. IsEntryOf(entry, m) /\ client[c].server \in Servers
  BY <1>1, <1>2 DEF Sequence, ClientRight, RequestRight
<1>4. UNCHANGED <<integrated, checkpoint, orphans>>
  BY DEF Sequence
<1>5. /\ log' = log \/ (~Logged(entry) /\ log' = Append(log, entry))
  BY <1>2 DEF Sequence
<1>6. /\ LogRight' /\ Grows
      /\ ~Logged(entry) /\ log' = Append(log, entry) => At(n, entry)'
  BY <1>1, <1>2, <1>3, <1>4, <1>5, LogStep, Zenon
<1>7. QueueRight' /\ CheckpointRight'
  BY <1>1, <1>4, <1>6, SameCheckpoint DEF QueueRight
<1>8. CASE Logged(entry)
  <2>1. PICK a : a = Duplicate(entry)
    OBVIOUS
  <2>2. Respond(c, a)
    BY <1>2, <1>8, <2>1 DEF Sequence
  <2>3. a.code = 409 /\ At(a.index, entry)
    BY <1>1, <1>8, <2>1, IndexIsAt DEF Duplicate
  <2>4. AnswerRight(a, m)
    BY <1>3, <2>3 DEF AnswerRight, IsEntryOf
  <2>5. AnswerRight(a, m)'
    BY <1>1, <1>6, <2>4, AnswerStays
  <2> QED
    BY <1>2, <1>6, <1>7, <2>2, <2>5, RespondStep
<1>9. CASE ~Logged(entry)
  <2>1. /\ log' = Append(log, entry)
        /\ client' = [client EXCEPT ![c] = [@ EXCEPT !.pc = "waiting", !.index = n]]
    BY <1>2, <1>9 DEF Sequence
  <2>2. /\ DOMAIN client' = Clients /\ DOMAIN client'[c] = Fields
        /\ client'[c].submission = m /\ client'[c].pc = "waiting"
        /\ client'[c].server = client[c].server /\ client'[c].entry = entry
        /\ client'[c].index = n /\ client'[c].answer = client[c].answer
        /\ \A d \in Clients \ {c} : client'[d] = client[d]
    BY <1>1, <1>2, <2>1 DEF ClientRight, Fields
  <2>3. At(n, entry)'
    BY <1>6, <1>9, <2>1
  <2>4. RequestRight(c)'
    BY <1>3, <2>2, <2>3 DEF RequestRight, At
  <2>5. AnswerRight(client[c].answer, client[c].submission)'
    <3>1. PICK a : a = client[c].answer
      OBVIOUS
    <3>2. AnswerRight(a, m)
      BY <1>1, <1>2, <3>1 DEF ClientRight
    <3>3. AnswerRight(a, m)'
      BY <1>1, <1>6, <3>2, AnswerStays
    <3> QED
      BY <2>2, <3>1, <3>3 DEF AnswerRight, At, Stands, InclusionProof
  <2>6. ClientRight(c)'
    BY <1>1, <1>2, <2>2, <2>4, <2>5 DEF ClientRight
  <2>7. ASSUME NEW d \in Clients PROVE ClientRight(d)'
    <3>1. CASE d # c
      BY <1>1, <1>6, <2>2, <3>1, ClientFrame DEF RekorInv
    <3> QED
      BY <2>6, <3>1
  <2> QED
    BY <1>6, <1>7, <2>2, <2>7 DEF RekorInv
<1> QED
  BY <1>8, <1>9

\* The same for an entry whose client is gone.
LEMMA SequenceOrphanStep ==
    ASSUME RekorInv, NEW s, NEW entry, SequenceOrphan(s, entry)
    PROVE  RekorInv'
<1>1. LogRight /\ QueueRight /\ CheckpointRight
  BY DEF RekorInv
<1>2. /\ <<s, entry>> \in orphans /\ orphans' = orphans \ {<<s, entry>>}
      /\ log' = IF Logged(entry) THEN log ELSE Append(log, entry)
      /\ UNCHANGED <<integrated, checkpoint, client>>
  BY DEF SequenceOrphan
<1>3. PICK m \in Submissions : IsEntryOf(entry, m)
  BY <1>1, <1>2 DEF QueueRight
<1>4. LogRight' /\ Grows
  <2>1. log' = log \/ (~Logged(entry) /\ log' = Append(log, entry))
    BY <1>2, Zenon
  <2>2. UNCHANGED integrated
    BY <1>2, Zenon
  <2> QED
    BY <1>1, <1>3, <2>1, <2>2, LogStep, Zenon
<1>5. QueueRight' /\ CheckpointRight'
  BY <1>1, <1>2, <1>4, SameCheckpoint DEF QueueRight
<1> QED
  BY <1>2, <1>4, <1>5, WorkerStep

\* The same for a transaction that fails, or whose commit is not acknowledged.
LEMMA SequenceFailsStep ==
    ASSUME RekorInv, NEW c \in Clients, NEW committed \in BOOLEAN, SequenceFails(c, committed)
    PROVE  RekorInv'
<1>1. LogRight /\ QueueRight /\ CheckpointRight /\ ClientRight(c)
  BY DEF RekorInv
<1>2. PICK entry, m : entry = client[c].entry /\ m = client[c].submission
  OBVIOUS
<1>3. IsEntryOf(entry, m)
  BY <1>1, <1>2 DEF SequenceFails, ClientRight, RequestRight
<1>4. /\ UNCHANGED <<integrated, checkpoint, orphans>> /\ Respond(c, Answer(500))
      /\ log' = log \/ (~Logged(entry) /\ log' = Append(log, entry))
  BY <1>2 DEF SequenceFails
<1>5. LogRight' /\ Grows
  BY <1>1, <1>3, <1>4, LogStep
<1>6. QueueRight' /\ CheckpointRight'
  BY <1>1, <1>4, <1>5, SameCheckpoint DEF QueueRight
<1> QED
  BY <1>4, <1>5, <1>6, ErrorStep

\* A client's step that leaves the log, the queue and the storage alone and
\* answers an error.
LEMMA QuietErrorStep ==
    ASSUME RekorInv, NEW c \in Clients, NEW code \in {400, 401, 500, 504}, Respond(c, Answer(code)),
           UNCHANGED <<log, integrated, checkpoint, orphans>>
    PROVE  RekorInv'
<1>1. LogRight /\ QueueRight /\ CheckpointRight
  BY DEF RekorInv
<1>2. LogRight' /\ Grows
  BY <1>1, SameLog
<1>3. QueueRight' /\ CheckpointRight'
  BY <1>1, <1>2, SameCheckpoint DEF QueueRight
<1> QED
  BY <1>2, <1>3, ErrorStep

\* The polling loop keeps a checkpoint of a server with the same signer.
LEMMA ReadCheckpointStep ==
    ASSUME RekorInv, NEW c \in Clients, ReadCheckpoint(c)
    PROVE  RekorInv'
<1>1. /\ LogRight /\ QueueRight /\ CheckpointRight /\ DOMAIN client = Clients /\ ClientRight(c)
  BY DEF RekorInv
<1>2. PICK x, j : x = checkpoint /\ j = client[c]
  OBVIOUS
<1>3. Stands(x) /\ j.pc = "waiting" /\ UNCHANGED <<log, integrated, checkpoint, orphans>>
  BY <1>1, <1>2 DEF ReadCheckpoint, CheckpointRight, logVars
<1>4. IsNote(Envelope(x)) /\ FromText(Envelope(x)) = NoteOf(x)
  BY NoteRoundTrip
<1>5. NoteOf(x).checkpoint.size = x.size
  BY DEF NoteOf, CheckpointOf, Checkpoint
<1>6. /\ x.size > j.index
      /\ IF OwnSignature(NoteOf(x), SignerOf[j.server])
         THEN client' = [client EXCEPT ![c] = [@ EXCEPT !.pc = "proving", !.envelope = x]]
         ELSE Respond(c, Answer(500))
  BY <1>2, <1>4, <1>5 DEF ReadCheckpoint
<1>7. CASE Respond(c, Answer(500))
  BY <1>3, <1>7, QuietErrorStep
<1>8. CASE /\ OwnSignature(NoteOf(x), SignerOf[j.server])
           /\ client' = [client EXCEPT ![c] = [@ EXCEPT !.pc = "proving", !.envelope = x]]
  <2>1. LogRight' /\ Grows
    BY <1>1, <1>3, SameLog
  <2>2. QueueRight' /\ CheckpointRight'
    BY <1>1, <1>3, <2>1, SameCheckpoint DEF QueueRight
  <2>3. /\ IsEntryOf(j.entry, j.submission) /\ j.server \in Servers /\ At(j.index, j.entry)
        /\ DOMAIN j = Fields /\ j.submission \in Submissions
        /\ AnswerRight(j.answer, j.submission)
    BY <1>1, <1>2, <1>3 DEF ClientRight, RequestRight
  <2>4. SignerOf[x.by] = SignerOf[j.server]
    BY <1>3, <1>8, <2>3, OwnIsOwn DEF Stands
  <2>5. /\ DOMAIN client' = Clients /\ DOMAIN client'[c] = Fields
        /\ client'[c].submission = j.submission /\ client'[c].pc = "proving"
        /\ client'[c].server = j.server /\ client'[c].entry = j.entry
        /\ client'[c].index = j.index /\ client'[c].answer = j.answer
        /\ client'[c].envelope = x
        /\ \A d \in Clients \ {c} : client'[d] = client[d]
    BY <1>1, <1>2, <1>8, <2>3 DEF Fields
  <2>6. x.size \in Int /\ j.index \in Int /\ j.index < x.size
    BY <1>1, <1>3, <1>6, <2>3 DEF Stands, At, LogRight
  <2>7. At(j.index, j.entry)' /\ Stands(x)' /\ AnswerRight(j.answer, j.submission)'
    BY <1>1, <1>3, <2>1, <2>3, AtStays, StandsStays, AnswerStays
  <2>8. RequestRight(c)'
    BY <2>3, <2>4, <2>5, <2>6, <2>7 DEF RequestRight, At, Stands
  <2>9. AnswerRight(client[c].answer, client[c].submission)'
    BY <2>5, <2>7 DEF AnswerRight, At, Stands, InclusionProof
  <2>10. ClientRight(c)'
    BY <2>3, <2>5, <2>8, <2>9 DEF ClientRight
  <2>11. ASSUME NEW d \in Clients PROVE ClientRight(d)'
    <3>1. CASE d # c
      BY <1>1, <2>1, <2>5, <3>1, ClientFrame DEF RekorInv
    <3> QED
      BY <2>10, <3>1
  <2> QED
    BY <2>1, <2>2, <2>5, <2>11 DEF RekorInv
<1> QED
  BY <1>6, <1>7, <1>8

\* The proof is for the checkpoint that was kept.
LEMMA ProveStep ==
    ASSUME RekorInv, NEW c \in Clients, Prove(c)
    PROVE  RekorInv'
<1>1. LogRight /\ QueueRight /\ CheckpointRight /\ ClientRight(c)
  BY DEF RekorInv
<1>2. PICK j, x, m : j = client[c] /\ x = j.envelope /\ m = j.submission
  OBVIOUS
<1>3. j.pc = "proving" /\ UNCHANGED <<log, integrated, checkpoint, orphans>>
  BY <1>2 DEF Prove, logVars
<1>4. /\ IsEntryOf(j.entry, m) /\ At(j.index, j.entry)
      /\ Stands(x) /\ j.index < x.size /\ SignerOf[x.by] = SignerOf[j.server]
  BY <1>1, <1>2, <1>3 DEF ClientRight, RequestRight
<1>5. FromText(Envelope(x)).checkpoint.size = x.size
  <2>1. FromText(Envelope(x)) = NoteOf(x)
    BY NoteRoundTrip
  <2>2. NoteOf(x).checkpoint.size = x.size
    BY DEF NoteOf, CheckpointOf, Checkpoint
  <2> QED
    BY <2>1, <2>2
<1>6. PICK a : a = [code |-> 201, index |-> j.index, canonicalizedBody |-> j.entry,
                    logId |-> SignerOf[j.server], proof |-> InclusionProof(j.index, x.size), envelope |-> x]
  OBVIOUS
<1>7. Respond(c, a) \/ Respond(c, Answer(500))
  BY <1>2, <1>5, <1>6 DEF Prove
<1>8. CASE Respond(c, Answer(500))
  BY <1>3, <1>8, QuietErrorStep
<1>9. CASE Respond(c, a)
  <2>1. LogRight' /\ Grows
    BY <1>1, <1>3, SameLog
  <2>2. QueueRight' /\ CheckpointRight'
    BY <1>1, <1>3, <2>1, SameCheckpoint DEF QueueRight
  <2>3. /\ a.code = 201 /\ a.index = j.index /\ a.canonicalizedBody = j.entry
        /\ a.logId = SignerOf[j.server] /\ a.proof = InclusionProof(j.index, x.size) /\ a.envelope = x
    BY <1>6
  <2>4. AnswerRight(a, m)
    BY <1>4, <2>3 DEF AnswerRight, IsEntryOf
  <2>5. AnswerRight(a, m)'
    BY <1>1, <2>1, <2>4, AnswerStays
  <2> QED
    BY <1>2, <1>9, <2>1, <2>2, <2>5, RespondStep
<1> QED
  BY <1>7, <1>8, <1>9

\* The entry of a request that timed out in the queue stays there.
LEMMA TimeoutStep ==
    ASSUME RekorInv, NEW c \in Clients, Timeout(c)
    PROVE  RekorInv'
<1>1. LogRight /\ QueueRight /\ CheckpointRight /\ ClientRight(c)
  BY DEF RekorInv
<1>2. /\ UNCHANGED <<log, integrated, checkpoint>> /\ Respond(c, Answer(504))
      /\ orphans' = IF client[c].pc = "queued" THEN orphans \cup {<<client[c].server, client[c].entry>>} ELSE orphans
  BY DEF Timeout, logVars
<1>3. LogRight' /\ Grows
  BY <1>1, <1>2, SameLog
<1>4. CheckpointRight'
  BY <1>1, <1>2, <1>3, SameCheckpoint
<1>5. QueueRight'
  <2>1. CASE client[c].pc = "queued"
    <3>1. IsEntryOf(client[c].entry, client[c].submission) /\ client[c].submission \in Submissions
      BY <1>1, <2>1 DEF ClientRight, RequestRight
    <3> QED
      BY <1>1, <1>2, <2>1, <3>1 DEF QueueRight
  <2> QED
    BY <1>1, <1>2, <2>1 DEF QueueRight
<1> QED
  BY <1>2, <1>3, <1>4, <1>5, ErrorStep

\* The tree grows up to the log.
LEMMA IntegrateStep ==
    ASSUME RekorInv, Integrate
    PROVE  RekorInv'
<1>1. LogRight /\ QueueRight /\ CheckpointRight
  BY DEF RekorInv
<1>2. integrated < Len(log) /\ integrated' = integrated + 1 /\ UNCHANGED <<log, checkpoint, client, orphans>>
  BY DEF Integrate
<1>3. LogRight' /\ Grows
  BY <1>1, <1>2 DEF LogRight, Grows
<1>4. QueueRight' /\ CheckpointRight'
  BY <1>1, <1>2, <1>3, SameCheckpoint DEF QueueRight
<1> QED
  BY <1>2, <1>3, <1>4, WorkerStep

\* A publisher replaces the checkpoint object, with an older one perhaps.
LEMMA PublishStep ==
    ASSUME RekorInv, NEW s \in Servers, NEW n \in 1 .. integrated, Publish(s, n)
    PROVE  RekorInv'
<1>1. LogRight /\ QueueRight
  BY DEF RekorInv
<1>2. checkpoint' = [by |-> s, size |-> n] /\ UNCHANGED <<log, integrated, client, orphans>>
  BY DEF Publish
<1>3. LogRight' /\ Grows
  BY <1>1, <1>2, SameLog
<1>4. QueueRight'
  BY <1>1, <1>2 DEF QueueRight
<1>5. CheckpointRight'
  BY <1>2 DEF CheckpointRight, Stands
<1> QED
  BY <1>2, <1>3, <1>4, <1>5, WorkerStep

\* A process dies with its queue and its requests; what its clients were told
\* before, they keep.
LEMMA CrashStep ==
    ASSUME RekorInv, NEW s \in Servers, Crash(s)
    PROVE  RekorInv'
<1>1. LogRight /\ QueueRight /\ CheckpointRight
  BY DEF RekorInv
<1>2. /\ orphans' \subseteq orphans /\ UNCHANGED <<log, integrated, checkpoint>>
      /\ client' = [c \in Clients |->
            IF client[c].server = s
            THEN [client[c] EXCEPT !.pc = "answered", !.server = None, !.entry = None,
                                   !.index = None, !.envelope = None]
            ELSE client[c]]
  BY DEF Crash, logVars
<1>3. LogRight' /\ Grows
  BY <1>1, <1>2, SameLog
<1>4. QueueRight' /\ CheckpointRight'
  BY <1>1, <1>2, <1>3, SameCheckpoint DEF QueueRight
<1>5. ASSUME NEW c \in Clients PROVE ClientRight(c)'
  <2>0. ClientRight(c)
    BY DEF RekorInv
  <2>1. CASE client[c].server # s
    <3>1. client'[c] = client[c]
      BY <1>2, <2>1
    <3> QED
      BY <1>1, <1>3, <2>0, <3>1, ClientFrame
  <2>2. CASE client[c].server = s
    <3>1. PICK j : j = client[c]
      OBVIOUS
    <3>2. DOMAIN j = Fields /\ j.submission \in Submissions /\ AnswerRight(j.answer, j.submission)
      BY <2>0, <3>1 DEF ClientRight
    <3>3. client'[c] = [j EXCEPT !.pc = "answered", !.server = None, !.entry = None,
                                 !.index = None, !.envelope = None]
      BY <1>2, <2>2, <3>1
    <3>4. /\ DOMAIN client'[c] = Fields /\ client'[c].pc = "answered"
          /\ client'[c].submission = j.submission /\ client'[c].answer = j.answer
      BY <3>2, <3>3 DEF Fields
    <3>5. AnswerRight(j.answer, j.submission)'
      BY <1>1, <1>3, <3>2, AnswerStays
    <3>6. RequestRight(c)'
      BY <3>4 DEF RequestRight
    <3>7. AnswerRight(client[c].answer, client[c].submission)'
      BY <3>4, <3>5 DEF AnswerRight, At, Stands, InclusionProof
    <3> QED
      BY <3>2, <3>4, <3>6, <3>7 DEF ClientRight
  <2> QED
    BY <2>1, <2>2
<1> QED
  BY <1>2, <1>3, <1>4, <1>5 DEF RekorInv

\* Every step of every server, worker and client.
LEMMA NextInv == RekorInv /\ [Next]_vars => RekorInv'
<1> SUFFICES ASSUME RekorInv, [Next]_vars PROVE RekorInv'
  OBVIOUS
<1>1. ASSUME NEW c \in Clients, NEW s \in Servers, NEW e \in Encodings, Submit(c, s, e) PROVE RekorInv'
  BY <1>1, SubmitStep
<1>2. ASSUME NEW c \in Clients, Sequence(c) PROVE RekorInv'
  BY <1>2, SequenceStep
<1>3. ASSUME NEW c \in Clients, NEW committed \in BOOLEAN, SequenceFails(c, committed) PROVE RekorInv'
  BY <1>3, SequenceFailsStep
<1>4. ASSUME NEW c \in Clients, ReadCheckpoint(c) PROVE RekorInv'
  BY <1>4, ReadCheckpointStep
<1>5. ASSUME NEW c \in Clients, Prove(c) PROVE RekorInv'
  BY <1>5, ProveStep
<1>6. ASSUME NEW c \in Clients, StorageFails(c) PROVE RekorInv'
  <2>1. Respond(c, Answer(500)) /\ UNCHANGED <<log, integrated, checkpoint, orphans>>
    BY <1>6 DEF StorageFails, logVars
  <2> QED
    BY <2>1, QuietErrorStep
<1>7. ASSUME NEW c \in Clients, Timeout(c) PROVE RekorInv'
  BY <1>7, TimeoutStep
<1>8. ASSUME NEW o \in orphans, SequenceOrphan(o[1], o[2]) PROVE RekorInv'
  BY <1>8, SequenceOrphanStep
<1>9. ASSUME Integrate PROVE RekorInv'
  BY <1>9, IntegrateStep
<1>10. ASSUME NEW s \in Servers, Crash(s) PROVE RekorInv'
  BY <1>10, CrashStep
<1>11. ASSUME NEW s \in Servers, NEW n \in 1 .. integrated, Publish(s, n) PROVE RekorInv'
  BY <1>11, PublishStep
<1>12. ASSUME UNCHANGED vars PROVE RekorInv'
  <2>1. UNCHANGED <<log, integrated, checkpoint, client, orphans>>
    BY <1>12 DEF vars, logVars
  <2>2. LogRight /\ QueueRight /\ CheckpointRight
    BY DEF RekorInv
  <2>3. LogRight' /\ Grows
    BY <2>1, <2>2, SameLog
  <2>4. QueueRight' /\ CheckpointRight'
    BY <2>1, <2>2, <2>3, SameCheckpoint DEF QueueRight
  <2> QED
    BY <2>1, <2>3, <2>4, WorkerStep
<1> QED
  BY <1>1, <1>2, <1>3, <1>4, <1>5, <1>6, <1>7, <1>8, <1>9, <1>10, <1>11, <1>12 DEF Next

-----------------------------------------------------------------------------
(* The theorems                                                             *)

\* Whatever clients, servers and the storage do, the log holds each accepted
\* submission at most once, and what a client was told is true of it.
THEOREM RekorInvariant == Spec => []RekorInv
<1>1. Init => RekorInv
  BY InitInv
<1>2. RekorInv /\ [Next]_vars => RekorInv'
  BY NextInv
<1> QED
  BY <1>1, <1>2, PTL DEF Spec

\* canonical_entry lets nothing into the log whose signature, digest and key do
\* not agree with the key details that the entry states.
THEOREM AlwaysVerify == Spec => []LoggedEntriesVerify
<1>1. RekorInv => LoggedEntriesVerify
  <2> SUFFICES ASSUME RekorInv, NEW k \in DOMAIN log PROVE EntryVerifies(log[k])
    BY DEF LoggedEntriesVerify, EntryVerifies
  <2>1. log \in Seq({EntryFor(m) : m \in {n \in Submissions : Loggable(n)}})
    BY DEF RekorInv, LogRight
  <2>2. PICK m \in Submissions : Loggable(m) /\ log[k] = EntryFor(m)
    BY <2>1
  <2> QED
    BY <2>2, GoodVerifies
<1> QED
  BY <1>1, RekorInvariant, PTL

\* What a proof commits to.
LEMMA ProofFields ==
    ASSUME NEW index, NEW size
    PROVE  LET proof == InclusionProof(index, size)
           IN proof.index = index /\ proof.size = size /\ proof.leaves = SubSeq(log, 1, size)
<1>1. ASSUME NEW leaves
      PROVE  LET proof == [index |-> index, size |-> size, leaves |-> leaves]
             IN proof.index = index /\ proof.size = size /\ proof.leaves = leaves
  OBVIOUS
<1> QED
  BY <1>1 DEF InclusionProof

\* A 201 convinces whoever knows the public key of the log ID in it, although
\* servers with other keys replace the checkpoint object at any time.
THEOREM AlwaysProven == Spec => []CreatedIsProven
<1>1. RekorInv => CreatedIsProven
  <2> SUFFICES ASSUME RekorInv, NEW c \in Clients, client[c].answer.code = 201,
                      NEW a, a = client[c].answer, NEW note, note = FromText(Envelope(a.envelope))
               PROVE  /\ Verify(LogConfig(Origin, a.logId), note)
                      /\ a.proof.size = note.checkpoint.size
                      /\ VerifyInclusionProof(a.canonicalizedBody, a.proof, note.checkpoint.root_hash)
                      /\ VerifyCosignature(LogConfig(Origin, WitnessSigner), note.signatures[2],
                                           ToBody(note.checkpoint))
                      /\ a.index < Len(log) /\ log[a.index + 1] = a.canonicalizedBody
    BY DEF CreatedIsProven
  <2>1. PICK m, x : m = client[c].submission /\ x = a.envelope
    OBVIOUS
  <2>2. LogRight /\ AnswerRight(a, m)
    BY <2>1 DEF RekorInv, ClientRight
  <2>3. /\ At(a.index, EntryFor(m)) /\ a.canonicalizedBody = EntryFor(m)
        /\ Stands(x) /\ a.index < x.size /\ a.logId = SignerOf[x.by]
        /\ a.proof = InclusionProof(a.index, x.size)
    BY <2>1, <2>2 DEF AnswerRight
  <2>4. note = NoteOf(x)
    BY <2>1, NoteRoundTrip
  <2>5. NoteOf(x).checkpoint.size = x.size /\ NoteOf(x).checkpoint.root_hash = SubSeq(log, 1, x.size)
    BY DEF NoteOf, CheckpointOf, Checkpoint
  <2>6. a.index \in 0 .. Len(log) - 1 /\ log[a.index + 1] = a.canonicalizedBody
    BY <2>3 DEF At
  <2>7. /\ a.proof.index = a.index /\ a.proof.size = x.size
        /\ a.proof.leaves = SubSeq(log, 1, x.size)
    BY <2>3, ProofFields
  <2>8. SubSeq(log, 1, x.size)[a.index + 1] = log[a.index + 1]
    <3>1. Len(log) \in Nat /\ x.size \in 1 .. Len(log) /\ a.index + 1 \in 1 .. x.size
      BY <2>2, <2>3, <2>6 DEF LogRight, Stands
    <3>2. SubSeq(log, 1, x.size) = [k \in 1 .. x.size |-> log[k]]
      BY <2>2, <3>1 DEF LogRight
    <3> QED
      BY <3>1, <3>2
  <2>9. VerifyInclusionProof(a.canonicalizedBody, a.proof, note.checkpoint.root_hash)
    BY <2>4, <2>5, <2>6, <2>7, <2>8 DEF VerifyInclusionProof
  <2>10. /\ Verify(LogConfig(Origin, a.logId), note)
         /\ VerifyCosignature(LogConfig(Origin, WitnessSigner), note.signatures[2], ToBody(note.checkpoint))
    BY <2>3, <2>4, NoteVerifies DEF Stands
  <2>11. a.index < Len(log)
    BY <2>2, <2>6 DEF LogRight
  <2> QED
    BY <2>4, <2>5, <2>6, <2>7, <2>9, <2>10, <2>11
<1> QED
  BY <1>1, RekorInvariant, PTL

\* Clients are told one index if and only if they submitted the same, however
\* they encoded it and however often they had to submit it.
THEOREM OneIndex == Spec => []OneIndexPerSubmission
<1>1. RekorInv => OneIndexPerSubmission
  <2> SUFFICES ASSUME RekorInv, NEW c \in Clients, NEW d \in Clients, Told(c), Told(d)
               PROVE  client[c].answer.index = client[d].answer.index
                        <=> client[c].submission = client[d].submission
    BY DEF OneIndexPerSubmission
  <2>1. PICK i, j, m, n : /\ i = client[c].answer.index /\ m = client[c].submission
                          /\ j = client[d].answer.index /\ n = client[d].submission
    OBVIOUS
  <2>2. Loggable(m) /\ At(i, EntryFor(m)) /\ Loggable(n) /\ At(j, EntryFor(n))
    BY <2>1 DEF RekorInv, ClientRight, AnswerRight, Told
  <2>3. /\ Len(log) \in Nat
        /\ \A k, l \in 1 .. Len(log) : log[k] = log[l] => k = l
    BY DEF RekorInv, LogRight
  <2>4. /\ i \in Int /\ i + 1 \in 1 .. Len(log) /\ log[i + 1] = EntryFor(m)
        /\ j \in Int /\ j + 1 \in 1 .. Len(log) /\ log[j + 1] = EntryFor(n)
    BY <2>2, <2>3 DEF At
  <2>5. ASSUME i = j PROVE m = n
    BY <2>2, <2>4, <2>5, EntryInjective
  <2>6. ASSUME m = n PROVE i = j
    <3>1. i + 1 = j + 1
      BY <2>3, <2>4, <2>6
    <3> QED
      BY <2>4, <3>1
  <2> QED
    BY <2>1, <2>5, <2>6
<1> QED
  BY <1>1, RekorInvariant, PTL
=============================================================================
