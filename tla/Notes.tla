-------------------------------- MODULE Notes --------------------------------
(***************************************************************************)
(* Checkpoints as signed notes (src/checkpoint/signer.rs) and their        *)
(* verification (src/witness/verifier.rs): what a log and a witness sign,  *)
(* how signature lines are written and read, and which signatures count    *)
(* as the log's and which as a witness's.                                  *)
(*                                                                         *)
(* Signatures are symbolic and unforgeable; key IDs, four bytes of a hash  *)
(* in the code, do not collide. A text is the lines of its body and of its *)
(* signatures.                                                             *)
(***************************************************************************)
EXTENDS Integers, Sequences

ALG_ED25519        == 1
ALG_COSIGNATURE_V1 == 4

\* compute_key_id_with_alg.
KeyId(name, key, alg) == <<name, key, alg>>

\* CheckpointSigner, with the name and the key of a note-format private key.
Signer(name, key) == [name |-> name, key |-> key, key_id |-> KeyId(name, key, ALG_ED25519)]

Checkpoint(origin, size, root_hash) == [origin |-> origin, size |-> size, root_hash |-> root_hash]

\* Checkpoint::to_body.
ToBody(cp) == <<cp.origin, cp.size, cp.root_hash>>

cosignature_v1_message(timestamp, body) == <<"cosignature/v1", <<"time", timestamp>>>> \o body

Sign(key, message) == [signed_by |-> key, message |-> message]
VerifyStrict(key, message, signature) == signature = Sign(key, message)

\* An optional timestamp is a sequence of at most one.
CheckpointSignature(name, key_id, timestamp, signature) ==
    [name |-> name, key_id |-> key_id, timestamp |-> timestamp, signature |-> signature]

\* The plain signature of a log, and cosign_v1.
PlainSignature(signer, cp) ==
    CheckpointSignature(signer.name, signer.key_id, <<>>, Sign(signer.key, ToBody(cp)))
CosignV1(signer, cp, timestamp) ==
    CheckpointSignature(signer.name, KeyId(signer.name, signer.key, ALG_COSIGNATURE_V1), <<timestamp>>,
                        Sign(signer.key, cosignature_v1_message(timestamp, ToBody(cp))))

\* CheckpointSignature::to_line and from_line: a blob with three fields has a
\* timestamp in the middle.
ToLine(s) == [name |-> s.name, blob |-> <<s.key_id>> \o s.timestamp \o <<s.signature>>]
IsSignatureLine(line) == Len(line.blob) \in {2, 3}
FromLine(line) ==
    CheckpointSignature(line.name, line.blob[1],
                        IF Len(line.blob) = 3 THEN <<line.blob[2]>> ELSE <<>>,
                        line.blob[Len(line.blob)])

\* CosignedCheckpoint::new, and a signature added to it.
NewNote(cp, signer) == [checkpoint |-> cp, signatures |-> <<PlainSignature(signer, cp)>>]
AddSignature(note, s) == [note EXCEPT !.signatures = Append(@, s)]

\* CosignedCheckpoint::to_text and from_text. Body lines after the third are
\* dropped, so that they are not part of what is verified.
ToText(note) ==
    [body |-> ToBody(note.checkpoint),
     signatures |-> [k \in DOMAIN note.signatures |-> ToLine(note.signatures[k])]]
IsNote(text) ==
    /\ Len(text.body) >= 3
    /\ text.signatures # <<>>
    /\ \A k \in DOMAIN text.signatures : IsSignatureLine(text.signatures[k])
FromText(text) ==
    [checkpoint |-> Checkpoint(text.body[1], text.body[2], text.body[3]),
     signatures |-> [k \in DOMAIN text.signatures |-> FromLine(text.signatures[k])]]

\* LogConfig: a pinned key; log keys are plain ones.
LogConfig(origin, signer) ==
    [origin |-> origin, key_name |-> signer.name, verifying_key |-> signer.key, key_id |-> signer.key_id]

\* LogConfig::verify_signature: no timestamped signature is a log's.
VerifySignature(config, s, body) ==
    /\ s.timestamp = <<>> /\ s.key_id = config.key_id /\ s.name = config.key_name
    /\ VerifyStrict(config.verifying_key, body, s.signature)

\* LogConfig::verify_cosignature.
VerifyCosignature(config, s, body) ==
    LET stamped == s.timestamp # <<>>
        alg == IF stamped THEN ALG_COSIGNATURE_V1 ELSE ALG_ED25519
    IN /\ s.key_id = KeyId(config.key_name, config.verifying_key, alg) /\ s.name = config.key_name
       /\ VerifyStrict(config.verifying_key,
                       IF stamped THEN cosignature_v1_message(s.timestamp[1], body) ELSE body,
                       s.signature)

\* CheckpointVerifier::verify.
Verify(config, note) ==
    /\ note.checkpoint.origin = config.origin
    /\ \E k \in DOMAIN note.signatures :
        VerifySignature(config, note.signatures[k], ToBody(note.checkpoint))
=============================================================================
