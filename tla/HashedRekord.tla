---------------------------- MODULE HashedRekord ----------------------------
(***************************************************************************)
(* canonical_entry of the Rekor API (src/api/rekor.rs): from the JSON body *)
(* of a submission to the bytes that are logged, or a refusal.             *)
(*                                                                         *)
(* Byte strings are symbolic values. A body holds every one of them in one *)
(* of the base64 forms ProtoJSON allows, and the key details as a name or  *)
(* as the number of the enumeration.                                       *)
(***************************************************************************)
EXTENDS Integers

\* What each keyDetails demands of the key (algorithm OID, parameters and, for
\* RSA, the size of the modulus) and of the digest.
Algorithms == [
    PKIX_ED25519_PH               |-> [oid |-> "ed25519", params |-> {"absent"}, bits |-> 0, hash |-> "SHA2_512"],
    PKIX_ECDSA_P256_SHA_256       |-> [oid |-> "ec", params |-> {"P-256"}, bits |-> 0, hash |-> "SHA2_256"],
    PKIX_ECDSA_P384_SHA_384       |-> [oid |-> "ec", params |-> {"P-384"}, bits |-> 0, hash |-> "SHA2_384"],
    PKIX_ECDSA_P521_SHA_512       |-> [oid |-> "ec", params |-> {"P-521"}, bits |-> 0, hash |-> "SHA2_512"],
    PKIX_RSA_PKCS1V15_2048_SHA256 |-> [oid |-> "rsa", params |-> {"absent", "null"}, bits |-> 2048, hash |-> "SHA2_256"],
    PKIX_RSA_PKCS1V15_3072_SHA256 |-> [oid |-> "rsa", params |-> {"absent", "null"}, bits |-> 3072, hash |-> "SHA2_256"],
    PKIX_RSA_PKCS1V15_4096_SHA256 |-> [oid |-> "rsa", params |-> {"absent", "null"}, bits |-> 4096, hash |-> "SHA2_256"]]

Numbers == [n \in {5, 8, 9, 10, 11, 12, 13} |->
    CASE n = 5  -> "PKIX_ECDSA_P256_SHA_256"
      [] n = 8  -> "PKIX_ED25519_PH"
      [] n = 9  -> "PKIX_RSA_PKCS1V15_2048_SHA256"
      [] n = 10 -> "PKIX_RSA_PKCS1V15_3072_SHA256"
      [] n = 11 -> "PKIX_RSA_PKCS1V15_4096_SHA256"
      [] n = 12 -> "PKIX_ECDSA_P384_SHA_384"
      [] n = 13 -> "PKIX_ECDSA_P521_SHA_512"]

DigestLength == [SHA2_256 |-> 32, SHA2_384 |-> 48, SHA2_512 |-> 64]

\* The signature scheme a keyDetails stands for. RSA verification takes a key of
\* any size.
Scheme(details) ==
    LET a == Algorithms[details] IN IF a.oid = "rsa" THEN <<"rsa", a.hash>> ELSE <<a.oid, a.params, a.hash>>

-----------------------------------------------------------------------------
\* decode: standard or URL-safe base64, padded or not.
Decodes(text) == text.alphabet \in {"standard", "url_safe"}
Decode(text) == text.bytes

\* publicKey and x509Certificate, of which exactly one must be there and parse. An
\* Option is a set of at most one element.
MaterialOf(v) == v.public_key \cup v.x509_certificate
ValidMaterial(v) ==
    /\ v.public_key = {} <=> v.x509_certificate # {}
    /\ \A t \in MaterialOf(v) : Decodes(t) /\ Decode(t).is_der
Der(v) == Decode(CHOOSE t \in MaterialOf(v) : TRUE)
Kind(v) == IF v.public_key # {} THEN "publicKey" ELSE "x509Certificate"

KnownDetails(v) ==
    IF v.key_details.number THEN v.key_details.value \in DOMAIN Numbers
    ELSE v.key_details.value \in DOMAIN Algorithms
DetailsOf(v) == IF v.key_details.number THEN Numbers[v.key_details.value] ELSE v.key_details.value

\* Mutant: any RSA key will do for any RSA keyDetails.
MatchesButBits(spki, details) ==
    LET a == Algorithms[details] IN spki.oid = a.oid /\ spki.params \in a.params
KeyMatches(spki, details) ==
    LET a == Algorithms[details]
    IN /\ spki.oid = a.oid /\ spki.params \in a.params
       /\ a.oid = "rsa" => spki.bits = a.bits

\* verify_digest and verify_prehashed_strict.
SignatureVerifies(spki, details, digest, sig) ==
    sig = [by |-> spki.key, scheme |-> Scheme(details), over |-> digest]

\* Every check of canonical_entry, in its order; the first that fails is
\* answered with 400.
Acceptable(body, max) ==
    LET v == body.verifier
        digest == Decode(body.digest)
    IN /\ Decodes(body.content) /\ Decodes(body.digest)
       /\ ValidMaterial(v)
       /\ KnownDetails(v)
       /\ KeyMatches(Der(v).spki, DetailsOf(v))
       /\ digest.len = DigestLength[Algorithms[DetailsOf(v)].hash]
       /\ SignatureVerifies(Der(v).spki, DetailsOf(v), digest, Decode(body.content))
       /\ Der(v).len <= max

\* Mutant: the signature is logged as the client wrote it.
KeepsEncoding(body) ==
    [algorithm |-> Algorithms[DetailsOf(body.verifier)].hash, digest |-> Decode(body.digest),
     content |-> body.content, kind |-> Kind(body.verifier), rawBytes |-> Der(body.verifier),
     keyDetails |-> DetailsOf(body.verifier)]

\* The logged entry: re-encoded byte strings and the name of the key details, as
\* JSON with sorted keys.
CanonicalEntry(body) ==
    [algorithm |-> Algorithms[DetailsOf(body.verifier)].hash, digest |-> Decode(body.digest),
     content |-> Decode(body.content), kind |-> Kind(body.verifier), rawBytes |-> Der(body.verifier),
     keyDetails |-> DetailsOf(body.verifier)]
=============================================================================
