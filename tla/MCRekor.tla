------------------------------- MODULE MCRekor -------------------------------
(* A small instance of Rekor for TLC.                                       *)
EXTENDS Rekor, TLC

CONSTANTS s1, s2, c1, c2, k1, k2

MCSignerOf == s1 :> Signer("log", k1) @@ s2 :> Signer("log", k2)

\* The hardest case for telling signatures apart: the witness has the name and
\* the key of one server's log signer.
MCWitnessSigner == Signer("log", k1)

Standard == [alphabet |-> "standard", padded |-> TRUE, numeric |-> FALSE]
UrlSafe  == [alphabet |-> "url_safe", padded |-> FALSE, numeric |-> TRUE]
MCEncodings == {Standard, UrlSafe}

P256 == [oid |-> "ec", params |-> "P-256", bits |-> 0, key |-> "ec key", type |-> "PKIX_ECDSA_P256_SHA_256"]
Rsa3072 == [oid |-> "rsa", params |-> "null", bits |-> 3072, key |-> "rsa key", type |-> "PKIX_RSA_PKCS1V15_3072_SHA256"]

Key(spki, len) == [is_der |-> TRUE, spki |-> spki, len |-> len]
Artifact == [len |-> 32, of |-> "artifact"]
Signed(spki, details) ==
    [digest |-> Artifact, sig |-> [by |-> spki.key, scheme |-> Scheme(details), over |-> Artifact],
     public_key |-> {Key(spki, 1)}, x509_certificate |-> {}, details |-> details,
     authorized |-> TRUE]

\* One signature, with the bare key and with a certificate of that key; an RSA
\* key under the name of another size; both kinds of material at once.
ByKey  == Signed(P256, P256.type)
ByCert == [ByKey EXCEPT !.public_key = {}, !.x509_certificate = {Key(P256, 2)}]
Mislabelled == Signed(Rsa3072, "PKIX_RSA_PKCS1V15_2048_SHA256")
Both == [ByKey EXCEPT !.x509_certificate = {Key(P256, 2)}]
MCContent == [byKey |-> ByKey, byCert |-> ByCert, mislabelled |-> Mislabelled, both |-> Both,
              unauthorized |-> [ByKey EXCEPT !.authorized = FALSE]]
MCSubmissions == DOMAIN MCContent

\* The clients submit the same, or the same signature in different ways, or one
\* of them something that is refused.
MCMaySubmit == c1 :> {"byKey", "both", "unauthorized"} @@ c2 :> {"byKey", "byCert", "mislabelled"}
=============================================================================
