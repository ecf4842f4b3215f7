----------------------------- MODULE MerkleProof -----------------------------
(***************************************************************************)
(* Hashes as terms, the tree head of RFC 6962, and the verification of     *)
(* consistency proofs (src/witness/proof.rs).                              *)
(*                                                                         *)
(* A hash is the term it is computed from: <<x>> for a leaf, <<l, r>> for  *)
(* an inner node. Two terms are equal iff they are the same term, which is *)
(* collision resistance. The three constants below have other lengths.     *)
(***************************************************************************)
EXTENDS Naturals, Sequences

CONSTANT SizeBits   \* bits of a tree size, 64 in the code

\* What the proofs use of exponentiation, of which the prover knows nothing.
ASSUME PowersOfTwo ==
    /\ SizeBits \in Nat /\ 2 ^ 0 = 1
    /\ \A l \in 0 .. SizeBits - 1 : 2 ^ l \in Nat \ {0} /\ 2 ^ (l + 1) = 2 * 2 ^ l

HashLeaf(x)   == <<x>>
ZeroHash      == <<>>             \* [0u8; 32], the padding of a tile
EmptyRootHash == <<0, 0, 0>>      \* the hash of the empty string
Failed        == <<0, 0, 0, 0>>   \* Err(_), passed on by the operator ?

hash_children(l, r) == IF Failed \in {l, r} THEN Failed ELSE <<l, r>>

-----------------------------------------------------------------------------
(* Powers of two                                                            *)

IsPowerOfTwo(n) == \E l \in 0 .. SizeBits - 1 : 2 ^ l = n
\* trailing_zeros, of a power of two.
Log2(n)         == CHOOSE l \in 0 .. SizeBits - 1 : 2 ^ l = n
\* SizeBits - leading_zeros.
BitLength(n)    == CHOOSE l \in 0 .. SizeBits : n < 2 ^ l /\ (l = 0 \/ 2 ^ (l - 1) <= n)

largest_power_of_2_less_than(n) ==
    IF n <= 1 THEN 0 ELSE 2 ^ (BitLength(n - 1) - 1)

-----------------------------------------------------------------------------
(* The reference: the tree head of a sequence of leaves, RFC 6962, 2.1      *)

\* "The largest power of two smaller than n."
Split(n) == CHOOSE k \in 1 .. n - 1 : IsPowerOfTwo(k) /\ n <= 2 * k

\* The hash over n leaves after the first ones.
TreeHash(leaves) ==
    LET hash[n \in 0 .. Len(leaves)] ==
            [first \in 0 .. Len(leaves) - n |->
                IF n = 0 THEN EmptyRootHash
                ELSE IF n = 1 THEN HashLeaf(leaves[first + 1])
                ELSE <<hash[Split(n)][first], hash[n - Split(n)][first + Split(n)]>>]
    IN hash

MTH(leaves) == TreeHash(leaves)[Len(leaves)][0]

-----------------------------------------------------------------------------
(* verify_consistency                                                       *)

subproof_length(old_size, new_size) ==
    LET length[n \in 1 .. new_size] ==
            [complete \in BOOLEAN |-> [m \in 1 .. n |->
                LET k == largest_power_of_2_less_than(n)
                IN IF m = n THEN IF complete THEN 0 ELSE 1
                   ELSE IF m <= k THEN length[k][complete][m] + 1
                   ELSE 1 + length[n - k][FALSE][m - k]]]
    IN length[new_size][TRUE][old_size]

proof_length(old_size, new_size) ==
    CASE old_size \in {0, new_size} -> 0
      [] old_size \notin {0, new_size} /\ IsPowerOfTwo(old_size) ->
            BitLength(new_size - 1) - Log2(old_size)
      [] OTHER -> subproof_length(old_size, new_size)

\* verify_power_of_2: the old tree is the leftmost subtree, every proof element a
\* right sibling. The loops differ in when they stop, not in what they compute.
Climb(sr, proof) ==
    LET climbed[j \in 0 .. Len(proof)] ==
            IF j = 0 THEN sr ELSE hash_children(climbed[j - 1], proof[j])
    IN climbed
Climbed(sr, proof) == Climb(sr, proof)[Len(proof)]

\* verify_subproof: the pair of hashes computed, and how many proof elements were
\* taken; Failed in place of the hashes when the proof is too short.
Short(proof) == [old |-> Failed, new |-> Failed, idx |-> Len(proof)]

\* What a call returns after the call for the left or the right half.
Joined(proof, left, sub) ==
    LET hash == proof[sub.idx + 1]
    IN IF sub.idx >= Len(proof) THEN Short(proof)
       ELSE IF left
       THEN [old |-> sub.old, new |-> hash_children(sub.new, hash), idx |-> sub.idx + 1]
       ELSE [old |-> hash_children(hash, sub.old), new |-> hash_children(hash, sub.new),
             idx |-> sub.idx + 1]

\* The call for every n up to a size, complete and m. A call goes down before it
\* takes an element, so that every call finds idx at 0.
Subproofs(proof, size) ==
    LET verify[n \in 1 .. size] ==
            [complete \in BOOLEAN |-> [m \in 1 .. n |->
                LET k == largest_power_of_2_less_than(n)
                IN IF m = n
                   THEN IF complete \/ proof = <<>> THEN Short(proof)
                        ELSE [old |-> proof[1], new |-> proof[1], idx |-> 1]
                   ELSE IF m <= k THEN Joined(proof, TRUE, verify[k][complete][m])
                   ELSE Joined(proof, FALSE, verify[n - k][FALSE][m - k])]]
    IN verify
verify_subproof(m, n, proof) == Subproofs(proof, n)[n][TRUE][m]

\* Mutant: the computed old root is not compared.
OldRootIgnored(computed, old_root) == computed # Failed
OldRootMatches(computed, old_root) == computed = old_root

verify_consistency_inner(old_size, new_size, old_root, new_root, proof) ==
    IF IsPowerOfTwo(old_size)
    THEN Climbed(old_root, proof) = new_root
    ELSE LET v == verify_subproof(old_size, new_size, proof)
         IN v.idx = Len(proof) /\ OldRootMatches(v.old, old_root) /\ v.new = new_root

verify_consistency(old_size, new_size, old_root, new_root, proof) ==
    /\ old_size <= new_size
    /\ CASE old_size = new_size -> proof = <<>> /\ old_root = new_root
         [] old_size = 0 /\ new_size # 0 -> proof = <<>> /\ old_root = EmptyRootHash
         [] OTHER ->
              /\ Len(proof) = proof_length(old_size, new_size)
              /\ verify_consistency_inner(old_size, new_size, old_root, new_root, proof)

-----------------------------------------------------------------------------
(* sigstore_merkle::verify_inclusion_proof: the root that a leaf and its    *)
(* path, ordered from the leaf up, lead to.                                 *)

\* The hash of the tree of n leaves that has the leaf at i, by the first len
\* elements of the path.
Paths(leaf, size, path) ==
    LET hash[n \in 1 .. size] ==
            [i \in 0 .. n - 1 |-> [len \in 0 .. Len(path) |->
                LET k == largest_power_of_2_less_than(n)
                IN IF n = 1 THEN IF len = 0 THEN leaf ELSE Failed
                   ELSE IF len = 0 THEN Failed
                   ELSE IF i < k THEN hash_children(hash[k][i][len - 1], path[len])
                   ELSE hash_children(path[len], hash[n - k][i - k][len - 1])]]
    IN hash
RootOfPath(leaf, i, n, path) == Paths(leaf, n, path)[n][i][Len(path)]
=============================================================================
