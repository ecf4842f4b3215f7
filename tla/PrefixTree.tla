----------------------------- MODULE PrefixTree -----------------------------
(***************************************************************************)
(* The Merkle prefix tree of the verifiable index                          *)
(* (src/vindex/prefix_tree.rs): a path-compressed binary tree over the     *)
(* bits of the keys, with a cached hash in every internal node, and the    *)
(* proofs that lookups take from it.                                       *)
(*                                                                         *)
(* A label is kept in bytes, the bits after its last one zeroed, because   *)
(* the bytes are what is hashed; here a byte has ByteBits bits, so that    *)
(* short keys already span several. Hashes are symbolic: a hash is the     *)
(* sequence it was computed from.                                          *)
(***************************************************************************)
EXTENDS Integers, Sequences, FiniteSets, SequencesExt, FiniteSetsExt

CONSTANTS
    ByteBits,   \* bits of a byte, 8 in the code
    KeyBytes,   \* bytes of a key, 32 in the code
    Keys,       \* the keys that may be inserted: sequences of bytes
    Values      \* value hashes

Bytes == 0 .. 2 ^ ByteBits - 1

ASSUME PrefixTreeAssumption ==
    /\ ByteBits \in Nat \ {0} /\ KeyBytes \in Nat \ {0}
    /\ Keys \subseteq [1 .. KeyBytes -> Bytes]

VARIABLES
    root,       \* PrefixTree.root
    map         \* history: the value last inserted under each key

vars == <<root, map>>

-----------------------------------------------------------------------------
(* Label                                                                    *)

FromKey(key) == [bytes |-> key, bit_len |-> KeyBytes * ByteBits]

\* Bits are numbered from the most significant one of the first byte.
Shift(i) == ByteBits - 1 - (i % ByteBits)
Bit(label, i) == (label.bytes[i \div ByteBits + 1] \div 2 ^ Shift(i)) % 2

\* Mutant: the bits after the prefix stay in its last byte.
Unmasked(byte, bits) == byte
\* The first bits of a byte, the others zeroed.
Masked(byte, bits) == byte - (byte % 2 ^ (ByteBits - bits))

Prefix(label, len) ==
    LET full == len \div ByteBits
        rest == len % ByteBits
    IN IF len >= label.bit_len THEN label
       ELSE [bytes |-> SubSeq(label.bytes, 1, full)
                       \o IF rest > 0 THEN <<Masked(label.bytes[full + 1], rest)>> ELSE <<>>,
             bit_len |-> len]

\* A label that ends with a byte gets a new one; the bit is or-ed in.
AppendBit(label, bit) ==
    LET i == label.bit_len
        idx == i \div ByteBits + 1
        bytes == IF idx > Len(label.bytes) THEN Append(label.bytes, 0) ELSE label.bytes
    IN [bytes |-> IF bit = 1 /\ Bit([bytes |-> bytes], i) = 0 THEN [bytes EXCEPT ![idx] = @ + 2 ^ Shift(i)] ELSE bytes,
        bit_len |-> i + 1]

CommonPrefixLen(a, b) ==
    LET len == Min({a.bit_len, b.bit_len})
        differ == {i \in 0 .. len - 1 : Bit(a, i) # Bit(b, i)}
    IN IF differ = {} THEN len ELSE Min(differ)

IsPrefixOf(a, b) == a.bit_len <= b.bit_len /\ CommonPrefixLen(a, b) = a.bit_len

-----------------------------------------------------------------------------
(* Node                                                                     *)

Empty == [type |-> "Empty"]
Leaf(key, value_hash) == [type |-> "Leaf", key |-> key, value_hash |-> value_hash]

ZeroHash == <<>>

Hash(node) ==
    CASE node.type = "Empty"    -> ZeroHash
      [] node.type = "Leaf"     -> <<0, node.key.bytes, node.value_hash>>
      [] node.type = "Internal" -> node.hash

compute_internal_hash(prefix, left, right) == <<1, prefix.bit_len, prefix.bytes, Hash(left), Hash(right)>>

\* A new internal node: the child that goes to the side of bit, and the other one.
Internal(prefix, bit, child, other) ==
    LET left == IF bit = 0 THEN child ELSE other
        right == IF bit = 0 THEN other ELSE child
    IN [type |-> "Internal", prefix |-> prefix, left |-> left, right |-> right,
        hash |-> compute_internal_hash(prefix, left, right)]

\* The children of an internal node on the side of bit, and on the other one.
Child(node, bit) == IF bit = 0 THEN node.left ELSE node.right
Sibling(node, bit) == IF bit = 0 THEN node.right ELSE node.left

\* A leaf with another key, or a subtree whose prefix the key leaves, moves below
\* a new node for what they have in common.
Split(node, label, key, value_hash) ==
    LET len == CommonPrefixLen(key, label)
    IN Internal(Prefix(key, len), Bit(key, len), Leaf(key, value_hash), node)

RECURSIVE insert_rec(_, _, _)
insert_rec(node, key, value_hash) ==
    CASE node.type = "Empty" -> Leaf(key, value_hash)
      [] node.type = "Leaf" ->
            IF node.key = key THEN Leaf(key, value_hash) ELSE Split(node, node.key, key, value_hash)
      [] node.type = "Internal" ->
            IF CommonPrefixLen(key, node.prefix) < node.prefix.bit_len
            THEN Split(node, node.prefix, key, value_hash)
            ELSE LET bit == Bit(key, node.prefix.bit_len)
                 IN Internal(node.prefix, bit, insert_rec(Child(node, bit), key, value_hash), Sibling(node, bit))

ProofNode(label, node) == [label_bit_len |-> label.bit_len, label_path |-> label.bytes, hash |-> Hash(node)]

\* Mutant: the sibling is given the label of the node on the path.
PathLabel(prefix, bit) == AppendBit(prefix, bit)
SiblingLabel(prefix, bit) == AppendBit(prefix, 1 - bit)

RECURSIVE lookup_rec(_, _, _)
lookup_rec(node, key, proof) ==
    CASE node.type = "Empty" -> [found |-> FALSE, proof |-> proof]
      [] node.type = "Leaf" -> [found |-> node.key = key, proof |-> proof]
      [] node.type = "Internal" ->
            IF ~IsPrefixOf(node.prefix, key) THEN [found |-> FALSE, proof |-> proof]
            ELSE LET bit == Bit(key, node.prefix.bit_len)
                     sibling == Sibling(node, bit)
                 IN lookup_rec(Child(node, bit), key,
                        IF sibling = Empty THEN proof
                        ELSE Append(proof, ProofNode(SiblingLabel(node.prefix, bit), sibling)))

RECURSIVE count_keys(_)
count_keys(node) ==
    CASE node.type = "Empty" -> 0
      [] node.type = "Leaf" -> 1
      [] node.type = "Internal" -> count_keys(node.left) + count_keys(node.right)

-----------------------------------------------------------------------------
Init == root = Empty /\ map = [k \in {} |-> 0]

\* PrefixTree::insert, which the index calls for every key of an entry, and for
\* every key in any order when it is rebuilt.
Insert(key, value_hash) ==
    /\ root' = insert_rec(root, FromKey(key), value_hash)
    /\ map' = [k \in DOMAIN map \cup {key} |-> IF k = key THEN value_hash ELSE map[k]]

Next == \E key \in Keys, value_hash \in Values : Insert(key, value_hash)

Spec == Init /\ [][Next]_vars

-----------------------------------------------------------------------------
(* Properties                                                               *)

\* The bits of a key, and the bytes of a string of bits padded with zeros.
BitsOf(key) == [i \in 1 .. KeyBytes * ByteBits |-> Bit(FromKey(key), i - 1)]
Packed(bits) ==
    [j \in 1 .. (Len(bits) + ByteBits - 1) \div ByteBits |->
        MapThenSumSet(LAMBDA i : bits[i] * 2 ^ Shift(i - 1),
                      {i \in DOMAIN bits : (i - 1) \div ByteBits = j - 1})]

\* The hash that stands for a set of keys with their values: that of a leaf, or
\* of the longest prefix the keys share over the hashes of the two halves.
RECURSIVE HashOf(_)
HashOf(keys) ==
    IF keys = {} THEN ZeroHash
    ELSE LET some == CHOOSE k \in keys : TRUE
             shared == LongestCommonPrefix({BitsOf(k) : k \in keys})
             half(b) == {k \in keys : BitsOf(k)[Len(shared) + 1] = b}
         IN IF Cardinality(keys) = 1 THEN <<0, some, map[some]>>
            ELSE <<1, Len(shared), Packed(shared), HashOf(half(0)), HashOf(half(1))>>

\* The root hash is a function of the keys and their values, by a definition that
\* knows nothing of insertions: a tree rebuilt from disk, in the order of the
\* recovered map, has the root that was handed out before, and no update leaves a
\* stale hash behind.
RootIsOfMap == Hash(root) = HashOf(DOMAIN map)

\* What a verifier recomputes from a key, its value and the proof: the label of a
\* sibling, without its last bit, is the prefix of their parent.
RootFrom(key, value_hash, proof) ==
    FoldRight(LAMBDA node, hash :
                LET label == [bytes |-> node.label_path, bit_len |-> node.label_bit_len]
                    last == node.label_bit_len - 1
                    parent == Prefix(label, last)
                IN <<1, last, parent.bytes>> \o
                   IF Bit(label, last) = 1 THEN <<hash, node.hash>> ELSE <<node.hash, hash>>,
              proof, <<0, key, value_hash>>)

\* A lookup finds exactly the keys that were inserted, and for each of them the
\* proof leads from the value last inserted to the root, and from no other value.
LookupProves ==
    /\ count_keys(root) = Cardinality(DOMAIN map)
    /\ \A key \in Keys :
        LET result == lookup_rec(root, FromKey(key), <<>>)
        IN /\ result.found <=> key \in DOMAIN map
           /\ result.found => \A v \in Values :
                RootFrom(key, v, result.proof) = Hash(root) <=> v = map[key]
=============================================================================
