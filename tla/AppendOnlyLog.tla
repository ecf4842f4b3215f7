---------------------------- MODULE AppendOnlyLog ----------------------------
(***************************************************************************)
(* What a transparency log promises, with no queue, no workers and no      *)
(* storage: entries are appended and never change, and the tree the log    *)
(* commits to is a prefix of the entries that only ever grows.             *)
(*                                                                         *)
(* A list of entries is a function on 0 .. n-1, indexed like LogIndex. A   *)
(* Merkle root is represented by the leaves it commits to: SHA-256 is      *)
(* taken to be collision free, so two roots are equal exactly when the     *)
(* leaves (and so the sizes) are.                                          *)
(***************************************************************************)
EXTENDS Integers, FiniteSets

CONSTANT Entries

VARIABLES
    log,    \* the entries that have an index
    tree    \* the leaves under the latest committed root

Size(f) == Cardinality(DOMAIN f)

Prefix(f, n) == [k \in 0 .. n - 1 |-> f[k]]

Init == log = [k \in {} |-> k] /\ tree = [k \in {} |-> k]

Append(e) ==
    /\ log' = [k \in DOMAIN log \cup {Size(log)} |-> IF k \in DOMAIN log THEN log[k] ELSE e]
    /\ UNCHANGED tree

Grow(n) ==
    /\ n > Size(tree)
    /\ tree' = Prefix(log, n)
    /\ UNCHANGED log

Next ==
    \/ \E e \in Entries : Append(e)
    \/ \E n \in 1 .. Size(log) : Grow(n)

Spec == Init /\ [][Next]_<<log, tree>>
=============================================================================
