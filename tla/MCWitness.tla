------------------------------ MODULE MCWitness ------------------------------
(* A small instance of Witness for TLC: heads are lists of leaves.          *)
EXTENDS Witness, TLC, Sequences, SequencesExt

CONSTANTS l1, l2, a, b, h1, h2, BadEmpty

\* Forks at sizes 1 and 2, a tree of size 3, and a head of size 0 whose root is
\* not that of the empty tree.
MCHeads == {<<>>, <<a>>, <<b>>, <<a, a>>, <<a, b>>, <<a, b, a>>, <<BadEmpty>>}
MCSizeOf == [h \in MCHeads |-> IF h = <<BadEmpty>> THEN 0 ELSE Len(h)]
MCEmptyHead == <<>>
MCExtends(g, h) == (g = h) \/ (BadEmpty \notin Range(g) \cup Range(h) /\ IsPrefix(g, h))
MCSigned == (l1 :> MCHeads) @@ (l2 :> {<<>>, <<b>>})

\* Any old size up to 3, without a proof, with a proof from a head of that size,
\* or with a proof that belongs to other heads.
MCRequests ==
    {r \in [origin : {l1}, head : MCHeads, old_size : 0 .. 3,
            proof : {<<>>, <<<<a>>, <<a, a>>>>} \cup {<<g, h>> \in MCHeads \X MCHeads : Len(g) < Len(h)}] :
        r.proof # <<>> => (MCSizeOf[r.proof[1]] = r.old_size /\ r.proof[2] = r.head) \/ r.proof[2] = <<a, a>>}
    \cup {[origin |-> l2, head |-> h, old_size |-> 0, proof |-> <<>>] : h \in {<<>>, <<a>>, <<b>>}}
=============================================================================
