----------------------------- MODULE MCSequencer -----------------------------
(* Small instances of Sequencer for TLC.                                    *)
EXTENDS Sequencer, TLC

CONSTANTS p1, p2, r1, r2, r3, a, b

\* Two requests submit the same entry, the third another one.
MCEntryOf == (r1 :> a) @@ (r2 :> a) @@ (r3 :> b)
=============================================================================
