----------------------------- MODULE MCPublisher -----------------------------
(* Small instances of Publisher for TLC.                                    *)
EXTENDS Publisher

CONSTANTS p1, p2, w1, w2

MCExternals == <<w1, w2>>
=============================================================================
