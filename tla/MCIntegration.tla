---------------------------- MODULE MCIntegration ----------------------------
(* A small instance of Integration for TLC.                                 *)
EXTENDS Integration, TLC

CONSTANTS w1, w2, a, b, c, d

MCEntryAt == (0 :> a) @@ (1 :> b) @@ (2 :> c) @@ (3 :> d)
=============================================================================
