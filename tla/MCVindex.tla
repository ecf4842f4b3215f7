------------------------------ MODULE MCVindex ------------------------------
(* Small instances of Vindex for TLC.                                       *)
EXTENDS Vindex, TLC

CONSTANTS k1, k2

\* Entries with one key, with none, with both, and one that the limit of two
\* indices per key refuses.
MCKeysAt(i) == CASE i = 1 -> {} [] i = 2 -> {k1, k2} [] OTHER -> {k1}
=============================================================================
