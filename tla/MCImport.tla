------------------------------ MODULE MCImport ------------------------------
(* Small instances of Import for TLC.                                       *)
EXTENDS Import

CONSTANTS i1, i2, a, b, c, d

\* An input that ends in a partial tile, the same with another first entry, and
\* the same with a bad line more.
MCFiles == {<<a, b, c>>, <<d, b, c>>, <<a, b, c, BadLine>>}
=============================================================================
