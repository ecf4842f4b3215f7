---------------------------- MODULE MCPrefixTree ----------------------------
(* A small instance of PrefixTree for TLC.                                  *)
EXTENDS PrefixTree

\* Keys of three bytes of two bits that part at every bit, within a byte and at
\* its end: single keys from each other, and keys from whole subtrees.
MCKeys == {<<0, 0, 0>>, <<0, 0, 1>>, <<0, 0, 3>>, <<0, 1, 2>>, <<0, 2, 1>>, <<1, 3, 3>>, <<2, 1, 0>>, <<3, 3, 1>>}
=============================================================================
