------------------------------ MODULE MCMonitor ------------------------------
(* A small instance of Monitor for TLC.                                     *)
EXTENDS Monitor, TLC

CONSTANTS p1, p2, l1, l2, a, b, again, swapped, broken

\* again repeats the package of a under another name, swapped replaces the
\* package under the name of a.
MCSha256 == (a :> "s1") @@ (b :> "s2") @@ (again :> "s1") @@ (swapped :> "s3") @@ (broken :> "s4")
MCFilename == (a :> "f1") @@ (b :> "f2") @@ (again :> "f3") @@ (swapped :> "f1") @@ (broken :> "f4")

\* The first log forks and breaks every rule at some point; the second has
\* entries of the first in another order.
MCSigned ==
    (l1 :> {<<a>>, <<b>>, <<a, b>>, <<b, a, again>>, <<a, b, swapped>>, <<a, broken>>})
    @@ (l2 :> {<<>>, <<b, a>>})
=============================================================================
