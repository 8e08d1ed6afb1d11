------------------------------ MODULE MCFwUpdate ------------------------------
(* Instances of FwUpdate for TLC. *)
EXTENDS FwUpdate, TLC

CONSTANTS f, a, huge

\* The factory image, of two sectors and three chunks, one of a single chunk,
\* and one that does not fit the partition of two sectors.
AllSizes == (f :> 3) @@ (a :> 1) @@ (huge :> 5)
Sizes == [i \in Images |-> AllSizes[i]]
===============================================================================
