----------------------------- MODULE MCReassembly -----------------------------
(* Instances of Reassembly for TLC. *)
EXTENDS Reassembly, TLC

CONSTANTS big, mid, small, s1, s2

(* The longest frame there is, of eleven 7-byte chunks, and frames of      *)
(* three and two: two lengths are needed for a mixture that does not       *)
(* parse, three chunks for one that does after one chunk was replaced.     *)
Sizes == (big :> 75) @@ (mid :> 16) @@ (small :> 11)

TwoSenders == (big :> s1) @@ (mid :> s2) @@ (small :> s2)
===============================================================================
