--------------------------- MODULE MCFilterBlocks ---------------------------
(***************************************************************************)
(* The filter's own state, and every manifold of up to four fields, with   *)
(* an S2 in front of what the program has before its only one.              *)
(***************************************************************************)
EXTENDS FilterBlocks

MCLayouts == {StateIkfom} \cup UNION {[1 .. n -> Kinds] : n \in 2 .. 4}
=============================================================================
