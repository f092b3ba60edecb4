--------------------------- MODULE MCMessageTree ---------------------------
(* Instances of MessageTree for TLC: node ids other than the root's are     *)
(* alike.                                                                   *)
EXTENDS MessageTree, TLC

Symmetry == Permutations(Node \ {Root})
=============================================================================
