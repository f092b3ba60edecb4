-------------------------- MODULE MCDocumentPanel --------------------------
(* Instances of DocumentPanel for TLC: documents and writes are alike.      *)
EXTENDS DocumentPanel, TLC

Symmetry == Permutations(Doc) \union Permutations(Request \ AgentWrite)
=============================================================================
