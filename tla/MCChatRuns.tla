----------------------------- MODULE MCChatRuns -----------------------------
(* Small instances of ChatRuns for TLC: every run addresses one thread. *)
EXTENDS ChatRuns, TLC

CONSTANT t1

MCThread == {t1}
MCThreadOf == [r \in Run |-> t1]

\* Runs are interchangeable, and so are processes.
Symmetry == Permutations(Run) \union Permutations(Instance)
=============================================================================
