--------------------------- MODULE MCPublishIssues ---------------------------
(* Instances of PublishIssues for TLC: two issue numbers that differ only in *)
(* case.                                                                     *)
EXTENDS PublishIssues, TLC

CONSTANTS a, A

MCNumbers == {a, A}
MCFolded  == [n \in MCNumbers |-> a]
Symmetry  == Permutations(Procs)
=============================================================================
