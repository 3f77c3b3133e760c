---------------------------- MODULE MCAssignments ----------------------------
(* Instances of Assignments for TLC: designations of the node's level and of another. *)
EXTENDS Assignments, TLC

CONSTANT gram

MCLevel  == gram :> "Gram"
MCChanging == Subjects \ {<<"user", 1>>}
Symmetry == Permutations(Procs)
=============================================================================
