---------------------------- MODULE MCDispatches ----------------------------
(* Instances of Dispatches for TLC: one branch of the hierarchy, six levels *)
(* deep, of which requests name the Prant, one Vibhag and one Gram.         *)
EXTENDS Dispatches, TLC

CONSTANTS null, prant, vibhag, jila, khand, mandal, gram, i1

MCNodes  == {prant, vibhag, jila, khand, mandal, gram}
MCChain  == <<prant, vibhag, jila, khand, mandal, gram>>
MCRank   == [n \in MCNodes |-> CHOOSE k \in 1..6 : MCChain[k] = n]
MCParent == [n \in MCNodes |-> IF MCRank[n] = 1 THEN null ELSE MCChain[MCRank[n] - 1]]
MCPoints == {prant, vibhag, gram}
MCCopies == [i \in {i1} |-> 2]

Symmetry == Permutations(Procs) \cup Permutations(Details)
=============================================================================
