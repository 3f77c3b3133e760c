---------------------------- MODULE MCConsumers ----------------------------
(* Instances of Consumers for TLC: one branch that splits below its Khand. *)
EXTENDS Consumers, TLC

CONSTANTS null, prant, vibhag, jila, khand, m1, m2, g1, g2

MCParent == prant :> null @@ vibhag :> prant @@ jila :> vibhag @@ khand :> jila
            @@ m1 :> khand @@ m2 :> khand @@ g1 :> m1 @@ g2 :> m2
MCNodes == DOMAIN MCParent
MCRank  == prant :> 1 @@ vibhag :> 2 @@ jila :> 3 @@ khand :> 4
           @@ m1 :> 5 @@ m2 :> 5 @@ g1 :> 6 @@ g2 :> 6

At(j, k, m, g) == "jila" :> j @@ "khand" :> k @@ "mandal" :> m @@ "gram" :> g

\* Two places, one that is none, and the branch one level up.
MCPlaces == {At(jila, khand, m1, g1), At(jila, khand, m2, g2),
             At(jila, khand, m2, g1), At(vibhag, jila, khand, m1)}
MCPatches == {<<>>, "gram" :> g1, "mandal" :> m2 @@ "gram" :> g2}

Symmetry == Permutations(Procs) \cup Permutations(Numbers)
=============================================================================
