----------------------------- MODULE MCHierarchy -----------------------------
(* Instances of Hierarchy for TLC: a and A differ only in case.  The handlers
   that only read the tree are evaluated over one with two branches, for every
   set of active nodes and every two assignments. *)
EXTENDS Hierarchy, TLC

CONSTANTS a, A, b

MCNames  == {a, A, b}
MCFolded == [n \in MCNames |-> IF n = A THEN a ELSE n]
Symmetry == Permutations(Procs) \cup Permutations({a, A})

MCParent == <<0, 1, 2, 3, 2, 0>>
MCRank   == <<1, 2, 3, 4, 3, 1>>

T == INSTANCE TreeQueries
        WITH Nodes <- 1..6, Null <- 0, Parent <- MCParent, Rank <- MCRank

MCOffice == [user : {3, 9}, node : 1..6, active : BOOLEAN]
MCOffices == UNION {[1..k -> MCOffice] : k \in 0..2}

\* The destinations offered are those of create, less what lies behind an
\* inactive node.
ASSUME DestinationsOffered ==
    \A from \in 0..6, active \in SUBSET (1..6) :
        T!OfferedThroughActive(from, active) /\ T!OfferedIsAccepted(from, active)

\* The reporting authority that getReportingCandidates prefers.
ASSUME AuthorityPreferred ==
    \A n \in 1..6, as \in MCOffices : T!PreferredIsFirst(n, T!Candidates(n, as))

\* It need not be the nearest one.
ASSUME AuthorityNotNearest ==
    \E n \in 1..6, as \in MCOffices : ~T!PreferredIsNearest(n, T!Candidates(n, as))
=============================================================================
