----------------------------- MODULE TreeQueries ------------------------------
(***************************************************************************)
(* The read-only handlers that walk the tree: what getMyDispatchContext    *)
(* offers a sender as destinations, and whom getReportingCandidates names  *)
(* as reporting authorities of a node.  Ids of nodes and of administrators *)
(* are numbers of the same kind, and may coincide.                         *)
(***************************************************************************)
EXTENDS HierarchyTree, Sequences

Children(n, S) == {c \in S : Parent[c] = n}

\* The nodes below n that the walk down through S meets.
collectDescendants(n, S) ==
    LET collect[m \in Nodes] ==
            Children(m, S) \cup UNION {collect[c] : c \in Children(m, S)}
    IN collect[n]

\* Where copies can go from a node, or from the central publisher (Null), when
\* the nodes in active are.
AllowedDestinations(from, active) ==
    IF from = Null THEN {n \in active : Rank[n] = PrantRank}
    ELSE IF Rank[from] = GramRank THEN {}
    ELSE collectDescendants(from, active)

\* The way up from n, nearest first.
AncestorPath[n \in Nodes] ==
    IF Parent[n] = Null THEN <<>> ELSE <<Parent[n]>> \o AncestorPath[Parent[n]]

\* An assignment is [user, node, active], active if the row and its holder are;
\* they come in the order in which they were made.
Candidates(n, assignments) ==
    SelectSeq(assignments, LAMBDA a : a.active /\ a.node \in {n} \cup Ancestors[n])

AtParent(n, cs) == SelectSeq(cs, LAMBDA c : c.node = Parent[n])

\* What the handler keeps as a candidate's nodeId is the id of its user.
Matching(id, cs) == SelectSeq(cs, LAMBDA c : c.user = id)

PreferredAuthority(n, cs) ==
    LET matches == SelectSeq(AncestorPath[n], LAMBDA m : Matching(m, cs) # <<>>)
    IN IF AtParent(n, cs) # <<>> THEN Head(AtParent(n, cs))
       ELSE IF matches # <<>> THEN Head(Matching(Head(matches), cs))
       ELSE IF cs # <<>> THEN Head(cs)
       ELSE Null

-----------------------------------------------------------------------------

\* A node is offered if it and all nodes between the sender and it are active:
\* nobody can be sent copies past an inactive node, active though he is.
OfferedThroughActive(from, active) ==
    from # Null /\ Rank[from] # GramRank =>
        AllowedDestinations(from, active) =
            {to \in active : from \in Ancestors[to]
                             /\ \A m \in Ancestors[to] : from \in Ancestors[m] => m \in active}

\* What a sender is offered, create and forward take: the route checks of
\* DispatchesService let it pass.
OfferedIsAccepted(from, active) ==
    \A to \in AllowedDestinations(from, active) :
        IF from = Null THEN IsRoot(to) ELSE InBranch(to, from)

\* The first in office at the parent is preferred; failing that, and unless a
\* candidate's id happens to be that of a node on the way up, the first in
\* office anywhere.
PreferredIsFirst(n, cs) ==
    /\ AtParent(n, cs) # <<>> => PreferredAuthority(n, cs) = Head(AtParent(n, cs))
    /\ AtParent(n, cs) = <<>> /\ cs # <<>>
            /\ (\A m \in Ancestors[n] : Matching(m, cs) = <<>>)
         => PreferredAuthority(n, cs) = Head(cs)

\* Nobody in office at a node on the way up is nearer than the preferred one.
PreferredIsNearest(n, cs) ==
    LET path == AncestorPath[n]
        held == {k \in DOMAIN path : \E i \in DOMAIN cs : cs[i].node = path[k]}
    IN held # {} => \E k \in held : /\ PreferredAuthority(n, cs).node = path[k]
                                    /\ \A j \in held : k <= j
=============================================================================
