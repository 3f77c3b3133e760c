---------------------------- MODULE HierarchyTree ----------------------------
(***************************************************************************)
(* The geography the other components refer to: hierarchy nodes, each with *)
(* a level and a parent.  Both are fixed when a node is created            *)
(* (HierarchyService.update changes neither), so a component that only     *)
(* reads them takes the tree as constants.  How nodes come and go is the   *)
(* subject of module Hierarchy.                                            *)
(***************************************************************************)
EXTENDS Integers

CONSTANTS
    Nodes,   \* hierarchy_node ids
    Null,    \* SQL null: no parent, or the central publisher as a source
    Parent,  \* parentId of each node
    Rank     \* HIERARCHY_LEVEL_RANK of each node's level

ASSUME NullAssumption == Null \notin Nodes

ASSUME ParentAssumption == Parent \in [Nodes -> Nodes \cup {Null}]

ASSUME RankAssumption == Rank \in [Nodes -> 1..6]

\* HierarchyService.create demands a parent exactly one level up, and none
\* for a Prant: what module Hierarchy establishes, this module assumes.
ASSUME LevelAssumption ==
    \A n \in Nodes : IF Rank[n] = 1 THEN Parent[n] = Null
                     ELSE Parent[n] \in Nodes /\ Rank[Parent[n]] = Rank[n] - 1

PrantRank == 1
GramRank  == 6

\* The nodes met on the walk from n up to its root, n excluded.
Ancestors[n \in Nodes] ==
    IF Parent[n] = Null THEN {} ELSE {Parent[n]} \cup Ancestors[Parent[n]]

\* A direct child or, failing that, whatever isDescendantOf finds by walking
\* up from the destination.
InBranch(to, from) == from \in Ancestors[to]

IsRoot(n) == Rank[n] = PrantRank /\ Parent[n] = Null
=============================================================================
