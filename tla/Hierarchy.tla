------------------------------ MODULE Hierarchy ------------------------------
(***************************************************************************)
(* HierarchyService: how the nodes of the geography come and go.  create,  *)
(* update and remove check first and write afterwards, each query on its   *)
(* own; what the checks miss is left to the foreign keys (on delete        *)
(* restrict) and to the unique index on (parent_id, name), which does not  *)
(* bind rows without a parent.                                             *)
(*                                                                         *)
(* A level is its rank, 1 for Prant.  description and status are left out: *)
(* setStatus and update write them, and no handler reads them back.        *)
(***************************************************************************)
EXTENDS Integers, FiniteSets

CONSTANTS
    Procs,      \* request slots
    Depth,      \* the number of levels: six in the code
    Names,      \* values of name
    Folded,     \* name without case: what the service's own checks compare
    Null,       \* SQL null: the parent of a root, an absent row
    MaxNodes,   \* bound on the rows ever inserted
    MaxRefs     \* bound on the references that exist at a time

ASSUME DepthAssumption == Depth \in Nat
ASSUME FoldedAssumption == Names \subseteq DOMAIN Folded
ASSUME BoundsAssumption == MaxNodes \in Nat /\ MaxRefs \in Nat
\* Rows of other tables that refer to a node.  remove counts active
\* assignments and dispatches; ended assignments and consumers it does not.
RefKinds == {"assignment", "dispatch", "other"}

VARIABLES
    nodes,      \* hierarchy_node rows by id; Null where there is none
    inserted,   \* the last id given out
    refs,       \* <<id, kind>>: rows of that kind refer to the node
    req,        \* what each slot's request knows between two queries
    contended   \* history: siblings that were created or renamed by
                \* overlapping requests, as their parent

vars == <<nodes, inserted, refs, req, contended>>

Ids == 1..MaxNodes
Parents == Ids \cup {Null}

Node == [name : Names, level : 1..Depth, parent : Parents]

ASSUME NullAssumption == Null \notin Nat \cup Node

Idle == [pc |-> "idle"]

CreatePc == {"root", "createName", "insert"}
UpdatePc == {"updateName", "updateWrite"}
RemovePc == {"children", "assignments", "dispatches", "delete"}

Request ==
    {Idle}
    \cup [pc : CreatePc, node : Node]
    \cup [pc : UpdatePc, id : Ids, parent : Parents, name : Names]
    \cup [pc : RemovePc, id : Ids]

\* The table, the references to it and the requests keep their shape.
TypeOK ==
    /\ nodes \in [Ids -> Node \cup {Null}]
    /\ inserted \in 0..MaxNodes
    /\ refs \subseteq Ids \X RefKinds
    /\ req \in [Procs -> Request]
    /\ contended \subseteq Parents

Init ==
    /\ nodes = [n \in Ids |-> Null]
    /\ inserted = 0
    /\ refs = {}
    /\ req = [p \in Procs |-> Idle]
    /\ contended = {}

-----------------------------------------------------------------------------

Exists(n) == nodes[n] # Null

Children(n) == {c \in Ids : Exists(c) /\ nodes[c].parent = n}

\* The parent under which a request creates or renames a node.
Under(r) ==
    IF r.pc \in CreatePc THEN {r.node.parent}
    ELSE IF r.pc \in UpdatePc THEN {r.parent} ELSE {}

Goto(p, r) ==
    /\ req' = [req EXCEPT ![p] = r]
    /\ contended' = contended
           \cup {n \in Under(r) : \E q \in Procs \ {p} : n \in Under(req[q])}

Continue(p, check, next) == Goto(p, IF check THEN [req[p] EXCEPT !.pc = next] ELSE Idle)

\* Mutant: the check compares names as they are, like the index.
SiblingNamed(name, parent, n) ==
    \E c \in Children(parent) \ {n} : nodes[c].name = name

FoldedSibling(name, parent, n) ==
    \E c \in Children(parent) \ {n} : Folded[nodes[c].name] = Folded[name]

\* The unique index: nulls are distinct from each other.
IndexClash(name, parent, n) ==
    parent # Null /\ \E c \in Children(parent) \ {n} : nodes[c].name = name

-----------------------------------------------------------------------------
(* create *)

\* REQUIRED_PARENT_LEVEL: none for Prant, one rank up for every other level.
ParentLevelOK(level, parent) ==
    IF level = 1 THEN parent = Null
    ELSE parent # Null /\ Exists(parent) /\ nodes[parent].level = level - 1

Create(p) ==
    /\ req[p] = Idle
    /\ inserted < MaxNodes
    /\ \E name \in Names, level \in 1..Depth, parent \in Parents :
        /\ ParentLevelOK(level, parent)
        /\ Goto(p, [pc |-> IF level = 1 THEN "root" ELSE "createName",
                    node |-> [name |-> name, level |-> level, parent |-> parent]])
    /\ UNCHANGED <<nodes, inserted, refs>>

NoRootYet == ~ \E n \in Ids : Exists(n) /\ nodes[n].level = 1

CheckRoot(p) ==
    /\ req[p].pc = "root"
    /\ Continue(p, NoRootYet, "createName")
    /\ UNCHANGED <<nodes, inserted, refs>>

CreateCheckName(p) ==
    /\ req[p].pc = "createName"
    /\ LET n == req[p].node
       IN Continue(p, ~FoldedSibling(n.name, n.parent, 0), "insert")
    /\ UNCHANGED <<nodes, inserted, refs>>

\* Mutant: no foreign key on parent_id.
InsertableUnrestricted(n) == ~IndexClash(n.name, n.parent, 0)

\* The foreign key refuses a parent that is gone.
Insertable(n) ==
    /\ n.parent = Null \/ Exists(n.parent)
    /\ ~IndexClash(n.name, n.parent, 0)

Insert(p) ==
    /\ req[p].pc = "insert"
    /\ inserted < MaxNodes
    /\ IF Insertable(req[p].node)
       THEN /\ inserted' = inserted + 1
            /\ nodes' = [nodes EXCEPT ![inserted'] = req[p].node]
       ELSE UNCHANGED <<nodes, inserted>>
    /\ Goto(p, Idle)
    /\ UNCHANGED refs

-----------------------------------------------------------------------------
(* update *)

Update(p) ==
    /\ req[p] = Idle
    /\ \E n \in Ids, name \in Names :
        /\ Exists(n)
        /\ Goto(p, [pc |-> IF name = nodes[n].name THEN "updateWrite" ELSE "updateName",
                    id |-> n, parent |-> nodes[n].parent, name |-> name])
    /\ UNCHANGED <<nodes, inserted, refs>>

UpdateCheckName(p) ==
    /\ req[p].pc = "updateName"
    /\ LET r == req[p]
       IN Continue(p, ~FoldedSibling(r.name, r.parent, r.id), "updateWrite")
    /\ UNCHANGED <<nodes, inserted, refs>>

\* Mutant: a row that is gone is inserted again from what the request has.
UpdateWriteUpsert(p) ==
    /\ req[p].pc = "updateWrite"
    /\ LET r == req[p]
       IN nodes' = IF IndexClash(r.name, r.parent, r.id) THEN nodes
                   ELSE IF Exists(r.id) THEN [nodes EXCEPT ![r.id].name = r.name]
                   ELSE [nodes EXCEPT ![r.id] = [name |-> r.name, parent |-> r.parent]]
    /\ Goto(p, Idle)
    /\ UNCHANGED <<inserted, refs>>

\* Fails if the node is gone or the index refuses the name.
UpdateWrite(p) ==
    /\ req[p].pc = "updateWrite"
    /\ LET r == req[p]
       IN nodes' = IF Exists(r.id) /\ ~IndexClash(r.name, r.parent, r.id)
                   THEN [nodes EXCEPT ![r.id].name = r.name]
                   ELSE nodes
    /\ Goto(p, Idle)
    /\ UNCHANGED <<inserted, refs>>

-----------------------------------------------------------------------------
(* remove *)

Remove(p) ==
    /\ req[p] = Idle
    /\ \E n \in Ids : Exists(n) /\ Goto(p, [pc |-> "children", id |-> n])
    /\ UNCHANGED <<nodes, inserted, refs>>

RemoveCountChildren(p) ==
    /\ req[p].pc = "children"
    /\ Continue(p, Children(req[p].id) = {}, "assignments")
    /\ UNCHANGED <<nodes, inserted, refs>>

RemoveCountAssignments(p) ==
    /\ req[p].pc = "assignments"
    /\ Continue(p, <<req[p].id, "assignment">> \notin refs, "dispatches")
    /\ UNCHANGED <<nodes, inserted, refs>>

RemoveCountDispatches(p) ==
    /\ req[p].pc = "dispatches"
    /\ Continue(p, <<req[p].id, "dispatch">> \notin refs, "delete")
    /\ UNCHANGED <<nodes, inserted, refs>>

\* Mutant: the counts have to do, no row restricts the deletion.
UnreferencedAlways(n) == TRUE

Unreferenced(n) ==
    /\ Children(n) = {}
    /\ \A k \in RefKinds : <<n, k>> \notin refs

\* The foreign keys have the last word: P2003 answers the request.
RemoveWrite(p) ==
    /\ req[p].pc = "delete"
    /\ LET n == req[p].id
       IN nodes' = IF Unreferenced(n) THEN [nodes EXCEPT ![n] = Null] ELSE nodes
    /\ Goto(p, Idle)
    /\ UNCHANGED <<inserted, refs>>

-----------------------------------------------------------------------------
(* Other services *)

\* An assignment, a dispatch or a consumer that names an existing node; the
\* foreign key refuses any other.
Refer(n, kind) ==
    /\ Exists(n)
    /\ Cardinality(refs) < MaxRefs
    /\ refs' = refs \cup {<<n, kind>>}
    /\ UNCHANGED <<nodes, inserted, req, contended>>

\* The last active assignment ends; its row stays.
EndAssignment(n) ==
    /\ <<n, "assignment">> \in refs
    /\ refs' = (refs \ {<<n, "assignment">>}) \cup {<<n, "other">>}
    /\ UNCHANGED <<nodes, inserted, req, contended>>

Next ==
    \/ \E p \in Procs :
        \/ Create(p) \/ CheckRoot(p) \/ CreateCheckName(p) \/ Insert(p)
        \/ Update(p) \/ UpdateCheckName(p) \/ UpdateWrite(p)
        \/ Remove(p) \/ RemoveCountChildren(p) \/ RemoveCountAssignments(p)
        \/ RemoveCountDispatches(p) \/ RemoveWrite(p)
    \/ \E n \in Ids : \/ \E k \in RefKinds : Refer(n, k)
                      \/ EndAssignment(n)

Spec == Init /\ [][Next]_vars

-----------------------------------------------------------------------------
(* However requests interleave *)

\* Every node hangs one level below an existing parent, a Prant below none:
\* what isDescendantOf's walk and module HierarchyTree rely on.  create reads
\* the parent two queries before it inserts; the parent may be removed, and
\* its id used by nobody else, in between.
Levelled ==
    \A n \in Ids : Exists(n) =>
        IF nodes[n].level = 1 THEN nodes[n].parent = Null
        ELSE /\ nodes[n].parent # Null
             /\ Exists(nodes[n].parent)
             /\ nodes[nodes[n].parent].level = nodes[n].level - 1

\* No reference dangles: remove counts only some kinds of rows, and counts
\* before it deletes.
ReferencesResolve == \A r \in refs : Exists(r[1])

\* A node's level and parent never change while it exists, which is why other
\* components may read them once and use them later.
PlaceFixed ==
    [][\A n \in Ids : Exists(n) /\ nodes'[n] # Null =>
           /\ nodes'[n].level = nodes[n].level
           /\ nodes'[n].parent = nodes[n].parent]_vars

-----------------------------------------------------------------------------
(* Where no two requests created or renamed siblings at the same time *)

\* One root.
OneRoot == Null \in contended \/ \A m, n \in Children(Null) : m = n

\* Siblings have different names even if case is ignored.
SiblingsDistinct ==
    \A c, d \in Ids :
        /\ Exists(c) /\ Exists(d) /\ c # d
        /\ nodes[c].parent = nodes[d].parent
        /\ nodes[c].parent \notin contended
        => Folded[nodes[c].name] # Folded[nodes[d].name]

\* No two nodes can be taken for each other: one root, and names that tell
\* siblings apart.
NodesDistinct == OneRoot /\ SiblingsDistinct

-----------------------------------------------------------------------------
(* The inductive invariant: the above, and what requests in flight rely on *)

\* Ids are given out once, in order.
Numbered == \A n \in Ids : Exists(n) => n <= inserted

\* The parent a create has read, if it is still there, still is at the level
\* it was read at: no row ever takes over its id.
CreateSound(r) ==
    IF r.node.level = 1 THEN r.node.parent = Null
    ELSE /\ r.pc # "root"
         /\ r.node.parent # Null
         /\ r.node.parent <= inserted
         /\ Exists(r.node.parent) => nodes[r.node.parent].level = r.node.level - 1

\* The node an update has read, if it is still there, has kept its parent.
UpdateSound(r) ==
    /\ r.id <= inserted
    /\ Exists(r.id) => nodes[r.id].parent = r.parent

\* What a request has checked still holds where it is alone.
CheckedSound(r) ==
    /\ r.pc \in {"createName", "insert"} /\ r.node.parent = Null /\ Null \notin contended
         => Children(Null) = {}
    /\ r.pc = "insert" /\ r.node.parent \notin contended
         => ~FoldedSibling(r.node.name, r.node.parent, 0)
    /\ r.pc = "updateWrite" /\ r.parent \notin contended /\ Exists(r.id)
         => nodes[r.id].name = r.name \/ ~FoldedSibling(r.name, r.parent, r.id)

RequestSound(r) ==
    /\ r.pc \in CreatePc => CreateSound(r)
    /\ r.pc \in UpdatePc => UpdateSound(r)
    /\ CheckedSound(r)

\* Overlapping requests under a parent have left their mark.
Marked ==
    \A p, q \in Procs : p # q => Under(req[p]) \cap Under(req[q]) \subseteq contended

HierarchyInv ==
    /\ TypeOK
    /\ Numbered
    /\ Levelled
    /\ ReferencesResolve
    /\ OneRoot
    /\ SiblingsDistinct
    /\ Marked
    /\ \A p \in Procs : RequestSound(req[p])

-----------------------------------------------------------------------------
(* What the code says without that condition *)

\* "Only one root is allowed."
OnlyOneRoot == Cardinality(Children(Null)) <= 1
=============================================================================
