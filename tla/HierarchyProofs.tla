--------------------------- MODULE HierarchyProofs ---------------------------
(***************************************************************************)
(* The tree stays levelled and its references resolve, however requests    *)
(* overlap; where siblings were never created or renamed at the same time, *)
(* there is one root and sibling names differ.  For any depth, number of   *)
(* nodes, names and requests.                                              *)
(*                                                                         *)
(* The checks of create run before the insert, so the invariants need to   *)
(* know what a request in flight still relies on: a parent it has read may *)
(* be removed but never replaced (Numbered), and what it counted still     *)
(* holds unless another request worked under the same parent (Marked).     *)
(***************************************************************************)
EXTENDS Hierarchy, TLAPS

\* A row that exists is a node.
LEMMA RowIsNode ==
    ASSUME TypeOK, NEW n \in Ids, Exists(n)
    PROVE  /\ nodes[n] \in Node /\ nodes[n].name \in Names
           /\ nodes[n].level \in 1..Depth /\ nodes[n].parent \in Parents
  BY NullAssumption DEF TypeOK, Exists, Node

\* An idle slot relies on nothing.
LEMMA IdleIsSound == Idle \in Request /\ RequestSound(Idle) /\ Under(Idle) = {}
  BY DEF Idle, Request, RequestSound, CheckedSound, CreatePc, UpdatePc, Under

\* Goto marks every parent under which two requests are now at work.
LEMMA GotoMarks ==
    ASSUME HierarchyInv, NEW p \in Procs, NEW r \in Request, Goto(p, r)
    PROVE  /\ req' \in [Procs -> Request]
           /\ req'[p] = r
           /\ \A q \in Procs \ {p} : req'[q] = req[q]
           /\ Marked'
           /\ contended \subseteq contended'
           /\ contended' \subseteq Parents
  <1>1. /\ req' \in [Procs -> Request]
        /\ req'[p] = r
        /\ \A q \in Procs \ {p} : req'[q] = req[q]
    BY DEF HierarchyInv, TypeOK, Goto
  <1>2. contended \subseteq contended'
    BY DEF Goto
  <1>3. Under(r) \subseteq Parents
    BY DEF Under, Request, Idle, CreatePc, UpdatePc, RemovePc, Node
  <1>4. contended' \subseteq Parents
    BY <1>3 DEF Goto, HierarchyInv, TypeOK
  <1>5. ASSUME NEW a \in Procs, NEW b \in Procs, a # b
        PROVE  Under(req'[a]) \cap Under(req'[b]) \subseteq contended'
    <2>1. CASE a # p /\ b # p
      BY <1>1, <1>2, <1>5, <2>1 DEF HierarchyInv, Marked
    <2>2. CASE a = p
      BY <1>1, <1>5, <2>2 DEF Goto
    <2>3. CASE b = p
      BY <1>1, <1>5, <2>3 DEF Goto
    <2> QED
      BY <2>1, <2>2, <2>3
  <1>6. Marked'
    BY <1>5 DEF Marked, Under
  <1> QED
    BY <1>1, <1>2, <1>4, <1>6

\* A step that leaves the tables alone and gives one slot a sound request.
LEMMA SlotStep ==
    ASSUME HierarchyInv, NEW p \in Procs, NEW r \in Request, Goto(p, r),
           UNCHANGED <<nodes, inserted, refs>>,
           RequestSound(r)
    PROVE  HierarchyInv'
  <1>1. /\ req' \in [Procs -> Request]
        /\ req'[p] = r
        /\ \A q \in Procs \ {p} : req'[q] = req[q]
        /\ Marked'
        /\ contended \subseteq contended'
        /\ contended' \subseteq Parents
    BY GotoMarks
  <1>2. TypeOK'
    BY <1>1 DEF HierarchyInv, TypeOK
  <1>3. Numbered' /\ Levelled' /\ ReferencesResolve'
    BY DEF HierarchyInv, Numbered, Levelled, ReferencesResolve, Exists
  <1>4. OneRoot' /\ SiblingsDistinct'
    BY <1>1 DEF HierarchyInv, OneRoot, SiblingsDistinct, Children, Exists
  <1>5. ASSUME NEW q \in Procs PROVE RequestSound(req[q])'
    <2>1. RequestSound(req'[q])
      BY <1>1 DEF HierarchyInv
    <2>2. (req'[q].pc \in CreatePc => CreateSound(req[q])')
          /\ (req'[q].pc \in UpdatePc => UpdateSound(req[q])')
      BY <2>1 DEF RequestSound, CreateSound, UpdateSound, Exists
    <2>3. CheckedSound(req[q])'
      BY <2>1, <1>1 DEF RequestSound, CheckedSound, FoldedSibling, Children, Exists
    <2> QED
      BY <2>2, <2>3 DEF RequestSound
  <1> QED
    BY <1>1, <1>2, <1>3, <1>4, <1>5 DEF HierarchyInv

\* The requests' first queries.
LEMMA ReadPreserves ==
    ASSUME HierarchyInv, NEW p \in Procs, Create(p) \/ Update(p) \/ Remove(p)
    PROVE  HierarchyInv'
  <1> USE DEF HierarchyInv
  <1>1. CASE Create(p)
    <2>1. PICK name \in Names, level \in 1..Depth, parent \in Parents :
             /\ ParentLevelOK(level, parent)
             /\ Goto(p, [pc |-> IF level = 1 THEN "root" ELSE "createName",
                         node |-> [name |-> name, level |-> level, parent |-> parent]])
      BY <1>1 DEF Create
    <2> DEFINE node == [name |-> name, level |-> level, parent |-> parent]
               r == [pc |-> IF level = 1 THEN "root" ELSE "createName", node |-> node]
    <2>2. r \in Request
      BY DEF Request, Node, CreatePc
    <2>3. CreateSound(r)
      BY <2>1, NullAssumption DEF ParentLevelOK, CreateSound, Numbered, Parents
    <2>4. CheckedSound(r)
      <3>1. r.pc = "createName" => parent # Null
        BY <2>1 DEF ParentLevelOK
      <3> QED
        BY <3>1 DEF CheckedSound
    <2>5. RequestSound(r)
      BY <2>3, <2>4 DEF RequestSound, UpdatePc
    <2> QED
      BY <1>1, <2>1, <2>2, <2>5, SlotStep DEF Create
  <1>2. CASE Update(p)
    <2>1. PICK n \in Ids, name \in Names :
             /\ Exists(n)
             /\ Goto(p, [pc |-> IF name = nodes[n].name THEN "updateWrite" ELSE "updateName",
                         id |-> n, parent |-> nodes[n].parent, name |-> name])
      BY <1>2 DEF Update
    <2> DEFINE r == [pc |-> IF name = nodes[n].name THEN "updateWrite" ELSE "updateName",
                     id |-> n, parent |-> nodes[n].parent, name |-> name]
    <2>2. r \in Request
      BY <2>1, RowIsNode DEF Request, UpdatePc
    <2>3. RequestSound(r)
      BY <2>1 DEF RequestSound, UpdateSound, CheckedSound, Numbered, CreatePc
    <2> QED
      BY <1>2, <2>1, <2>2, <2>3, SlotStep DEF Update
  <1>3. CASE Remove(p)
    <2>1. PICK n \in Ids : Goto(p, [pc |-> "children", id |-> n])
      BY <1>3 DEF Remove
    <2> DEFINE r == [pc |-> "children", id |-> n]
    <2>2. r \in Request /\ RequestSound(r)
      BY DEF Request, RequestSound, CheckedSound, CreatePc, UpdatePc, RemovePc
    <2> QED
      BY <1>3, <2>1, <2>2, SlotStep DEF Remove
  <1> QED
    BY <1>1, <1>2, <1>3

\* The checks between the first query and the write.
LEMMA CheckPreserves ==
    ASSUME HierarchyInv, NEW p \in Procs,
           \/ CheckRoot(p) \/ CreateCheckName(p) \/ UpdateCheckName(p)
           \/ RemoveCountChildren(p) \/ RemoveCountAssignments(p) \/ RemoveCountDispatches(p)
    PROVE  HierarchyInv'
  <1> USE DEF HierarchyInv
  <1> DEFINE r == req[p]
  <1>1. r \in Request /\ RequestSound(r)
    BY DEF TypeOK
  <1>2. ASSUME NEW check \in BOOLEAN, NEW next, Continue(p, check, next),
               UNCHANGED <<nodes, inserted, refs>>,
               check => /\ [r EXCEPT !.pc = next] \in Request
                        /\ RequestSound([r EXCEPT !.pc = next])
        PROVE  HierarchyInv'
    <2>1. CASE check
      BY <1>2, <2>1, SlotStep DEF Continue
    <2>2. CASE ~check
      BY <1>2, <2>2, SlotStep, IdleIsSound DEF Continue
    <2> QED
      BY <2>1, <2>2
  <1>3. CASE CheckRoot(p)
    <2>1. r \in [pc : CreatePc, node : Node] /\ r.pc = "root"
      BY <1>1, <1>3 DEF CheckRoot, Request, Idle, UpdatePc, RemovePc
    <2> DEFINE s == [r EXCEPT !.pc = "createName"]
    <2>2. s \in Request /\ s.pc = "createName" /\ s.node = r.node
      BY <2>1 DEF Request, CreatePc
    <2>3. CreateSound(s) /\ r.node.level = 1
      BY <1>1, <2>1, <2>2 DEF RequestSound, CreateSound, CreatePc
    <2>4. NoRootYet => Children(Null) = {}
      BY NullAssumption DEF NoRootYet, Levelled, Children
    <2>5. NoRootYet => RequestSound(s)
      BY <2>2, <2>3, <2>4 DEF RequestSound, CheckedSound, UpdatePc
    <2> QED
      BY <1>2, <1>3, <2>2, <2>5 DEF CheckRoot, NoRootYet
  <1>4. CASE CreateCheckName(p)
    <2>1. r \in [pc : CreatePc, node : Node] /\ r.pc = "createName"
      BY <1>1, <1>4 DEF CreateCheckName, Request, Idle, UpdatePc, RemovePc
    <2> DEFINE s == [r EXCEPT !.pc = "insert"]
               check == ~FoldedSibling(r.node.name, r.node.parent, 0)
    <2>2. s \in Request /\ s.pc = "insert" /\ s.node = r.node
      BY <2>1 DEF Request, CreatePc
    <2>3. CreateSound(s)
      BY <1>1, <2>1, <2>2 DEF RequestSound, CreateSound, CreatePc
    <2>4. check => CheckedSound(s)
      BY <1>1, <2>1, <2>2 DEF RequestSound, CheckedSound
    <2>5. check => RequestSound(s)
      BY <2>2, <2>3, <2>4 DEF RequestSound, UpdatePc
    <2>6. check \in BOOLEAN
      BY DEF FoldedSibling
    <2> QED
      BY <1>2, <1>4, <2>2, <2>5, <2>6 DEF CreateCheckName
  <1>5. CASE UpdateCheckName(p)
    <2>1. r \in [pc : UpdatePc, id : Ids, parent : Parents, name : Names]
      BY <1>1, <1>5 DEF UpdateCheckName, Request, Idle, CreatePc, RemovePc
    <2> DEFINE s == [r EXCEPT !.pc = "updateWrite"]
               check == ~FoldedSibling(r.name, r.parent, r.id)
    <2>2. /\ s \in Request /\ s.pc = "updateWrite"
          /\ s.id = r.id /\ s.parent = r.parent /\ s.name = r.name
      BY <2>1 DEF Request, UpdatePc
    <2>3. UpdateSound(s)
      BY <1>1, <2>1, <2>2 DEF RequestSound, UpdateSound
    <2>4. check => RequestSound(s)
      BY <2>2, <2>3 DEF RequestSound, CheckedSound, CreatePc
    <2>5. check \in BOOLEAN
      BY DEF FoldedSibling
    <2> QED
      BY <1>2, <1>5, <2>2, <2>4, <2>5 DEF UpdateCheckName
  <1>6. CASE RemoveCountChildren(p) \/ RemoveCountAssignments(p) \/ RemoveCountDispatches(p)
    <2>1. r \in [pc : RemovePc, id : Ids]
      BY <1>1, <1>6 DEF RemoveCountChildren, RemoveCountAssignments, RemoveCountDispatches,
                        Request, Idle, CreatePc, UpdatePc
    <2>2. ASSUME NEW next \in {"assignments", "dispatches", "delete"}
          PROVE  [r EXCEPT !.pc = next] \in Request /\ RequestSound([r EXCEPT !.pc = next])
      BY <2>1 DEF Request, RequestSound, CheckedSound, CreatePc, UpdatePc, RemovePc
    <2> QED
      BY <1>2, <1>6, <2>2 DEF RemoveCountChildren, RemoveCountAssignments, RemoveCountDispatches
  <1> QED
    BY <1>3, <1>4, <1>5, <1>6

\* A write ends its request, and leaves the others where they are.
LEMMA WriteEnds ==
    ASSUME HierarchyInv, NEW p \in Procs, Goto(p, Idle)
    PROVE  /\ req' \in [Procs -> Request]
           /\ req'[p] = Idle
           /\ \A q \in Procs \ {p} : req'[q] = req[q]
           /\ Marked'
           /\ contended' = contended
           /\ RequestSound(req[p])'
  <1>1. /\ req' \in [Procs -> Request]
        /\ req'[p] = Idle
        /\ \A q \in Procs \ {p} : req'[q] = req[q]
        /\ Marked'
    BY GotoMarks, IdleIsSound
  <1>2. contended' = contended
    BY IdleIsSound DEF Goto
  <1>3. RequestSound(req[p])'
    BY <1>1 DEF Idle, RequestSound, CheckedSound, CreatePc, UpdatePc
  <1> QED
    BY <1>1, <1>2, <1>3

\* A request that works under a parent of its own relies on no other's.
LEMMA Apart ==
    ASSUME HierarchyInv, NEW p \in Procs, NEW q \in Procs, p # q,
           NEW m \in Parents, m \in Under(req[p]), m \notin contended
    PROVE  m \notin Under(req[q])
  BY DEF HierarchyInv, Marked

\* The insert of create.
LEMMA InsertPreserves ==
    ASSUME HierarchyInv, NEW p \in Procs, Insert(p)
    PROVE  HierarchyInv' /\ \A n \in Ids : Exists(n) => nodes'[n] = nodes[n]
  <1> USE DEF HierarchyInv
  <1>0. PICK r, n, i : r = req[p] /\ n = r.node /\ i = inserted + 1
    OBVIOUS
  <1>1. /\ req' \in [Procs -> Request]
        /\ req'[p] = Idle
        /\ \A q \in Procs \ {p} : req'[q] = req[q]
        /\ Marked'
        /\ contended' = contended
        /\ RequestSound(req[p])'
    BY WriteEnds DEF Insert
  <1>2. CASE ~Insertable(n)
    <2>1. UNCHANGED <<nodes, inserted, refs>> /\ Goto(p, Idle)
      BY <1>0, <1>2 DEF Insert
    <2> QED
      BY <2>1, SlotStep, IdleIsSound
  <1>3. CASE Insertable(n)
    <2>1. /\ inserted' = i /\ i \in Ids /\ inserted \in Nat
          /\ nodes' = [nodes EXCEPT ![i] = n]
          /\ refs' = refs
      BY <1>0, <1>3, BoundsAssumption DEF Insert, TypeOK, Ids
    <2>2. r \in [pc : CreatePc, node : Node] /\ r.pc = "insert" /\ n \in Node
      BY <1>0 DEF Insert, TypeOK, Request, Idle, UpdatePc, RemovePc
    <2>3. CreateSound(r) /\ CheckedSound(r) /\ Under(r) = {n.parent}
      BY <1>0, <2>2 DEF RequestSound, CreatePc, Under
    <2>4. nodes \in [Ids -> Node \cup {Null}]
      BY DEF TypeOK
    <2>5. ~Exists(i)
      BY <1>0, <2>1 DEF Numbered
    <2>6. /\ nodes'[i] = n
          /\ \A c \in Ids : c # i => nodes'[c] = nodes[c]
          /\ Exists(i)'
          /\ \A c \in Ids : Exists(c) => Exists(c)' /\ nodes'[c] = nodes[c]
          /\ \A c \in Ids : c # i => (Exists(c)' <=> Exists(c))
      BY <2>1, <2>2, <2>4, <2>5, NullAssumption DEF Exists
    <2>7. TypeOK'
      BY <1>1, <2>1, <2>2, <2>4 DEF TypeOK, Ids
    <2>8. Numbered'
      BY <1>0, <2>1, <2>6 DEF Numbered, Ids
    <2>9. ReferencesResolve'
      BY <2>1, <2>6 DEF ReferencesResolve, TypeOK
    <2>10. n.parent \in Parents /\ (n.parent = Null \/ Exists(n.parent))
      BY <1>3, <2>2 DEF Insertable, Node
    <2>11. Levelled'
      <3>1. ASSUME NEW c \in Ids, Exists(c)', c # i
            PROVE  IF nodes'[c].level = 1 THEN nodes'[c].parent = Null
                   ELSE /\ nodes'[c].parent # Null
                        /\ Exists(nodes[c].parent)'
                        /\ nodes'[nodes'[c].parent].level = nodes'[c].level - 1
                        /\ nodes'[c].parent = nodes[c].parent
        BY <2>6, <3>1, RowIsNode DEF Levelled, Parents
      <3>2. IF n.level = 1 THEN n.parent = Null
            ELSE /\ n.parent # Null
                 /\ Exists(n.parent)'
                 /\ nodes'[n.parent].level = n.level - 1
        BY <1>0, <2>3, <2>6, <2>10 DEF CreateSound, Parents
      <3>3. ASSUME NEW c \in Ids, Exists(c)'
            PROVE  IF nodes'[c].level = 1 THEN nodes'[c].parent = Null
                   ELSE /\ nodes'[c].parent # Null
                        /\ nodes'[nodes'[c].parent] # Null
                        /\ nodes'[nodes'[c].parent].level = nodes'[c].level - 1
        BY <2>6, <3>1, <3>2, <3>3 DEF Exists
      <3> QED
        BY <3>3 DEF Levelled, Exists
    <2>12. /\ Children(n.parent)' = Children(n.parent) \cup {i}
           /\ \A m \in Parents : m # n.parent => Children(m)' = Children(m)
      BY <2>1, <2>5, <2>6 DEF Children
    <2>13. OneRoot'
      <3>1. CASE n.parent = Null /\ Null \notin contended
        <4>1. Children(Null) = {}
          BY <1>0, <2>2, <2>3, <3>1 DEF CheckedSound
        <4>2. Children(Null)' = {i}
          BY <2>12, <3>1, <4>1
        <4> QED
          BY <4>2 DEF OneRoot
      <3>2. CASE n.parent # Null
        BY <1>1, <2>12, <3>2 DEF OneRoot, Parents
      <3>3. CASE Null \in contended
        BY <1>1, <3>3 DEF OneRoot
      <3> QED
        BY <3>1, <3>2, <3>3
    <2>14. SiblingsDistinct'
      <3>1. ASSUME NEW c \in Ids, Exists(c), nodes[c].parent = n.parent,
                   n.parent \notin contended
            PROVE  Folded[nodes[c].name] # Folded[n.name]
        BY <1>0, <2>2, <2>3, <3>1 DEF CheckedSound, FoldedSibling, Children, Ids
      <3>2. ASSUME NEW c \in Ids, NEW d \in Ids, Exists(c)', Exists(d)', c # d,
                   nodes'[c].parent = nodes'[d].parent,
                   nodes'[c].parent \notin contended'
            PROVE  Folded[nodes'[c].name] # Folded[nodes'[d].name]
        <4>1. CASE c = i
          BY <1>1, <2>6, <3>1, <3>2, <4>1
        <4>2. CASE d = i
          BY <1>1, <2>6, <3>1, <3>2, <4>2
        <4>3. CASE c # i /\ d # i
          BY <1>1, <2>6, <3>2, <4>3 DEF SiblingsDistinct
        <4> QED
          BY <4>1, <4>2, <4>3
      <3> QED
        BY <3>2 DEF SiblingsDistinct, Exists
    <2>15. ASSUME NEW q \in Procs, q # p PROVE RequestSound(req[q])'
      <3>0. PICK s : s = req[q]
        OBVIOUS
      <3>1. s \in Request /\ RequestSound(s) /\ req'[q] = s
        BY <1>1, <2>15, <3>0 DEF TypeOK
      <3>2. ASSUME s.pc \in CreatePc PROVE CreateSound(req[q])'
        <4>1. s \in [pc : CreatePc, node : Node]
          BY <3>1, <3>2 DEF Request, Idle, CreatePc, UpdatePc, RemovePc
        <4>2. CreateSound(s) /\ s.node.parent \in Parents
          BY <3>1, <3>2, <4>1 DEF RequestSound, Node
        <4>3. s.node.parent # Null /\ s.node.parent <= inserted
                => s.node.parent # i /\ (Exists(s.node.parent)' => Exists(s.node.parent))
          BY <1>0, <2>1, <2>6, <4>2 DEF Parents, Ids
        <4> QED
          BY <1>0, <2>1, <2>6, <3>1, <4>2, <4>3 DEF CreateSound, Parents, Ids
      <3>3. ASSUME s.pc \in UpdatePc PROVE UpdateSound(req[q])'
        <4>1. s \in [pc : UpdatePc, id : Ids, parent : Parents, name : Names]
          BY <3>1, <3>3 DEF Request, Idle, CreatePc, UpdatePc, RemovePc
        <4>2. UpdateSound(s) /\ s.id # i
          BY <1>0, <2>1, <3>1, <3>3 DEF RequestSound, UpdateSound, Ids
        <4> QED
          BY <1>0, <2>1, <2>6, <3>1, <4>1, <4>2 DEF UpdateSound, Ids
      <3>4. CheckedSound(req[q])'
        <4>1. ASSUME NEW m \in Parents, m \in Under(s), m \notin contended
              PROVE  Children(m)' = Children(m)
                     /\ \A name, d : FoldedSibling(name, m, d)' <=> FoldedSibling(name, m, d)
          <5>1. m # n.parent
            BY <1>0, <2>3, <2>10, <2>15, <3>0, <4>1, Apart
          <5>2. Children(m)' = Children(m)
            BY <2>12, <4>1, <5>1
          <5>3. \A c \in Children(m) : nodes'[c] = nodes[c]
            BY <2>6 DEF Children
          <5> QED
            BY <5>2, <5>3 DEF FoldedSibling
        <4>2. CASE s.pc \in CreatePc
          <5>1. s \in [pc : CreatePc, node : Node]
            BY <3>1, <4>2 DEF Request, Idle, CreatePc, UpdatePc, RemovePc
          <5>2. s.node.parent \in Parents /\ Under(s) = {s.node.parent}
            BY <5>1, <4>2 DEF Node, Under
          <5> QED
            BY <1>1, <3>1, <4>1, <4>2, <5>2 DEF RequestSound, CheckedSound, CreatePc
        <4>3. CASE s.pc \in UpdatePc
          <5>1. s \in [pc : UpdatePc, id : Ids, parent : Parents, name : Names]
            BY <3>1, <4>3 DEF Request, Idle, CreatePc, UpdatePc, RemovePc
          <5>2. Under(s) = {s.parent} /\ s.id # i
            BY <1>0, <2>1, <3>1, <4>3 DEF RequestSound, UpdateSound, Under, CreatePc, UpdatePc, Ids
          <5> QED
            BY <1>1, <2>6, <3>1, <4>1, <4>3, <5>1, <5>2
               DEF RequestSound, CheckedSound, UpdatePc
        <4>4. CASE s.pc \notin CreatePc \cup UpdatePc
          BY <3>1, <4>4 DEF CheckedSound, CreatePc, UpdatePc
        <4> QED
          BY <4>2, <4>3, <4>4
      <3> QED
        BY <3>1, <3>2, <3>3, <3>4 DEF RequestSound
    <2> QED
      BY <1>1, <2>6, <2>7, <2>8, <2>9, <2>11, <2>13, <2>14, <2>15
  <1> QED
    BY <1>2, <1>3

\* The write of update: one node is renamed, nothing moves.
LEMMA UpdateWritePreserves ==
    ASSUME HierarchyInv, NEW p \in Procs, UpdateWrite(p)
    PROVE  /\ HierarchyInv'
           /\ \A n \in Ids : Exists(n) => /\ nodes'[n].level = nodes[n].level
                                          /\ nodes'[n].parent = nodes[n].parent
  <1> USE DEF HierarchyInv
  <1>0. PICK r : r = req[p]
    OBVIOUS
  <1>1. /\ req' \in [Procs -> Request]
        /\ req'[p] = Idle
        /\ \A q \in Procs \ {p} : req'[q] = req[q]
        /\ Marked'
        /\ contended' = contended
        /\ RequestSound(req[p])'
    BY WriteEnds DEF UpdateWrite
  <1>2. CASE ~(Exists(r.id) /\ ~IndexClash(r.name, r.parent, r.id))
    <2>1. UNCHANGED <<nodes, inserted, refs>> /\ Goto(p, Idle)
      BY <1>0, <1>2 DEF UpdateWrite
    <2> QED
      BY <2>1, SlotStep, IdleIsSound
  <1>3. CASE Exists(r.id) /\ ~IndexClash(r.name, r.parent, r.id)
    <2>1. /\ r \in [pc : UpdatePc, id : Ids, parent : Parents, name : Names]
          /\ r.pc = "updateWrite"
      BY <1>0 DEF UpdateWrite, TypeOK, Request, Idle, CreatePc, RemovePc
    <2>2. /\ nodes' = [nodes EXCEPT ![r.id].name = r.name]
          /\ inserted' = inserted /\ refs' = refs
      BY <1>0, <1>3 DEF UpdateWrite
    <2>3. /\ nodes[r.id] \in Node /\ nodes[r.id].parent = r.parent
          /\ CheckedSound(r) /\ Under(r) = {r.parent}
      BY <1>0, <1>3, <2>1, RowIsNode DEF RequestSound, UpdateSound, Under, CreatePc, UpdatePc
    <2>4. nodes \in [Ids -> Node \cup {Null}]
      BY DEF TypeOK
    <2>5. [nodes[r.id] EXCEPT !.name = r.name] \in Node
      BY <2>1, <2>3 DEF Node
    <2>6. /\ nodes' \in [Ids -> Node \cup {Null}]
          /\ nodes'[r.id] \in Node
          /\ nodes'[r.id].name = r.name
          /\ nodes'[r.id].level = nodes[r.id].level
          /\ nodes'[r.id].parent = nodes[r.id].parent
          /\ \A c \in Ids \ {r.id} : nodes'[c] = nodes[c]
      BY <2>1, <2>2, <2>3, <2>4, <2>5 DEF Node
    <2>7. \A c \in Ids : /\ Exists(c)' <=> Exists(c)
                         /\ Exists(c) => /\ nodes'[c].level = nodes[c].level
                                         /\ nodes'[c].parent = nodes[c].parent
      BY <1>3, <2>6, NullAssumption DEF Exists
    <2>8. TypeOK' /\ Numbered' /\ ReferencesResolve'
      BY <1>1, <2>2, <2>6, <2>7 DEF TypeOK, Numbered, ReferencesResolve
    <2>9. Levelled'
      <3>1. ASSUME NEW c \in Ids, Exists(c)'
            PROVE  IF nodes'[c].level = 1 THEN nodes'[c].parent = Null
                   ELSE /\ nodes'[c].parent # Null
                        /\ nodes'[nodes'[c].parent] # Null
                        /\ nodes'[nodes'[c].parent].level = nodes'[c].level - 1
        BY <2>7, <3>1, RowIsNode DEF Levelled, Exists, Parents
      <3> QED
        BY <3>1 DEF Levelled, Exists
    <2>10. \A m \in Parents : Children(m)' = Children(m)
      BY <2>7 DEF Children
    <2>11. OneRoot'
      BY <1>1, <2>10 DEF OneRoot, Parents
    <2>12. SiblingsDistinct'
      <3>1. ASSUME NEW c \in Ids, Exists(c), c # r.id, nodes[c].parent = r.parent,
                   r.parent \notin contended
            PROVE  Folded[nodes[c].name] # Folded[r.name]
        <4>1. CASE nodes[r.id].name = r.name
          BY <1>3, <2>1, <2>3, <3>1, <4>1 DEF SiblingsDistinct
        <4>2. CASE ~FoldedSibling(r.name, r.parent, r.id)
          BY <3>1, <4>2 DEF FoldedSibling, Children
        <4> QED
          BY <1>3, <2>1, <2>3, <3>1, <4>1, <4>2 DEF CheckedSound
      <3>2. ASSUME NEW c \in Ids, NEW d \in Ids, Exists(c)', Exists(d)', c # d,
                   nodes'[c].parent = nodes'[d].parent,
                   nodes'[c].parent \notin contended'
            PROVE  Folded[nodes'[c].name] # Folded[nodes'[d].name]
        <4>1. CASE c = r.id
          BY <1>1, <2>3, <2>6, <2>7, <3>1, <3>2, <4>1
        <4>2. CASE d = r.id
          BY <1>1, <2>3, <2>6, <2>7, <3>1, <3>2, <4>2
        <4>3. CASE c # r.id /\ d # r.id
          BY <1>1, <2>6, <2>7, <3>2, <4>3 DEF SiblingsDistinct
        <4> QED
          BY <4>1, <4>2, <4>3
      <3> QED
        BY <3>2 DEF SiblingsDistinct, Exists
    <2>13. ASSUME NEW q \in Procs, q # p PROVE RequestSound(req[q])'
      <3>0. PICK s : s = req[q]
        OBVIOUS
      <3>1. s \in Request /\ RequestSound(s) /\ req'[q] = s
        BY <1>1, <2>13, <3>0 DEF TypeOK
      <3>2. ASSUME NEW m \in Parents, m \in Under(s), m \notin contended
            PROVE  /\ m # r.parent
                   /\ \A name, d : FoldedSibling(name, m, d)' <=> FoldedSibling(name, m, d)
        <4>1. m # r.parent
          BY <1>0, <2>1, <2>3, <2>13, <3>0, <3>2, Apart
        <4>2. \A c \in Children(m) : nodes'[c] = nodes[c]
          BY <2>3, <2>6, <4>1 DEF Children
        <4> QED
          BY <2>10, <3>2, <4>1, <4>2 DEF FoldedSibling
      <3>3. CASE s.pc \in CreatePc
        <4>1. s \in [pc : CreatePc, node : Node]
          BY <3>1, <3>3 DEF Request, Idle, CreatePc, UpdatePc, RemovePc
        <4>2. s.node.parent \in Parents /\ Under(s) = {s.node.parent} /\ CreateSound(s)
          BY <3>1, <4>1, <3>3 DEF Node, Under, RequestSound
        <4>3. CreateSound(req[q])'
          BY <2>2, <2>7, <3>1, <4>2 DEF CreateSound, Parents
        <4>4. CheckedSound(req[q])'
          BY <1>1, <2>10, <3>1, <3>2, <3>3, <4>2 DEF RequestSound, CheckedSound, CreatePc, Parents
        <4> QED
          BY <3>1, <3>3, <4>3, <4>4 DEF RequestSound, CreatePc, UpdatePc
      <3>4. CASE s.pc \in UpdatePc
        <4>1. s \in [pc : UpdatePc, id : Ids, parent : Parents, name : Names]
          BY <3>1, <3>4 DEF Request, Idle, CreatePc, UpdatePc, RemovePc
        <4>2. Under(s) = {s.parent} /\ UpdateSound(s)
          BY <3>1, <3>4 DEF RequestSound, UpdateSound, Under, CreatePc, UpdatePc
        <4>3. UpdateSound(req[q])'
          BY <2>2, <2>7, <3>1, <4>1, <4>2 DEF UpdateSound
        <4>4. CheckedSound(req[q])'
          <5>1. ASSUME s.pc = "updateWrite", s.parent \notin contended, Exists(s.id)
                PROVE  nodes'[s.id].name = s.name \/ ~FoldedSibling(s.name, s.parent, s.id)'
            <6>1. s.id # r.id
              BY <2>3, <3>2, <4>1, <4>2, <5>1 DEF UpdateSound
            <6> QED
              BY <2>6, <3>1, <3>2, <4>1, <4>2, <5>1, <6>1 DEF RequestSound, CheckedSound
          <5> QED
            BY <1>1, <2>7, <3>1, <3>4, <4>1, <5>1 DEF CheckedSound, UpdatePc
        <4> QED
          BY <3>1, <3>4, <4>3, <4>4 DEF RequestSound, CreatePc, UpdatePc
      <3>5. CASE s.pc \notin CreatePc \cup UpdatePc
        BY <3>1, <3>5 DEF RequestSound, CheckedSound, CreatePc, UpdatePc
      <3> QED
        BY <3>3, <3>4, <3>5
    <2> QED
      BY <1>1, <2>7, <2>8, <2>9, <2>11, <2>12, <2>13
  <1> QED
    BY <1>2, <1>3

\* The write of remove: a node nothing refers to goes.
LEMMA RemoveWritePreserves ==
    ASSUME HierarchyInv, NEW p \in Procs, RemoveWrite(p)
    PROVE  /\ HierarchyInv'
           /\ \A n \in Ids : Exists(n) /\ Exists(n)' => nodes'[n] = nodes[n]
  <1> USE DEF HierarchyInv
  <1>0. PICK i : i = req[p].id
    OBVIOUS
  <1>1. /\ req' \in [Procs -> Request]
        /\ req'[p] = Idle
        /\ \A q \in Procs \ {p} : req'[q] = req[q]
        /\ Marked'
        /\ contended' = contended
        /\ RequestSound(req[p])'
    BY WriteEnds DEF RemoveWrite
  <1>2. CASE ~Unreferenced(i)
    <2>1. UNCHANGED <<nodes, inserted, refs>> /\ Goto(p, Idle)
      BY <1>0, <1>2 DEF RemoveWrite
    <2> QED
      BY <2>1, SlotStep, IdleIsSound
  <1>3. CASE Unreferenced(i)
    <2>1. req[p] \in [pc : RemovePc, id : Ids] /\ i \in Ids
      BY <1>0 DEF RemoveWrite, TypeOK, Request, Idle, CreatePc, UpdatePc
    <2>2. /\ nodes' = [nodes EXCEPT ![i] = Null]
          /\ inserted' = inserted /\ refs' = refs
      BY <1>0, <1>3 DEF RemoveWrite
    <2>3. nodes \in [Ids -> Node \cup {Null}]
      BY DEF TypeOK
    <2>4. /\ ~Exists(i)'
          /\ \A c \in Ids \ {i} : nodes'[c] = nodes[c] /\ (Exists(c)' <=> Exists(c))
      BY <2>1, <2>2, <2>3 DEF Exists
    <2>5. \A c \in Ids : Exists(c)' => Exists(c) /\ c # i /\ nodes'[c] = nodes[c]
      BY <2>4
    <2>6. TypeOK'
      BY <1>1, <2>2, <2>3 DEF TypeOK
    <2>7. Numbered'
      BY <2>2, <2>5 DEF Numbered
    <2>8. ReferencesResolve'
      <3>1. ASSUME NEW x \in refs PROVE Exists(x[1])'
        <4>1. x \in Ids \X RefKinds
          BY DEF TypeOK
        <4>2. x[1] # i
          BY <1>3, <3>1, <4>1 DEF Unreferenced
        <4> QED
          BY <2>4, <3>1, <4>1, <4>2 DEF ReferencesResolve
      <3> QED
        BY <2>2, <3>1 DEF ReferencesResolve
    <2>9. Levelled'
      <3>1. ASSUME NEW c \in Ids, Exists(c)'
            PROVE  IF nodes'[c].level = 1 THEN nodes'[c].parent = Null
                   ELSE /\ nodes'[c].parent # Null
                        /\ nodes'[nodes'[c].parent] # Null
                        /\ nodes'[nodes'[c].parent].level = nodes'[c].level - 1
        <4>1. Exists(c) /\ nodes'[c] = nodes[c] /\ nodes[c].parent # i
          BY <1>3, <2>5, <3>1 DEF Unreferenced, Children
        <4> QED
          BY <2>4, <4>1, RowIsNode DEF Levelled, Exists, Parents
      <3> QED
        BY <3>1 DEF Levelled, Exists
    <2>10. \A m \in Parents : Children(m)' \subseteq Children(m)
      BY <2>5 DEF Children
    <2>11. OneRoot'
      BY <1>1, <2>10 DEF OneRoot, Parents
    <2>12. SiblingsDistinct'
      BY <1>1, <2>5 DEF SiblingsDistinct
    <2>13. ASSUME NEW q \in Procs, q # p PROVE RequestSound(req[q])'
      <3>0. PICK s : s = req[q]
        OBVIOUS
      <3>1. s \in Request /\ RequestSound(s) /\ req'[q] = s
        BY <1>1, <2>13, <3>0 DEF TypeOK
      <3>2. ASSUME NEW m \in Parents, NEW name, NEW d, ~FoldedSibling(name, m, d)
            PROVE  ~FoldedSibling(name, m, d)'
        <4>1. \A c \in Children(m)' : c \in Children(m) /\ nodes'[c] = nodes[c]
          BY <2>5, <2>10, <3>2 DEF Children
        <4> QED
          BY <3>2, <4>1 DEF FoldedSibling
      <3>3. CASE s.pc \in CreatePc
        <4>1. s \in [pc : CreatePc, node : Node]
          BY <3>1, <3>3 DEF Request, Idle, CreatePc, UpdatePc, RemovePc
        <4>2. s.node.parent \in Parents /\ CreateSound(s)
          BY <3>1, <4>1, <3>3 DEF Node, RequestSound
        <4>3. CreateSound(req[q])'
          BY <2>2, <2>5, <3>1, <4>2 DEF CreateSound, Parents
        <4>4. CheckedSound(req[q])'
          BY <1>1, <2>10, <3>1, <3>2, <3>3, <4>2 DEF RequestSound, CheckedSound, CreatePc, Parents
        <4> QED
          BY <3>1, <3>3, <4>3, <4>4 DEF RequestSound, CreatePc, UpdatePc
      <3>4. CASE s.pc \in UpdatePc
        <4>1. s \in [pc : UpdatePc, id : Ids, parent : Parents, name : Names]
          BY <3>1, <3>4 DEF Request, Idle, CreatePc, UpdatePc, RemovePc
        <4>2. UpdateSound(req[q])'
          BY <2>2, <2>5, <3>1, <3>4, <4>1 DEF RequestSound, UpdateSound
        <4>3. CheckedSound(req[q])'
          BY <1>1, <2>5, <3>1, <3>2, <3>4, <4>1 DEF RequestSound, CheckedSound, UpdatePc
        <4> QED
          BY <3>1, <3>4, <4>2, <4>3 DEF RequestSound, CreatePc, UpdatePc
      <3>5. CASE s.pc \notin CreatePc \cup UpdatePc
        BY <3>1, <3>5 DEF RequestSound, CheckedSound, CreatePc, UpdatePc
      <3> QED
        BY <3>3, <3>4, <3>5
    <2> QED
      BY <1>1, <2>5, <2>6, <2>7, <2>8, <2>9, <2>11, <2>12, <2>13
  <1> QED
    BY <1>2, <1>3

\* Other services only add rows that refer to an existing node, or turn an
\* active assignment into a past one.
LEMMA OtherServicesPreserve ==
    ASSUME HierarchyInv, NEW n \in Ids,
           (\E k \in RefKinds : Refer(n, k)) \/ EndAssignment(n)
    PROVE  HierarchyInv' /\ UNCHANGED nodes
  <1>1. UNCHANGED <<nodes, inserted, req, contended>>
    BY DEF Refer, EndAssignment
  <1>2. Exists(n) /\ refs' \subseteq refs \cup ({n} \X RefKinds)
    <2>1. CASE \E k \in RefKinds : Refer(n, k)
      BY <2>1 DEF Refer
    <2>2. CASE EndAssignment(n)
      BY <2>2 DEF EndAssignment, RefKinds, HierarchyInv, ReferencesResolve
    <2> QED
      BY <2>1, <2>2
  <1>3. TypeOK' /\ ReferencesResolve'
    BY <1>1, <1>2 DEF HierarchyInv, TypeOK, ReferencesResolve, Exists
  <1>4. Numbered' /\ Levelled' /\ OneRoot' /\ SiblingsDistinct' /\ Marked'
    BY <1>1 DEF HierarchyInv, Numbered, Levelled, OneRoot, SiblingsDistinct, Marked,
                Exists, Children
  <1>5. \A q \in Procs : RequestSound(req[q])'
    BY <1>1 DEF HierarchyInv, RequestSound, CreateSound, UpdateSound, CheckedSound,
                FoldedSibling, Exists, Children
  <1> QED
    BY <1>1, <1>3, <1>4, <1>5 DEF HierarchyInv

\* The empty table.
LEMMA InitHierarchy == Init => HierarchyInv
  <1> SUFFICES ASSUME Init PROVE HierarchyInv
    OBVIOUS
  <1>1. TypeOK
    BY IdleIsSound, BoundsAssumption DEF Init, TypeOK
  <1>2. \A n \in Ids : ~Exists(n)
    BY DEF Init, Exists
  <1>3. \A p \in Procs : RequestSound(req[p]) /\ Under(req[p]) = {}
    BY IdleIsSound DEF Init
  <1> QED
    BY <1>1, <1>2, <1>3 DEF Init, HierarchyInv, Numbered, Levelled, ReferencesResolve, OneRoot,
                            SiblingsDistinct, Marked, Children

\* What no step does to a node that exists before and after it.
Kept == \A n \in Ids : Exists(n) /\ nodes'[n] # Null =>
            /\ nodes'[n].level = nodes[n].level
            /\ nodes'[n].parent = nodes[n].parent

\* Every step preserves the invariant and keeps the nodes in their place.
LEMMA NextHierarchy ==
    ASSUME HierarchyInv, [Next]_vars
    PROVE  HierarchyInv' /\ Kept
  <1>1. ASSUME NEW p \in Procs, Create(p) \/ Update(p) \/ Remove(p)
        PROVE  HierarchyInv' /\ Kept
    BY <1>1, ReadPreserves DEF Create, Update, Remove, Kept
  <1>2. ASSUME NEW p \in Procs,
               \/ CheckRoot(p) \/ CreateCheckName(p) \/ UpdateCheckName(p)
               \/ RemoveCountChildren(p) \/ RemoveCountAssignments(p) \/ RemoveCountDispatches(p)
        PROVE  HierarchyInv' /\ Kept
    <2>1. UNCHANGED nodes
      BY <1>2 DEF CheckRoot, CreateCheckName, UpdateCheckName, RemoveCountChildren,
                  RemoveCountAssignments, RemoveCountDispatches
    <2> QED
      BY <1>2, <2>1, CheckPreserves DEF Kept
  <1>3. ASSUME NEW p \in Procs, Insert(p) PROVE HierarchyInv' /\ Kept
    BY <1>3, InsertPreserves DEF Kept
  <1>4. ASSUME NEW p \in Procs, UpdateWrite(p) PROVE HierarchyInv' /\ Kept
    BY <1>4, UpdateWritePreserves DEF Kept
  <1>5. ASSUME NEW p \in Procs, RemoveWrite(p) PROVE HierarchyInv' /\ Kept
    BY <1>5, RemoveWritePreserves DEF Kept, Exists
  <1>6. ASSUME NEW n \in Ids, (\E k \in RefKinds : Refer(n, k)) \/ EndAssignment(n)
        PROVE  HierarchyInv' /\ Kept
    BY <1>6, OtherServicesPreserve DEF Kept
  <1>7. CASE UNCHANGED vars
    <2>1. HierarchyInv'
      BY <1>7 DEF vars, HierarchyInv, TypeOK, Numbered, Levelled, ReferencesResolve, OneRoot,
                  SiblingsDistinct, Marked, RequestSound, CreateSound, UpdateSound,
                  CheckedSound, FoldedSibling, Exists, Children
    <2> QED
      BY <1>7, <2>1 DEF vars, Kept
  <1> QED
    BY <1>1, <1>2, <1>3, <1>4, <1>5, <1>6, <1>7 DEF Next

\* The inductive invariant holds of every behaviour.
THEOREM HierarchyInvariant == Spec => []HierarchyInv
  <1>1. HierarchyInv /\ [Next]_vars => HierarchyInv'
    BY NextHierarchy
  <1> QED
    BY InitHierarchy, <1>1, PTL DEF Spec

\* Type correctness.
THEOREM TypeCorrect == Spec => []TypeOK
  <1>1. HierarchyInv => TypeOK
    BY DEF HierarchyInv
  <1> QED
    BY HierarchyInvariant, <1>1, PTL

\* Every node hangs one level below an existing parent: create's check of the
\* parent is as good as atomic.
THEOREM TreeIsLevelled == Spec => []Levelled
  <1>1. HierarchyInv => Levelled
    BY DEF HierarchyInv
  <1> QED
    BY HierarchyInvariant, <1>1, PTL

\* Nothing refers to a removed node.
THEOREM NothingDangles == Spec => []ReferencesResolve
  <1>1. HierarchyInv => ReferencesResolve
    BY DEF HierarchyInv
  <1> QED
    BY HierarchyInvariant, <1>1, PTL

\* One root, unless two creates of a Prant overlapped.
THEOREM RootIsUnique == Spec => []OneRoot
  <1>1. HierarchyInv => OneRoot
    BY DEF HierarchyInv
  <1> QED
    BY HierarchyInvariant, <1>1, PTL

\* Sibling names differ beyond case, unless requests under their parent
\* overlapped.
THEOREM SiblingNamesDiffer == Spec => []SiblingsDistinct
  <1>1. HierarchyInv => SiblingsDistinct
    BY DEF HierarchyInv
  <1> QED
    BY HierarchyInvariant, <1>1, PTL

\* Neither roots nor siblings can be confused, unless requests that make them
\* overlapped.
THEOREM NodesAreDistinct == Spec => []NodesDistinct
  <1>1. OneRoot /\ SiblingsDistinct => NodesDistinct
    BY DEF NodesDistinct
  <1> QED
    BY RootIsUnique, SiblingNamesDiffer, <1>1, PTL

\* Levels and parents never change.
THEOREM NodesStayInPlace == Spec => PlaceFixed
  <1>1. HierarchyInv /\ [Next]_vars => [Kept]_vars
    BY NextHierarchy
  <1>2. [][Kept]_vars => PlaceFixed
    BY DEF Kept, PlaceFixed
  <1> QED
    BY HierarchyInvariant, <1>1, <1>2, PTL DEF Spec

\* The rows there are, as the constants Nodes, Parent and Rank of HierarchyTree.
Rows     == {n \in Ids : Exists(n)}
ParentOf == [n \in Rows |-> nodes[n].parent]
RankOf   == [n \in Rows |-> nodes[n].level]

\* NullAssumption, ParentAssumption, RankAssumption and LevelAssumption of them.
IsTree ==
    /\ Null \notin Rows
    /\ ParentOf \in [Rows -> Rows \cup {Null}]
    /\ RankOf \in [Rows -> 1..Depth]
    /\ \A n \in Rows : IF RankOf[n] = 1 THEN ParentOf[n] = Null
                       ELSE ParentOf[n] \in Rows /\ RankOf[ParentOf[n]] = RankOf[n] - 1

\* At every moment, whatever requests overlap, the table is a tree as module
\* HierarchyTree assumes it for dispatches and consumers.
THEOREM TableIsTree == Spec => []IsTree
  <1>1. HierarchyInv => IsTree
    <2> SUFFICES ASSUME HierarchyInv
                 PROVE  IsTree
      OBVIOUS
    <2>1. Null \notin Rows
      BY NullAssumption DEF Rows, Ids
    <2>2. \A n \in Rows : nodes[n].level \in 1..Depth
      BY RowIsNode DEF HierarchyInv, Rows
    <2>3. ASSUME NEW n \in Rows
          PROVE  IF nodes[n].level = 1 THEN nodes[n].parent = Null
                 ELSE /\ nodes[n].parent \in Rows
                      /\ nodes[nodes[n].parent].level = nodes[n].level - 1
      <3>1. nodes[n].parent \in Parents
        BY RowIsNode DEF HierarchyInv, Rows
      <3> QED
        BY <3>1 DEF HierarchyInv, Levelled, Rows, Parents
    <2> QED
      BY <2>1, <2>2, <2>3 DEF IsTree, ParentOf, RankOf
  <1> QED
    BY HierarchyInvariant, <1>1, PTL
=============================================================================
