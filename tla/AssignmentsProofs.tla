------------------------- MODULE AssignmentsProofs -------------------------
(***************************************************************************)
(* Assignments bind designations to nodes of their level, survive as       *)
(* history and are handed over once, however requests overlap; nobody      *)
(* holds a position twice unless requests for it met.  For any number of   *)
(* people, nodes, levels, designations, assignments and requests.          *)
(*                                                                         *)
(* The level check happens queries before the insert; it stays good since  *)
(* an id is never given to a second designation (Numbered) and a row never *)
(* changes but to close (PreviousSound).  The transaction of reassign sees *)
(* the row open, so no other row names it as replaced: a replaced row is   *)
(* closed (HandedOverOnce).                                                *)
(***************************************************************************)
EXTENDS Assignments, TLAPS

\* An assignment in the table is a row.
LEMMA RowsAreTyped ==
    ASSUME TypeOK, NEW i \in DOMAIN assignments
    PROVE  /\ assignments[i] \in Row
           /\ i \in 1..MaxAssignments
           /\ i \in Nat
  <1>1. assignments \in Seq(Row) /\ Len(assignments) <= MaxAssignments
    BY DEF TypeOK
  <1>2. Len(assignments) \in Nat /\ i \in 1..Len(assignments)
    BY <1>1
  <1> QED
    BY <1>1, <1>2, BoundsAssumption

\* Requests give out triples.
LEMMA TargetsAreTyped ==
    ASSUME NEW r \in Request
    PROVE  /\ Targets(r) \subseteq People \X Nodes \X DesignationIds
           /\ Repeated(r) \subseteq Targets(r)
  <1>1. CASE r.pc = "onboard"
    <2>1. r.user \in People /\ r.todo \in Pending
      BY <1>1 DEF Request, Idle, AssignPc, HandoverPc
    <2>2. \A i \in DOMAIN r.todo : r.todo[i] \in Nodes \X DesignationIds
      BY <2>1 DEF Pending
    <2>3. Targets(r) = {Given(r.user, r.todo[i]) : i \in DOMAIN r.todo}
      BY <1>1 DEF Targets, AssignPc, HandoverPc
    <2> QED
      BY <1>1, <2>1, <2>2, <2>3 DEF Repeated, Given
  <1>2. CASE r.pc \in AssignPc \cup HandoverPc
    BY <1>2 DEF Targets, Repeated, Request, Idle, AssignPc, HandoverPc
  <1>3. CASE r.pc \notin AssignPc \cup HandoverPc \cup {"onboard"}
    BY <1>3 DEF Targets, Repeated
  <1> QED
    BY <1>1, <1>2, <1>3

\* An idle slot relies on nothing.
LEMMA IdleIsSound == Idle \in Request /\ RequestSound(Idle) /\ Targets(Idle) = {}
  BY DEF Idle, Request, RequestSound, LevelSound, LevelChecked, PreviousSound, DuplicateSound,
         OnboardSound, Targets, AssignPc, HandoverPc

\* Goto marks what two requests are now about to give out.
LEMMA GotoMarks ==
    ASSUME AssignmentsInv, NEW p \in Procs, NEW r \in Request, Goto(p, r)
    PROVE  /\ req' \in [Procs -> Request]
           /\ req'[p] = r
           /\ \A q \in Procs \ {p} : req'[q] = req[q]
           /\ Marked'
           /\ contended \subseteq contended'
           /\ Repeated(r) \subseteq contended'
           /\ contended' \subseteq People \X Nodes \X DesignationIds
           /\ disturbed' \subseteq Procs
  <1>1. /\ req' \in [Procs -> Request]
        /\ req'[p] = r
        /\ \A q \in Procs \ {p} : req'[q] = req[q]
    BY DEF AssignmentsInv, TypeOK, Goto
  <1>2. contended \subseteq contended' /\ Repeated(r) \subseteq contended'
    BY DEF Goto
  <1>3. contended' \subseteq People \X Nodes \X DesignationIds /\ disturbed' \subseteq Procs
    BY TargetsAreTyped DEF Goto, AssignmentsInv, TypeOK
  <1>4. ASSUME NEW a \in Procs, NEW b \in Procs, a # b
        PROVE  Targets(req'[a]) \cap Targets(req'[b]) \subseteq contended'
    <2>1. CASE a # p /\ b # p
      BY <1>1, <1>2, <1>4, <2>1 DEF AssignmentsInv, Marked
    <2>2. CASE a = p
      BY <1>1, <1>4, <2>2 DEF Goto
    <2>3. CASE b = p
      BY <1>1, <1>4, <2>3 DEF Goto
    <2> QED
      BY <2>1, <2>2, <2>3
  <1>5. Marked'
    BY <1>4 DEF Marked, Targets, Given
  <1> QED
    BY <1>1, <1>2, <1>3, <1>5

\* What is sound for the tables stays so while they stay the same.
LEMMA SoundStays ==
    ASSUME UNCHANGED <<designations, created, admins, assignments>>,
           contended \subseteq contended',
           NEW r, RequestSound(r)
    PROVE  /\ LevelSound(r)' /\ PreviousSound(r)' /\ DuplicateSound(r)' /\ OnboardSound(r)'
  BY DEF RequestSound, LevelSound, PreviousSound, DuplicateSound, OnboardSound, Exists,
         AlreadyAssigned, Holds, LevelChecked

\* A step that leaves the tables alone and gives one slot a sound request.
LEMMA SlotStep ==
    ASSUME AssignmentsInv, NEW p \in Procs, NEW r \in Request, Goto(p, r),
           UNCHANGED <<designations, created, admins, assignments>>, active' \subseteq Subjects,
           LevelSound(r), PreviousSound(r), r.pc = "onboard" => r.user <= admins,
           \A t \in Targets(r) :
               r.pc \in {"insert", "handover", "onboard"} /\ t \notin contended
               => ~AlreadyAssigned(t[1], t[2], t[3])
    PROVE  AssignmentsInv'
  <1>1. /\ req' \in [Procs -> Request]
        /\ req'[p] = r
        /\ \A q \in Procs \ {p} : req'[q] = req[q]
        /\ Marked'
        /\ contended \subseteq contended'
        /\ Repeated(r) \subseteq contended'
        /\ contended' \subseteq People \X Nodes \X DesignationIds
        /\ disturbed' \subseteq Procs
    BY GotoMarks
  <1>2. TypeOK'
    BY <1>1 DEF AssignmentsInv, TypeOK, Row
  <1>3. Numbered' /\ LevelsMatch' /\ DesignationsKept' /\ HandedOverOnce'
    BY DEF AssignmentsInv, Numbered, LevelsMatch, DesignationsKept, HandedOverOnce, Exists
  <1>4. NoDuplicateActive'
    BY <1>1 DEF AssignmentsInv, NoDuplicateActive, Holds
  <1>5. ASSUME NEW q \in Procs PROVE RequestSound(req[q])'
    <2>1. CASE q = p
      <3>1. LevelSound(r)' /\ PreviousSound(r)'
        BY DEF LevelSound, LevelChecked, PreviousSound, Exists
      <3>2. DuplicateSound(r)'
        BY <1>1 DEF DuplicateSound, AlreadyAssigned, Holds
      <3>3. OnboardSound(r)'
        BY <1>1 DEF OnboardSound
      <3>4. RequestSound(r)'
        BY <3>1, <3>2, <3>3 DEF RequestSound
      <3> QED
        BY <3>4, <1>1, <2>1 DEF RequestSound, LevelSound, LevelChecked, PreviousSound,
             DuplicateSound, OnboardSound
    <2>2. CASE q # p
      <3>1. RequestSound(req[q]) /\ req'[q] = req[q]
        BY <1>1, <2>2 DEF AssignmentsInv
      <3> QED
        BY <3>1, <1>1 DEF RequestSound, LevelSound, PreviousSound, DuplicateSound, OnboardSound,
             Exists, AlreadyAssigned, Holds, LevelChecked
    <2> QED
      BY <2>1, <2>2
  <1> QED
    BY <1>1, <1>2, <1>3, <1>4, <1>5 DEF AssignmentsInv

\* All that may happen to a row: it closes.
Kept(new, old) ==
    /\ new.user = old.user
    /\ new.node = old.node
    /\ new.designation = old.designation
    /\ new.origin = old.origin
    /\ new.replaces = old.replaces
    /\ new.isActive => old.isActive

\* A request inserts one row; the others are kept.
LEMMA InsertStep ==
    ASSUME AssignmentsInv, NEW p \in Procs, NEW r \in Request, Goto(p, r),
           UNCHANGED <<designations, created, admins, active>>,
           NEW last \in Nat, last = Len(assignments) + 1, last <= MaxAssignments,
           assignments' \in Seq(Row), Len(assignments') = last,
           \A i \in DOMAIN assignments : Kept(assignments'[i], assignments[i]),
           NEW row \in Row, assignments'[last] = row,
           Exists(row.designation),
           row.origin # "onboard" => designations[row.designation] = Level[row.node],
           LET k == row.replaces IN k # 0 =>
               /\ k \in DOMAIN assignments
               /\ assignments[k].isActive
               /\ ~assignments'[k].isActive
               /\ assignments[k].node = row.node
               /\ assignments[k].designation = row.designation
               /\ assignments[k].user # row.user,
           <<row.user, row.node, row.designation>> \in Targets(req[p]),
           <<row.user, row.node, row.designation>> \notin contended
               => ~AlreadyAssigned(row.user, row.node, row.designation),
           RequestSound(r)'
    PROVE  AssignmentsInv'
  <1>1. /\ req' \in [Procs -> Request]
        /\ req'[p] = r
        /\ \A q \in Procs \ {p} : req'[q] = req[q]
        /\ Marked'
        /\ contended \subseteq contended'
        /\ contended' \subseteq People \X Nodes \X DesignationIds
        /\ disturbed' \subseteq Procs
    BY GotoMarks
  <1>2. /\ assignments \in Seq(Row)
        /\ DOMAIN assignments = 1..(last - 1)
        /\ DOMAIN assignments' = 1..last
    BY DEF AssignmentsInv, TypeOK
  <1>3. \A i \in DOMAIN assignments' : i \in DOMAIN assignments \/ i = last
    BY <1>2
  <1>4. \A i \in DOMAIN assignments : assignments[i] \in Row /\ i \in DOMAIN assignments' /\ i # last
    BY <1>2
  <1>5. TypeOK'
    BY <1>1 DEF AssignmentsInv, TypeOK, Row
  <1>6. Numbered'
    BY DEF AssignmentsInv, Numbered, Exists
  <1>7. LevelsMatch' /\ DesignationsKept'
    BY <1>3 DEF AssignmentsInv, LevelsMatch, DesignationsKept, Exists, Kept
  <1>8. HandedOverOnce'
    <2>1. ASSUME NEW i \in DOMAIN assignments, assignments[i].replaces # 0
          PROVE  LET k == assignments[i].replaces IN
                 /\ k \in DOMAIN assignments
                 /\ k < i
                 /\ ~assignments'[k].isActive
                 /\ assignments'[k].node = assignments'[i].node
                 /\ assignments'[k].designation = assignments'[i].designation
                 /\ assignments'[k].user # assignments'[i].user
                 /\ row.replaces # k
                 /\ \A j \in DOMAIN assignments : assignments'[j].replaces = k => j = i
      <3>1. PICK k \in Nat : k = assignments[i].replaces
        BY <2>1, RowsAreTyped, BoundsAssumption DEF AssignmentsInv, Row
      <3>2. k \in DOMAIN assignments /\ k < i /\ ~assignments[k].isActive
        BY <2>1, <3>1, <1>2, RowsAreTyped, BoundsAssumption DEF AssignmentsInv, HandedOverOnce
      <3> QED
        BY <2>1, <3>1, <3>2 DEF AssignmentsInv, HandedOverOnce, Kept
    <2>2. ASSUME row.replaces # 0
          PROVE  LET k == row.replaces IN
                 /\ k < last
                 /\ ~assignments'[k].isActive
                 /\ assignments'[k].node = row.node
                 /\ assignments'[k].designation = row.designation
                 /\ assignments'[k].user # row.user
                 /\ \A j \in DOMAIN assignments : assignments'[j].replaces # k
      <3>1. PICK k \in DOMAIN assignments : k = row.replaces
        BY <2>2
      <3>2. /\ assignments[k].isActive
            /\ ~assignments'[k].isActive
            /\ assignments[k].node = row.node
            /\ assignments[k].designation = row.designation
            /\ assignments[k].user # row.user
        BY <2>2, <3>1
      <3>3. k < last
        BY <1>2
      <3>4. \A j \in DOMAIN assignments : assignments[j].replaces # k
        BY <2>2, <3>1, <3>2 DEF AssignmentsInv, HandedOverOnce
      <3> QED
        BY <3>1, <3>2, <3>3, <3>4 DEF Kept
    <2>3. \A i \in DOMAIN assignments : assignments'[i].replaces = assignments[i].replaces
      BY DEF Kept
    <2>4. ASSUME NEW i \in DOMAIN assignments', assignments'[i].replaces # 0
          PROVE  LET k == assignments'[i].replaces IN
                 /\ k < i
                 /\ ~assignments'[k].isActive
                 /\ assignments'[k].node = assignments'[i].node
                 /\ assignments'[k].designation = assignments'[i].designation
                 /\ assignments'[k].user # assignments'[i].user
                 /\ \A j \in DOMAIN assignments' : assignments'[j].replaces = k => j = i
      <3>1. CASE i = last
        BY <2>2, <2>4, <3>1, <1>3
      <3>2. CASE i \in DOMAIN assignments
        BY <2>1, <2>3, <2>4, <3>2, <1>3
      <3> QED
        BY <3>1, <3>2, <1>3
    <2> QED
      BY <2>4 DEF HandedOverOnce
  <1>9. NoDuplicateActive'
    <2>1. ASSUME NEW i \in DOMAIN assignments', NEW j \in DOMAIN assignments', i # j,
                 assignments'[j].isActive,
                 Holds(assignments'[i], assignments'[j].user, assignments'[j].node,
                       assignments'[j].designation)
          PROVE  <<assignments'[j].user, assignments'[j].node, assignments'[j].designation>>
                   \in contended
      <3>1. CASE i \in DOMAIN assignments /\ j \in DOMAIN assignments
        BY <2>1, <3>1 DEF AssignmentsInv, NoDuplicateActive, Holds, Kept
      <3>2. CASE i = last /\ j \in DOMAIN assignments
        BY <2>1, <3>2 DEF AlreadyAssigned, Holds, Kept
      <3>3. CASE j = last /\ i \in DOMAIN assignments
        <4>1. Holds(assignments[i], row.user, row.node, row.designation)
          BY <2>1, <3>3 DEF Holds, Kept
        <4>2. AlreadyAssigned(row.user, row.node, row.designation)
          BY <3>3, <4>1 DEF AlreadyAssigned
        <4> QED
          BY <3>3, <4>2
      <3> QED
        BY <2>1, <3>1, <3>2, <3>3, <1>3
    <2> QED
      BY <2>1, <1>1 DEF NoDuplicateActive, Holds
  <1>10. ASSUME NEW q \in Procs PROVE RequestSound(req[q])'
    <2>1. CASE q = p
      BY <1>1, <2>1 DEF RequestSound, LevelSound, LevelChecked, PreviousSound, DuplicateSound,
           OnboardSound
    <2>2. CASE q # p
      <3>1. RequestSound(req[q]) /\ req'[q] = req[q]
        BY <1>1, <2>2 DEF AssignmentsInv
      <3>2. LevelSound(req[q])' /\ OnboardSound(req[q])'
        BY <3>1, <1>1 DEF RequestSound, LevelSound, OnboardSound, Exists, LevelChecked
      <3>3. PreviousSound(req[q])'
        BY <3>1, <1>4 DEF RequestSound, PreviousSound, Kept
      <3>4. ASSUME NEW t \in Targets(req[q]),
                   req[q].pc \in {"insert", "handover", "onboard"}, t \notin contended,
                   NEW i \in DOMAIN assignments',
                   Holds(assignments'[i], t[1], t[2], t[3])
            PROVE  FALSE
        <4>1. CASE i \in DOMAIN assignments
          BY <3>1, <3>4, <4>1 DEF RequestSound, DuplicateSound, AlreadyAssigned, Holds, Kept
        <4>2. CASE i = last
          <5>1. t \in People \X Nodes \X DesignationIds
            BY <3>4, TargetsAreTyped DEF AssignmentsInv, TypeOK
          <5>2. t = <<row.user, row.node, row.designation>>
            BY <3>4, <4>2, <5>1 DEF Holds
          <5> QED
            BY <5>2, <3>4, <2>2 DEF AssignmentsInv, Marked
        <4> QED
          BY <4>1, <4>2, <1>3
      <3>5. DuplicateSound(req[q])'
        BY <3>1, <3>4, <1>1 DEF DuplicateSound, AlreadyAssigned, Holds
      <3> QED
        BY <3>2, <3>3, <3>5 DEF RequestSound
    <2> QED
      BY <2>1, <2>2
  <1> QED
    BY <1>1, <1>5, <1>6, <1>7, <1>8, <1>9, <1>10 DEF AssignmentsInv

\* The queries that only read.
LEMMA AssignReads ==
    ASSUME AssignmentsInv, NEW p \in Procs,
           Assign(p) \/ CheckNode(p) \/ CheckDesignation(p) \/ CheckDuplicate(p)
    PROVE  AssignmentsInv'
  <1> USE DEF tables
  <1>0. active \subseteq Subjects /\ active' \subseteq Subjects
    BY DEF AssignmentsInv, TypeOK, Assign, CheckNode, CheckDesignation, CheckDuplicate
  <1>1. CASE Assign(p)
    <2>1. PICK user \in People, node \in Nodes, designation \in DesignationIds :
            Goto(p, [pc |-> "node", user |-> user, node |-> node, designation |-> designation])
      BY <1>1 DEF Assign
    <2> DEFINE r == [pc |-> "node", user |-> user, node |-> node, designation |-> designation]
    <2>2. r \in Request
      BY DEF Request, AssignPc
    <2>3. LevelSound(r) /\ PreviousSound(r)
      BY DEF LevelSound, LevelChecked, PreviousSound, HandoverPc
    <2> QED
      BY <1>0, <1>1, <2>1, <2>2, <2>3, SlotStep DEF Assign
  <1>2. CASE CheckNode(p) \/ CheckDesignation(p) \/ CheckDuplicate(p)
    <2>1. PICK r \in Request : r = req[p]
      BY DEF AssignmentsInv, TypeOK
    <2>2. r.pc \in AssignPc /\ RequestSound(r)
      BY <1>2, <2>1 DEF CheckNode, CheckDesignation, CheckDuplicate, AssignPc, AssignmentsInv
    <2>3. /\ r.user \in People /\ r.node \in Nodes /\ r.designation \in DesignationIds
          /\ \A next \in AssignPc :
                [r EXCEPT !.pc = next] =
                  [pc |-> next, user |-> r.user, node |-> r.node, designation |-> r.designation]
      BY <2>2 DEF Request, Idle, AssignPc, HandoverPc
    <2>4. \A next \in AssignPc : [r EXCEPT !.pc = next] \in Request
      BY <2>3 DEF Request
    <2>5. CASE Goto(p, Idle)
      BY <1>0, <1>2, <2>5, IdleIsSound, SlotStep
         DEF CheckNode, CheckDesignation, CheckDuplicate, RequestSound, Idle
    <2>6. CASE CheckNode(p) /\ ~Goto(p, Idle)
      <3> DEFINE s == [r EXCEPT !.pc = "designation"]
      <3>1. Goto(p, s)
        BY <2>1, <2>6 DEF CheckNode, Continue
      <3>2. s.pc = "designation" /\ s \in Request
        BY <2>3, <2>4 DEF AssignPc
      <3>3. LevelSound(s) /\ PreviousSound(s)
        BY <3>2 DEF LevelSound, LevelChecked, PreviousSound, HandoverPc
      <3> HIDE DEF s
      <3> QED
        BY <1>0, <2>6, <3>1, <3>2, <3>3, SlotStep DEF CheckNode
    <2>7. CASE CheckDesignation(p) /\ ~Goto(p, Idle)
      <3> DEFINE s == [r EXCEPT !.pc = "duplicate"]
      <3>1. Goto(p, s) /\ LevelMatches(r.node, r.designation)
        BY <2>1, <2>7 DEF CheckDesignation, Continue
      <3>2. s.pc = "duplicate" /\ s \in Request /\ s.node = r.node /\ s.designation = r.designation
        BY <2>3, <2>4 DEF AssignPc
      <3>3. LevelSound(s) /\ PreviousSound(s)
        BY <2>3, <3>1, <3>2 DEF LevelSound, LevelChecked, LevelMatches, PreviousSound, HandoverPc,
             AssignmentsInv, Numbered
      <3> HIDE DEF s
      <3> QED
        BY <1>0, <2>7, <3>1, <3>2, <3>3, SlotStep DEF CheckDesignation
    <2>8. CASE CheckDuplicate(p) /\ ~Goto(p, Idle)
      <3> DEFINE s == [r EXCEPT !.pc = "insert"]
      <3>1. Goto(p, s) /\ ~AlreadyAssigned(r.user, r.node, r.designation) /\ r.pc = "duplicate"
        BY <2>1, <2>8 DEF CheckDuplicate, Continue
      <3>2. s.pc = "insert" /\ s \in Request
            /\ s.user = r.user /\ s.node = r.node /\ s.designation = r.designation
        BY <2>3, <2>4 DEF AssignPc
      <3>3. LevelSound(s) /\ PreviousSound(s)
        BY <2>2, <3>1, <3>2 DEF RequestSound, LevelSound, LevelChecked, PreviousSound, HandoverPc
      <3>4. \A t \in Targets(s) : ~AlreadyAssigned(t[1], t[2], t[3])
        BY <3>1, <3>2 DEF Targets, AssignPc, HandoverPc
      <3> HIDE DEF s
      <3> QED
        BY <1>0, <2>8, <3>1, <3>2, <3>3, <3>4, SlotStep DEF CheckDuplicate
    <2> QED
      BY <1>2, <2>5, <2>6, <2>7, <2>8
  <1> QED
    BY <1>1, <1>2

\* A request ends, and the tables stay.
LEMMA EndPreserves ==
    ASSUME AssignmentsInv, NEW p \in Procs, Goto(p, Idle),
           UNCHANGED <<designations, created, admins, active, assignments>>
    PROVE  AssignmentsInv'
  BY IdleIsSound, SlotStep DEF AssignmentsInv, TypeOK, RequestSound, Idle

\* What appending a row to the table, or to the table with a row closed, gives.
LEMMA AppendedRows ==
    ASSUME AssignmentsInv, NEW base \in Seq(Row), Len(base) = Len(assignments),
           Len(assignments) < MaxAssignments,
           NEW row \in Row, assignments' = Append(base, row), admins' = admins
    PROVE  /\ Len(assignments) + 1 \in Nat
           /\ Len(assignments) + 1 <= MaxAssignments
           /\ assignments' \in Seq(Row)
           /\ Len(assignments') = Len(assignments) + 1
           /\ \A i \in DOMAIN assignments : i \in DOMAIN base /\ assignments'[i] = base[i]
           /\ assignments'[Len(assignments) + 1] = row
  <1>1. assignments \in Seq(Row) /\ Len(assignments) \in Nat
    BY DEF AssignmentsInv, TypeOK
  <1> QED
    BY <1>1, BoundsAssumption

\* assignUser inserts what it has checked.
LEMMA InsertPreserves ==
    ASSUME AssignmentsInv, NEW p \in Procs, Insert(p)
    PROVE  AssignmentsInv'
  <1>1. PICK r \in Request : r = req[p]
    BY DEF AssignmentsInv, TypeOK
  <1>2. r.pc = "insert" /\ RequestSound(r) /\ Goto(p, Idle)
        /\ UNCHANGED <<designations, created, admins, active>>
    BY <1>1 DEF Insert, AssignmentsInv
  <1>3. r.user \in People /\ r.node \in Nodes /\ r.designation \in DesignationIds
    BY <1>2 DEF Request, Idle, AssignPc, HandoverPc
  <1>4. CASE assignments' = assignments
    BY <1>2, <1>4, EndPreserves
  <1>5. CASE Referable(r.user, r.designation)
    <2>1. PICK row : row = NewRow(r.user, r.node, r.designation, "assign", 0)
      OBVIOUS
    <2>2. row \in Row
      BY <2>1, <1>3, <1>5, BoundsAssumption
         DEF NewRow, Row, Referable, AssignmentsInv, TypeOK, People
    <2>3. assignments' = Append(assignments, row) /\ Len(assignments) < MaxAssignments
      BY <1>1, <1>5, <2>1 DEF Insert
    <2>4. /\ row.user = r.user /\ row.node = r.node /\ row.designation = r.designation
          /\ row.origin = "assign" /\ row.replaces = 0
      BY <2>1 DEF NewRow
    <2>5. Exists(row.designation) /\ designations[row.designation] = Level[row.node]
      BY <1>2, <1>5, <2>4 DEF Referable, RequestSound, LevelSound, LevelChecked
    <2>6. <<row.user, row.node, row.designation>> \in Targets(req[p])
      BY <1>1, <1>2, <2>4 DEF Targets, AssignPc, HandoverPc
    <2>7. <<row.user, row.node, row.designation>> \notin contended
            => ~AlreadyAssigned(row.user, row.node, row.designation)
      BY <1>1, <1>2, <2>4, <2>6 DEF RequestSound, DuplicateSound
    <2>8. /\ Len(assignments) + 1 \in Nat /\ Len(assignments) + 1 <= MaxAssignments
          /\ assignments' \in Seq(Row) /\ Len(assignments') = Len(assignments) + 1
          /\ \A i \in DOMAIN assignments : assignments'[i] = assignments[i]
          /\ assignments'[Len(assignments) + 1] = row
      BY <2>2, <2>3, <1>2, AppendedRows DEF AssignmentsInv, TypeOK
    <2>9. \A i \in DOMAIN assignments : Kept(assignments'[i], assignments[i])
      BY <2>8 DEF Kept
    <2>10. RequestSound(Idle)'
      BY DEF Idle, RequestSound, LevelSound, LevelChecked, PreviousSound, DuplicateSound,
             OnboardSound, Targets, AssignPc, HandoverPc
    <2> QED
      BY <1>2, <2>2, <2>4, <2>5, <2>6, <2>7, <2>8, <2>9, <2>10, IdleIsSound, InsertStep
  <1> QED
    BY <1>1, <1>4, <1>5 DEF Insert

\* reassign's queries that only read.
LEMMA ReassignReads ==
    ASSUME AssignmentsInv, NEW p \in Procs,
           Reassign(p) \/ CheckPrevious(p) \/ CheckSuccessor(p)
    PROVE  AssignmentsInv'
  <1> USE DEF tables
  <1>0. active \subseteq Subjects /\ active' \subseteq Subjects
        /\ UNCHANGED <<designations, created, admins, assignments>>
    BY DEF AssignmentsInv, TypeOK, Reassign, CheckPrevious, CheckSuccessor
  <1>1. CASE Reassign(p)
    <2>1. PICK user \in People, i \in DOMAIN assignments :
            Goto(p, [pc |-> "previous", user |-> user, previous |-> i])
      BY <1>1 DEF Reassign
    <2> DEFINE r == [pc |-> "previous", user |-> user, previous |-> i]
    <2>2. r \in Request
      BY RowsAreTyped DEF Request, AssignmentsInv
    <2>3. LevelSound(r) /\ PreviousSound(r)
      BY DEF LevelSound, LevelChecked, PreviousSound, HandoverPc
    <2> QED
      BY <1>0, <2>1, <2>2, <2>3, SlotStep
  <1>2. CASE CheckPrevious(p)
    <2>1. PICK r \in Request : r = req[p]
      BY DEF AssignmentsInv, TypeOK
    <2>2. r.pc = "previous" /\ RequestSound(r)
      BY <1>2, <2>1 DEF CheckPrevious, AssignmentsInv
    <2>3. r.previous \in DOMAIN assignments /\ r.user \in People /\ r.previous \in 1..MaxAssignments
      BY <2>2 DEF RequestSound, PreviousSound, Request, Idle, AssignPc, HandoverPc
    <2>4. CASE Goto(p, Idle)
      BY <1>0, <1>2, <2>4, IdleIsSound, EndPreserves DEF CheckPrevious
    <2>5. CASE ~Goto(p, Idle)
      <3>1. PICK row \in Row : row = assignments[r.previous]
        BY <2>3, RowsAreTyped DEF AssignmentsInv
      <3>2. PICK s : s = [pc |-> "successor", user |-> r.user, node |-> row.node,
                          designation |-> row.designation, previous |-> r.previous]
        OBVIOUS
      <3>3. Goto(p, s) /\ row.user # r.user /\ LevelMatches(row.node, row.designation)
        BY <1>2, <2>1, <2>5, <3>1, <3>2 DEF CheckPrevious
      <3>4. s \in Request
        BY <2>3, <3>1, <3>2 DEF Request, HandoverPc, Row
      <3>5. LevelSound(s)
        BY <3>1, <3>2, <3>3
           DEF LevelSound, LevelMatches, AssignmentsInv, Numbered, Row
      <3>6. PreviousSound(s)
        BY <2>3, <3>1, <3>2, <3>3 DEF PreviousSound
      <3> QED
        BY <1>0, <3>2, <3>3, <3>4, <3>5, <3>6, SlotStep
    <2> QED
      BY <2>4, <2>5
  <1>3. CASE CheckSuccessor(p)
    <2>1. PICK r \in Request : r = req[p]
      BY DEF AssignmentsInv, TypeOK
    <2>2. r.pc = "successor" /\ RequestSound(r)
      BY <1>3, <2>1 DEF CheckSuccessor, AssignmentsInv
    <2>3. CASE Goto(p, Idle)
      BY <1>0, <1>3, <2>3, IdleIsSound, EndPreserves DEF CheckSuccessor
    <2>4. CASE ~Goto(p, Idle)
      <3>1. PICK s : s = [r EXCEPT !.pc = "handover"]
        OBVIOUS
      <3>2. Goto(p, s) /\ ~AlreadyAssigned(r.user, r.node, r.designation)
        BY <1>3, <2>1, <2>4, <3>1 DEF CheckSuccessor, Continue
      <3>3. /\ s \in Request /\ s.pc = "handover"
            /\ s.user = r.user /\ s.node = r.node /\ s.designation = r.designation
            /\ s.previous = r.previous
        BY <2>2, <3>1 DEF Request, Idle, AssignPc, HandoverPc
      <3>4. LevelSound(s) /\ PreviousSound(s)
        BY <2>2, <3>3 DEF RequestSound, LevelSound, LevelChecked, PreviousSound, HandoverPc
      <3>5. \A t \in Targets(s) : ~AlreadyAssigned(t[1], t[2], t[3])
        BY <3>2, <3>3 DEF Targets, AssignPc, HandoverPc
      <3> QED
        BY <1>0, <3>2, <3>3, <3>4, <3>5, SlotStep
    <2> QED
      BY <2>3, <2>4
  <1> QED
    BY <1>1, <1>2, <1>3

\* Closing a row of the table keeps it a table.
LEMMA ClosedRows ==
    ASSUME AssignmentsInv, NEW k \in DOMAIN assignments,
           NEW base, base = [assignments EXCEPT ![k].isActive = FALSE]
    PROVE  /\ base \in Seq(Row)
           /\ Len(base) = Len(assignments)
           /\ \A i \in DOMAIN assignments : Kept(base[i], assignments[i])
           /\ ~base[k].isActive
  <1>1. assignments \in Seq(Row) /\ Len(assignments) \in Nat
    BY DEF AssignmentsInv, TypeOK
  <1>2. \A i \in DOMAIN assignments : assignments[i] \in Row /\ base[i] \in Row
    <2>1. TAKE i \in DOMAIN assignments
    <2>2. assignments[i] \in Row
      BY <1>1
    <2>3. CASE i = k
      <3>1. base[i] = [assignments[i] EXCEPT !.isActive = FALSE]
        BY <2>3
      <3> QED
        BY <2>2, <3>1 DEF Row
    <2>4. CASE i # k
      BY <2>2, <2>4
    <2> QED
      BY <2>2, <2>3, <2>4
  <1>3. DOMAIN base = 1..Len(assignments)
    BY <1>1
  <1>4. base \in [1..Len(assignments) -> Row]
    BY <1>1, <1>2, <1>3
  <1>5. base \in Seq(Row) /\ Len(base) = Len(assignments)
    BY <1>1, <1>4
  <1>6. \A i \in DOMAIN assignments :
          base[i] = IF i = k THEN [assignments[i] EXCEPT !.isActive = FALSE] ELSE assignments[i]
    OBVIOUS
  <1>7. \A i \in DOMAIN assignments : Kept(base[i], assignments[i])
    BY <1>2, <1>6 DEF Kept, Row
  <1>8. ~base[k].isActive
    BY <1>2, <1>6 DEF Row
  <1> QED
    BY <1>5, <1>7, <1>8

\* The transaction closes the row it names and inserts its successor.
LEMMA HandoverPreserves ==
    ASSUME AssignmentsInv, NEW p \in Procs, Handover(p)
    PROVE  AssignmentsInv'
  <1>1. PICK r \in Request : r = req[p]
    BY DEF AssignmentsInv, TypeOK
  <1>2. r.pc = "handover" /\ RequestSound(r) /\ Goto(p, Idle)
        /\ UNCHANGED <<designations, created, admins, active>>
    BY <1>1 DEF Handover, AssignmentsInv
  <1>3. /\ r.user \in People /\ r.node \in Nodes /\ r.designation \in DesignationIds
        /\ r.previous \in DOMAIN assignments
        /\ assignments[r.previous].node = r.node
        /\ assignments[r.previous].designation = r.designation
        /\ assignments[r.previous].user # r.user
    BY <1>2 DEF Request, Idle, AssignPc, HandoverPc, RequestSound, PreviousSound
  <1>4. CASE assignments' = assignments
    BY <1>2, <1>4, EndPreserves
  <1>5. CASE assignments[r.previous].isActive /\ Referable(r.user, r.designation)
    <2>1. PICK row : row = NewRow(r.user, r.node, r.designation, "reassign", r.previous)
      OBVIOUS
    <2>2. row \in Row
      BY <2>1, <1>3, <1>5, RowsAreTyped, BoundsAssumption
         DEF NewRow, Row, Referable, AssignmentsInv, TypeOK, People
    <2>3. PICK base : base = [assignments EXCEPT ![r.previous].isActive = FALSE]
      OBVIOUS
    <2>4. assignments' = Append(base, row) /\ Len(assignments) < MaxAssignments
      BY <1>1, <1>5, <2>1, <2>3 DEF Handover
    <2>5. /\ row.user = r.user /\ row.node = r.node /\ row.designation = r.designation
          /\ row.origin = "reassign" /\ row.replaces = r.previous
      BY <2>1 DEF NewRow
    <2>6. Exists(row.designation) /\ designations[row.designation] = Level[row.node]
      BY <1>2, <1>5, <2>5 DEF Referable, RequestSound, LevelSound, LevelChecked, HandoverPc
    <2>7. <<row.user, row.node, row.designation>> \in Targets(req[p])
      BY <1>1, <1>2, <2>5 DEF Targets, AssignPc, HandoverPc
    <2>8. <<row.user, row.node, row.designation>> \notin contended
            => ~AlreadyAssigned(row.user, row.node, row.designation)
      BY <1>1, <1>2, <2>5, <2>7 DEF RequestSound, DuplicateSound
    <2>9. /\ base \in Seq(Row) /\ Len(base) = Len(assignments)
          /\ \A i \in DOMAIN assignments : Kept(base[i], assignments[i])
          /\ ~base[r.previous].isActive
      BY <1>3, <2>3, ClosedRows
    <2>10. /\ Len(assignments) + 1 \in Nat /\ Len(assignments) + 1 <= MaxAssignments
           /\ assignments' \in Seq(Row) /\ Len(assignments') = Len(assignments) + 1
           /\ \A i \in DOMAIN assignments : assignments'[i] = base[i]
           /\ assignments'[Len(assignments) + 1] = row
      BY <2>2, <2>4, <2>9, <1>2, AppendedRows
    <2>11. \A i \in DOMAIN assignments : Kept(assignments'[i], assignments[i])
      BY <2>9, <2>10
    <2>12. /\ r.previous \in DOMAIN assignments
           /\ assignments[r.previous].isActive
           /\ ~assignments'[r.previous].isActive
      BY <1>3, <1>5, <2>9, <2>10
    <2>13. RequestSound(Idle)'
      BY DEF Idle, RequestSound, LevelSound, LevelChecked, PreviousSound, DuplicateSound,
             OnboardSound, Targets, AssignPc, HandoverPc
    <2> QED
      BY <1>2, <1>3, <2>2, <2>5, <2>6, <2>7, <2>8, <2>10, <2>11, <2>12, <2>13, IdleIsSound,
         InsertStep
  <1> QED
    BY <1>1, <1>4, <1>5 DEF Handover

\* unassign only closes.
LEMMA UnassignPreserves ==
    ASSUME AssignmentsInv, NEW k \in DOMAIN assignments, Unassign(k)
    PROVE  AssignmentsInv'
  <1>1. UNCHANGED <<designations, created, admins, active, req, contended, disturbed>>
    BY DEF Unassign
  <1>2. /\ assignments' \in Seq(Row)
        /\ Len(assignments') = Len(assignments)
        /\ \A i \in DOMAIN assignments : Kept(assignments'[i], assignments[i])
    BY ClosedRows DEF Unassign
  <1>3. assignments \in Seq(Row) /\ DOMAIN assignments' = DOMAIN assignments
    BY <1>2 DEF AssignmentsInv, TypeOK
  <1>4. TypeOK'
    BY <1>1, <1>2 DEF AssignmentsInv, TypeOK, Row
  <1>5. Numbered' /\ LevelsMatch' /\ DesignationsKept'
    BY <1>1, <1>2, <1>3 DEF AssignmentsInv, Numbered, LevelsMatch, DesignationsKept, Exists, Kept
  <1>6. HandedOverOnce'
    <2>1. \A i \in DOMAIN assignments : assignments'[i].replaces = assignments[i].replaces
      BY <1>2 DEF Kept
    <2>2. ASSUME NEW i \in DOMAIN assignments, assignments[i].replaces # 0
          PROVE  LET m == assignments[i].replaces IN
                 /\ m < i
                 /\ ~assignments'[m].isActive
                 /\ assignments'[m].node = assignments'[i].node
                 /\ assignments'[m].designation = assignments'[i].designation
                 /\ assignments'[m].user # assignments'[i].user
                 /\ \A j \in DOMAIN assignments : assignments'[j].replaces = m => j = i
      <3>1. PICK m \in Nat : m = assignments[i].replaces
        BY <2>2, RowsAreTyped, BoundsAssumption DEF AssignmentsInv, Row
      <3>2. m \in DOMAIN assignments /\ m < i
        BY <2>2, <3>1, <1>3, RowsAreTyped, BoundsAssumption DEF AssignmentsInv, HandedOverOnce
      <3> QED
        BY <2>2, <2>1, <3>1, <3>2, <1>2 DEF AssignmentsInv, HandedOverOnce, Kept
    <2> QED
      BY <2>1, <2>2, <1>3 DEF HandedOverOnce
  <1>7. NoDuplicateActive'
    BY <1>1, <1>2, <1>3 DEF AssignmentsInv, NoDuplicateActive, Holds, Kept
  <1>8. Marked'
    BY <1>1 DEF AssignmentsInv, Marked, Targets
  <1>9. ASSUME NEW q \in Procs PROVE RequestSound(req[q])'
    <2>1. RequestSound(req[q])
      BY DEF AssignmentsInv
    <2>2. LevelSound(req[q])' /\ OnboardSound(req[q])'
      BY <2>1, <1>1 DEF RequestSound, LevelSound, LevelChecked, OnboardSound, Exists
    <2>3. PreviousSound(req[q])'
      BY <2>1, <1>1, <1>2, <1>3 DEF RequestSound, PreviousSound, Kept
    <2>4. DuplicateSound(req[q])'
      BY <2>1, <1>1, <1>2, <1>3 DEF RequestSound, DuplicateSound, AlreadyAssigned, Holds, Kept
    <2> QED
      BY <2>2, <2>3, <2>4 DEF RequestSound
  <1> QED
    BY <1>4, <1>5, <1>6, <1>7, <1>8, <1>9 DEF AssignmentsInv

\* A new administrator has no assignment yet.
LEMMA OnboardPreserves ==
    ASSUME AssignmentsInv, NEW p \in Procs, Onboard(p)
    PROVE  AssignmentsInv'
  <1>0. PICK n \in 0..MaxRows : \E todo \in [1..n -> Nodes \X DesignationIds] :
          Goto(p, [pc |-> "onboard", user |-> admins', todo |-> todo])
    BY DEF Onboard
  <1>1. PICK todo \in [1..n -> Nodes \X DesignationIds] :
          Goto(p, [pc |-> "onboard", user |-> admins', todo |-> todo])
    BY <1>0
  <1>2. PICK r : r = [pc |-> "onboard", user |-> admins + 1, todo |-> todo]
    OBVIOUS
  <1>3. /\ admins \in 1..MaxPeople /\ admins + 1 \in People /\ admins' = admins + 1
        /\ UNCHANGED <<designations, created, active, assignments>>
    BY BoundsAssumption DEF Onboard, AssignmentsInv, TypeOK, People
  <1>4. r \in Request /\ Goto(p, r)
    <2>1. 1..n \in SUBSET (1..MaxRows)
      BY BoundsAssumption
    <2>2. todo \in Pending
      BY <2>1 DEF Pending
    <2> QED
      BY <1>1, <1>2, <1>3, <2>2 DEF Request
  <1>5. /\ req' \in [Procs -> Request]
        /\ req'[p] = r
        /\ \A q \in Procs \ {p} : req'[q] = req[q]
        /\ Marked'
        /\ contended \subseteq contended'
        /\ Repeated(r) \subseteq contended'
        /\ contended' \subseteq People \X Nodes \X DesignationIds
        /\ disturbed' \subseteq Procs
    BY <1>4, GotoMarks
  <1>6. TypeOK'
    <2>1. Row \subseteq Row'
      BY <1>3 DEF Row
    <2>2. assignments' \in Seq(Row')
      BY <1>3, <2>1 DEF AssignmentsInv, TypeOK
    <2> QED
      BY <1>3, <1>5, <2>2 DEF AssignmentsInv, TypeOK
  <1>7. Numbered' /\ LevelsMatch' /\ DesignationsKept' /\ HandedOverOnce'
    BY <1>3 DEF AssignmentsInv, Numbered, LevelsMatch, DesignationsKept, HandedOverOnce, Exists
  <1>8. NoDuplicateActive'
    BY <1>3, <1>5 DEF AssignmentsInv, NoDuplicateActive, Holds
  <1>9. ASSUME NEW q \in Procs PROVE RequestSound(req[q])'
    <2>1. CASE q = p
      <3>1. \A i \in DOMAIN assignments : assignments[i].user # admins + 1
        BY RowsAreTyped, <1>3 DEF AssignmentsInv, Row
      <3>2. \A t \in Targets(r) : t[1] = admins + 1
        BY <1>2 DEF Targets, Given, AssignPc, HandoverPc
      <3>3. DuplicateSound(r)'
        BY <3>1, <3>2, <1>3 DEF DuplicateSound, AlreadyAssigned, Holds
      <3>4. LevelSound(r)' /\ PreviousSound(r)' /\ OnboardSound(r)'
        BY <1>2, <1>3, <1>5 DEF LevelSound, LevelChecked, PreviousSound, OnboardSound, HandoverPc
      <3> QED
        BY <3>3, <3>4, <1>5, <2>1 DEF RequestSound, LevelSound, LevelChecked, PreviousSound,
             DuplicateSound, OnboardSound
    <2>2. CASE q # p
      <3>1. RequestSound(req[q]) /\ req'[q] = req[q] /\ req[q] \in Request
        BY <1>5, <2>2 DEF AssignmentsInv, TypeOK
      <3>2. OnboardSound(req[q])'
        <4>1. CASE req[q].pc = "onboard"
          BY <4>1, <3>1, <1>3, <1>5 DEF RequestSound, OnboardSound, People, Request, Idle,
               AssignPc, HandoverPc
        <4>2. CASE req[q].pc # "onboard"
          BY <4>2, <3>1 DEF OnboardSound
        <4> QED
          BY <4>1, <4>2
      <3> QED
        BY <3>1, <3>2, <1>3, <1>5 DEF RequestSound, LevelSound, PreviousSound, DuplicateSound,
             Exists, AlreadyAssigned, Holds, LevelChecked
    <2> QED
      BY <2>1, <2>2
  <1> QED
    BY <1>5, <1>6, <1>7, <1>8, <1>9 DEF AssignmentsInv

\* The rest of the list, once one of its rows has had its turn.
LEMMA RestOfList ==
    ASSUME NEW r \in Request, r.pc = "onboard", NEW i \in DOMAIN r.todo,
           NEW s, s = Rest(r, i)
    PROVE  /\ s \in Request /\ s.pc = "onboard" /\ s.user = r.user
           /\ DOMAIN s.todo = DOMAIN r.todo \ {i}
           /\ \A j \in DOMAIN s.todo : s.todo[j] = r.todo[j]
           /\ Targets(s) \subseteq Targets(r)
           /\ Repeated(s) \subseteq Repeated(r)
           /\ Given(r.user, r.todo[i]) \in Targets(r)
           /\ \A t \in Targets(s) : t # Given(r.user, r.todo[i]) \/ t \in Repeated(r)
  <1>1. /\ r.user \in People /\ r.todo \in Pending
        /\ s = [pc |-> "onboard", user |-> r.user,
                todo |-> Restrict(r.todo, DOMAIN r.todo \ {i})]
    BY DEF Rest, Request, Idle, AssignPc, HandoverPc
  <1>2. PICK S \in SUBSET (1..MaxRows) : r.todo \in [S -> Nodes \X DesignationIds]
    BY <1>1 DEF Pending
  <1>3. /\ DOMAIN s.todo = S \ {i}
        /\ \A j \in S \ {i} : s.todo[j] = r.todo[j]
        /\ s.todo \in [S \ {i} -> Nodes \X DesignationIds]
    <2>1. s.todo = [j \in S \ {i} |-> r.todo[j]]
      BY <1>1, <1>2 DEF Restrict
    <2> HIDE <1>1
    <2> QED
      BY <2>1, <1>2
  <1>4. s.todo \in Pending
    BY <1>2, <1>3 DEF Pending
  <1>5. s \in Request
    BY <1>1, <1>4 DEF Request
  <1>6. /\ DOMAIN r.todo = S /\ s.pc = "onboard" /\ s.user = r.user
        /\ Targets(r) = {Given(r.user, r.todo[j]) : j \in DOMAIN r.todo}
        /\ Targets(s) = {Given(s.user, s.todo[j]) : j \in DOMAIN s.todo}
    <2>1. s.pc = "onboard" /\ s.user = r.user
      BY <1>1
    <2>2. DOMAIN r.todo = S
      BY <1>2
    <2> QED
      BY <2>1, <2>2 DEF Targets, AssignPc, HandoverPc
  <1>7. Targets(s) \subseteq Targets(r) /\ Given(r.user, r.todo[i]) \in Targets(r)
    BY <1>3, <1>6
  <1>8. ASSUME NEW t \in Repeated(s) PROVE t \in Repeated(r)
    <2>1. PICK j \in DOMAIN s.todo, k \in DOMAIN s.todo :
            k # j /\ s.todo[j] = s.todo[k] /\ t = Given(s.user, s.todo[j])
      BY <1>6, <1>8 DEF Repeated
    <2>2. /\ j \in DOMAIN r.todo /\ k \in DOMAIN r.todo \ {j} /\ r.todo[j] = r.todo[k]
          /\ t = Given(r.user, r.todo[j])
      BY <2>1, <1>3, <1>6
    <2> QED
      BY <2>2 DEF Repeated
  <1>9. ASSUME NEW t \in Targets(s), t = Given(r.user, r.todo[i]) PROVE t \in Repeated(r)
    <2>1. PICK j \in S \ {i} : t = Given(r.user, r.todo[j])
      BY <1>3, <1>6, <1>9
    <2>2. r.todo[j] = r.todo[i]
      <3>1. r.todo[j] \in Nodes \X DesignationIds /\ r.todo[i] \in Nodes \X DesignationIds
        BY <1>2, <1>6
      <3>2. r.todo[j][1] = r.todo[i][1] /\ r.todo[j][2] = r.todo[i][2]
        BY <2>1, <1>9 DEF Given
      <3> QED
        BY <3>1, <3>2
    <2> QED
      BY <1>6, <2>1, <2>2 DEF Repeated
  <1> QED
    BY <1>3, <1>5, <1>6, <1>7, <1>8, <1>9

\* create-user inserts its rows one by one.
LEMMA OnboardInsertPreserves ==
    ASSUME AssignmentsInv, NEW p \in Procs, OnboardInsert(p)
    PROVE  AssignmentsInv'
  <1>1. PICK r \in Request : r = req[p]
    BY DEF AssignmentsInv, TypeOK
  <1>2. r.pc = "onboard" /\ RequestSound(r)
        /\ UNCHANGED <<designations, created, admins, active>>
    BY <1>1 DEF OnboardInsert, AssignmentsInv
  <1>3. PICK i \in DOMAIN r.todo :
          /\ Len(assignments) < MaxAssignments
          /\ assignments' = IF Referable(r.user, r.todo[i][2])
                            THEN Append(assignments,
                                   NewRow(r.user, r.todo[i][1], r.todo[i][2], "onboard", 0))
                            ELSE assignments
          /\ Goto(p, Rest(r, i))
    BY <1>1 DEF OnboardInsert
  <1>4. PICK s : s = Rest(r, i)
    OBVIOUS
  <1>5. /\ s \in Request /\ s.pc = "onboard" /\ s.user = r.user
        /\ Targets(s) \subseteq Targets(r)
        /\ Repeated(s) \subseteq Repeated(r)
        /\ Given(r.user, r.todo[i]) \in Targets(r)
        /\ \A t \in Targets(s) : t # Given(r.user, r.todo[i]) \/ t \in Repeated(r)
    BY <1>2, <1>4, RestOfList
  <1>6. /\ \A t \in Targets(r) : t \notin contended => ~AlreadyAssigned(t[1], t[2], t[3])
        /\ r.user <= admins
        /\ Repeated(r) \subseteq contended
    BY <1>2 DEF RequestSound, DuplicateSound, OnboardSound
  <1>7. LevelSound(s) /\ PreviousSound(s)
    BY <1>5 DEF LevelSound, LevelChecked, PreviousSound, HandoverPc
  <1>8. CASE assignments' = assignments
    BY <1>2, <1>3, <1>4, <1>5, <1>6, <1>7, <1>8, SlotStep DEF AssignmentsInv, TypeOK
  <1>9. CASE Referable(r.user, r.todo[i][2])
    <2>1. PICK row : row = NewRow(r.user, r.todo[i][1], r.todo[i][2], "onboard", 0)
      OBVIOUS
    <2>2. /\ row.user = r.user /\ row.node = r.todo[i][1] /\ row.designation = r.todo[i][2]
          /\ row.origin = "onboard" /\ row.replaces = 0 /\ row.isActive
      BY <2>1 DEF NewRow
    <2>3. <<row.user, row.node, row.designation>> = Given(r.user, r.todo[i])
      BY <2>2 DEF Given
    <2>4. r.user \in People /\ r.todo[i][1] \in Nodes /\ r.todo[i][2] \in DesignationIds
      <3>1. Given(r.user, r.todo[i]) \in People \X Nodes \X DesignationIds
        BY <1>5, TargetsAreTyped
      <3> QED
        BY <3>1 DEF Given
    <2>5. row \in Row
      BY <2>1, <2>4, <1>6, BoundsAssumption DEF NewRow, Row, AssignmentsInv, TypeOK, People
    <2>6. assignments' = Append(assignments, row) /\ Len(assignments) < MaxAssignments
      BY <1>3, <1>9, <2>1
    <2>7. /\ Len(assignments) + 1 \in Nat /\ Len(assignments) + 1 <= MaxAssignments
          /\ assignments' \in Seq(Row) /\ Len(assignments') = Len(assignments) + 1
          /\ \A j \in DOMAIN assignments : assignments'[j] = assignments[j]
          /\ assignments'[Len(assignments) + 1] = row
      BY <1>2, <2>5, <2>6, AppendedRows DEF AssignmentsInv, TypeOK
    <2>8. \A j \in DOMAIN assignments : Kept(assignments'[j], assignments[j])
      BY <2>7 DEF Kept
    <2>9. RequestSound(s)'
      <3>1. contended \subseteq contended' /\ Repeated(s) \subseteq contended'
        BY <1>3, <1>4 DEF Goto
      <3>2. LevelSound(s)' /\ PreviousSound(s)' /\ OnboardSound(s)'
        BY <1>2, <1>5, <1>6, <3>1
           DEF LevelSound, LevelChecked, PreviousSound, OnboardSound, HandoverPc
      <3>3. ASSUME NEW t \in Targets(s), t \notin contended,
                   NEW j \in DOMAIN assignments', Holds(assignments'[j], t[1], t[2], t[3])
            PROVE  FALSE
        <4>1. assignments \in Seq(Row)
          BY DEF AssignmentsInv, TypeOK
        <4>2. j \in DOMAIN assignments \/ j = Len(assignments) + 1
          BY <2>7, <4>1
        <4>3. CASE j \in DOMAIN assignments
          BY <1>5, <1>6, <2>7, <3>3, <4>3 DEF AlreadyAssigned
        <4>4. CASE j = Len(assignments) + 1
          <5>1. t \in People \X Nodes \X DesignationIds
            BY <1>5, <3>3, TargetsAreTyped
          <5>2. t = <<row.user, row.node, row.designation>>
            BY <2>7, <3>3, <4>4, <5>1 DEF Holds
          <5> QED
            BY <5>2, <2>3, <1>5, <1>6, <3>3
        <4> QED
          BY <4>2, <4>3, <4>4
      <3>4. DuplicateSound(s)'
        BY <3>1, <3>3 DEF DuplicateSound, AlreadyAssigned
      <3> QED
        BY <3>2, <3>4 DEF RequestSound
    <2>10. Exists(row.designation)
      BY <1>9, <2>2 DEF Referable
    <2>11. <<row.user, row.node, row.designation>> \in Targets(req[p])
      BY <1>1, <1>5, <2>3
    <2>12. <<row.user, row.node, row.designation>> \notin contended
             => ~AlreadyAssigned(row.user, row.node, row.designation)
      BY <1>5, <1>6, <2>3
    <2>13. Goto(p, s) /\ s \in Request
      BY <1>3, <1>4, <1>5
    <2> QED
      BY <1>2, <2>2, <2>5, <2>7, <2>8, <2>9, <2>10, <2>11, <2>12, <2>13, InsertStep
  <1> QED
    BY <1>3, <1>8, <1>9

\* A list that is done, a failed query and a dead worker end a request.
LEMMA EndsPreserve ==
    ASSUME AssignmentsInv, NEW p \in Procs, OnboardDone(p) \/ Crash(p)
    PROVE  AssignmentsInv'
  BY EndPreserves DEF OnboardDone, Crash, tables

\* remove counts first.
LEMMA RemoveReads ==
    ASSUME AssignmentsInv, NEW p \in Procs, Remove(p) \/ RemoveCount(p)
    PROVE  AssignmentsInv'
  <1>1. UNCHANGED <<designations, created, admins, active, assignments>>
        /\ active' \subseteq Subjects
    BY DEF Remove, RemoveCount, tables, AssignmentsInv, TypeOK
  <1>2. ASSUME NEW r \in Request, r.pc \in {"count", "delete"}
        PROVE  LevelSound(r) /\ PreviousSound(r) /\ Targets(r) = {}
    BY <1>2 DEF LevelSound, LevelChecked, PreviousSound, HandoverPc, Targets, AssignPc
  <1>3. CASE Remove(p)
    <2>1. PICK d \in DesignationIds : Goto(p, [pc |-> "count", removed |-> d])
      BY <1>3 DEF Remove
    <2>2. [pc |-> "count", removed |-> d] \in Request
      BY DEF Request
    <2> QED
      BY <1>1, <1>2, <2>1, <2>2, SlotStep
  <1>4. CASE RemoveCount(p)
    <2>1. PICK r \in Request : r = req[p]
      BY DEF AssignmentsInv, TypeOK
    <2>2. PICK s : s = [r EXCEPT !.pc = "delete"]
      OBVIOUS
    <2>3. r.pc = "count" /\ (Goto(p, s) \/ Goto(p, Idle))
      BY <1>4, <2>1, <2>2 DEF RemoveCount, Continue
    <2>4. s \in Request /\ s.pc = "delete"
      BY <2>2, <2>3 DEF Request, Idle, AssignPc, HandoverPc
    <2> QED
      BY <1>1, <1>2, <2>3, <2>4, SlotStep, EndPreserves
  <1> QED
    BY <1>3, <1>4

\* A designation without assignments goes away; its id is not used again.
LEMMA RemoveWritePreserves ==
    ASSUME AssignmentsInv, NEW p \in Procs, RemoveWrite(p)
    PROVE  AssignmentsInv'
  <1>1. PICK d \in DesignationIds : d = req[p].removed
    <2>1. req[p] \in Request /\ req[p].pc = "delete"
      BY DEF RemoveWrite, AssignmentsInv, TypeOK
    <2> QED
      BY <2>1 DEF Request, Idle, AssignPc, HandoverPc
  <1>2. Goto(p, Idle) /\ UNCHANGED <<created, admins, assignments>>
    BY DEF RemoveWrite
  <1>3. CASE UNCHANGED <<designations, active>>
    BY <1>2, <1>3, EndPreserves
  <1>4. CASE Unreferenced(d) /\ designations' = [designations EXCEPT ![d] = Null]
             /\ active' = active \ {<<"designation", d>>}
    <2>1. /\ req' \in [Procs -> Request]
          /\ req'[p] = Idle
          /\ \A q \in Procs \ {p} : req'[q] = req[q]
          /\ Marked'
          /\ contended \subseteq contended'
          /\ contended' \subseteq People \X Nodes \X DesignationIds
          /\ disturbed' \subseteq Procs
      BY <1>2, GotoMarks, IdleIsSound
    <2>2. /\ designations' \in [DesignationIds -> Levels \cup {Null}]
          /\ ~(designations'[d] # Null)
          /\ \A e \in DesignationIds \ {d} : designations'[e] = designations[e]
      BY <1>4 DEF AssignmentsInv, TypeOK
    <2>3. \A i \in DOMAIN assignments :
             assignments[i].designation \in DesignationIds \ {d}
      BY <1>4, RowsAreTyped DEF Unreferenced, AssignmentsInv, Row
    <2>4. TypeOK'
      BY <1>2, <1>4, <2>1, <2>2 DEF AssignmentsInv, TypeOK, Row
    <2>5. Numbered'
      BY <1>2, <2>2 DEF AssignmentsInv, Numbered, Exists
    <2>6. LevelsMatch' /\ DesignationsKept'
      BY <1>2, <2>2, <2>3 DEF AssignmentsInv, LevelsMatch, DesignationsKept, Exists
    <2>7. HandedOverOnce' /\ NoDuplicateActive'
      BY <1>2, <2>1 DEF AssignmentsInv, HandedOverOnce, NoDuplicateActive, Holds
    <2>8. ASSUME NEW q \in Procs PROVE RequestSound(req[q])'
      <3>1. CASE q = p
        BY <2>1, <3>1 DEF Idle, RequestSound, LevelSound, LevelChecked, PreviousSound,
             DuplicateSound, OnboardSound, Targets, AssignPc, HandoverPc
      <3>2. CASE q # p
        <4>1. RequestSound(req[q]) /\ req'[q] = req[q] /\ req[q] \in Request
          BY <2>1, <3>2 DEF AssignmentsInv, TypeOK
        <4>2. LevelSound(req[q])'
          <5>1. LevelChecked(req[q]) => req[q].designation \in DesignationIds
            BY <4>1 DEF LevelChecked, Request, Idle, AssignPc, HandoverPc
          <5> QED
            BY <4>1, <5>1, <1>2, <2>2 DEF RequestSound, LevelSound, LevelChecked, Exists
        <4> QED
          BY <4>1, <4>2, <1>2, <2>1 DEF RequestSound, PreviousSound, DuplicateSound, OnboardSound,
               AlreadyAssigned, Holds
      <3> QED
        BY <3>1, <3>2
    <2> QED
      BY <2>1, <2>4, <2>5, <2>6, <2>7, <2>8 DEF AssignmentsInv
  <1> QED
    BY <1>1, <1>3, <1>4 DEF RemoveWrite

\* A new designation has an id no request can have checked.
LEMMA CreateDesignationPreserves ==
    ASSUME AssignmentsInv, NEW level \in Levels, CreateDesignation(level)
    PROVE  AssignmentsInv'
  <1>1. /\ created \in Nat /\ created + 1 \in DesignationIds /\ created' = created + 1
        /\ UNCHANGED <<admins, assignments, req, contended, disturbed>>
    BY BoundsAssumption DEF CreateDesignation, AssignmentsInv, TypeOK, DesignationIds
  <1>2. /\ designations' \in [DesignationIds -> Levels \cup {Null}]
        /\ designations'[created + 1] = level
        /\ \A e \in DesignationIds \ {created + 1} : designations'[e] = designations[e]
    BY <1>1 DEF CreateDesignation, AssignmentsInv, TypeOK
  <1>3. \A i \in DOMAIN assignments :
          assignments[i].designation \in DesignationIds \ {created + 1}
    <2>1. ~Exists(created + 1)
      BY <1>1 DEF AssignmentsInv, Numbered
    <2> QED
      BY <2>1, RowsAreTyped DEF AssignmentsInv, DesignationsKept, Row
  <1>4. TypeOK'
    BY <1>1, <1>2 DEF CreateDesignation, AssignmentsInv, TypeOK, Row, Subjects, DesignationIds
  <1>5. Numbered'
    BY <1>1, <1>2 DEF AssignmentsInv, Numbered, Exists, DesignationIds
  <1>6. LevelsMatch' /\ DesignationsKept'
    BY <1>1, <1>2, <1>3 DEF AssignmentsInv, LevelsMatch, DesignationsKept, Exists
  <1>7. HandedOverOnce' /\ NoDuplicateActive' /\ Marked'
    BY <1>1 DEF AssignmentsInv, HandedOverOnce, NoDuplicateActive, Marked, Holds, Targets
  <1>8. ASSUME NEW q \in Procs PROVE RequestSound(req[q])'
    <2>1. RequestSound(req[q]) /\ req[q] \in Request
      BY DEF AssignmentsInv, TypeOK
    <2>2. LevelSound(req[q])'
      <3>1. LevelChecked(req[q]) =>
              req[q].designation \in DesignationIds /\ req[q].designation <= created
        BY <2>1 DEF RequestSound, LevelSound, LevelChecked, Request, Idle, AssignPc, HandoverPc
      <3> QED
        BY <2>1, <3>1, <1>1, <1>2
           DEF RequestSound, LevelSound, LevelChecked, Exists, DesignationIds
    <2> QED
      BY <2>1, <2>2, <1>1 DEF RequestSound, PreviousSound, DuplicateSound, OnboardSound,
           AlreadyAssigned, Holds
  <1> QED
    BY <1>4, <1>5, <1>6, <1>7, <1>8 DEF AssignmentsInv

\* A status concerns no row.
LEMMA SetStatusPreserves ==
    ASSUME AssignmentsInv, NEW s \in Changing, SetStatus(s)
    PROVE  AssignmentsInv'
  <1>1. UNCHANGED <<designations, created, admins, assignments, req, contended>>
        /\ active' \subseteq Subjects /\ disturbed' \subseteq Procs
    BY ChangingAssumption DEF SetStatus, AssignmentsInv, TypeOK
  <1>2. TypeOK'
    BY <1>1 DEF AssignmentsInv, TypeOK, Row
  <1>3. Numbered' /\ LevelsMatch' /\ DesignationsKept'
    BY <1>1 DEF AssignmentsInv, Numbered, LevelsMatch, DesignationsKept, Exists
  <1>4. HandedOverOnce' /\ NoDuplicateActive' /\ Marked'
    BY <1>1 DEF AssignmentsInv, HandedOverOnce, NoDuplicateActive, Marked, Holds, Targets
  <1>5. ASSUME NEW q \in Procs PROVE RequestSound(req[q])'
    BY <1>1 DEF AssignmentsInv, RequestSound, LevelSound, LevelChecked, PreviousSound,
         DuplicateSound, OnboardSound, AlreadyAssigned, Holds, Exists
  <1> QED
    BY <1>2, <1>3, <1>4, <1>5 DEF AssignmentsInv

\* The seed.
LEMMA InitAssignments == Init => AssignmentsInv
  <1> SUFFICES ASSUME Init PROVE AssignmentsInv
    OBVIOUS
  <1>1. \A p \in Procs : req[p] = Idle
    BY DEF Init
  <1>2. assignments \in Seq(Row) /\ Len(assignments) = 0 /\ DOMAIN assignments = {}
    BY DEF Init
  <1>3. TypeOK
    BY <1>2, IdleIsSound, BoundsAssumption DEF Init, TypeOK, Subjects, People
  <1>4. Numbered /\ LevelsMatch /\ DesignationsKept /\ HandedOverOnce /\ NoDuplicateActive
    BY <1>2 DEF Init, Numbered, LevelsMatch, DesignationsKept, HandedOverOnce, NoDuplicateActive,
         Exists
  <1>5. Marked
    BY <1>1, IdleIsSound DEF Marked
  <1> QED
    BY <1>1, <1>3, <1>4, <1>5, IdleIsSound DEF AssignmentsInv

\* Every step preserves the invariant.
LEMMA NextAssignments == AssignmentsInv /\ [Next]_vars => AssignmentsInv'
  <1> SUFFICES ASSUME AssignmentsInv, [Next]_vars PROVE AssignmentsInv'
    OBVIOUS
  <1>1. ASSUME NEW p \in Procs,
               \/ Assign(p) \/ CheckNode(p) \/ CheckDesignation(p) \/ CheckDuplicate(p) \/ Insert(p)
               \/ Reassign(p) \/ CheckPrevious(p) \/ CheckSuccessor(p) \/ Handover(p)
               \/ Onboard(p) \/ OnboardInsert(p) \/ OnboardDone(p)
               \/ Remove(p) \/ RemoveCount(p) \/ RemoveWrite(p)
               \/ Crash(p)
        PROVE  AssignmentsInv'
    BY <1>1, AssignReads, InsertPreserves, ReassignReads, HandoverPreserves, OnboardPreserves,
       OnboardInsertPreserves, EndsPreserve, RemoveReads, RemoveWritePreserves
  <1>2. ASSUME NEW i \in DOMAIN assignments, Unassign(i) PROVE AssignmentsInv'
    BY <1>2, UnassignPreserves
  <1>3. ASSUME NEW level \in Levels, CreateDesignation(level) PROVE AssignmentsInv'
    BY <1>3, CreateDesignationPreserves
  <1>4. ASSUME NEW s \in Changing, SetStatus(s) PROVE AssignmentsInv'
    BY <1>4, SetStatusPreserves
  <1>5. CASE UNCHANGED vars
    <2>1. TypeOK'
      BY <1>5 DEF vars, AssignmentsInv, TypeOK, Row
    <2>2. Numbered' /\ LevelsMatch' /\ DesignationsKept'
      BY <1>5 DEF vars, AssignmentsInv, Numbered, LevelsMatch, DesignationsKept, Exists
    <2>3. HandedOverOnce' /\ NoDuplicateActive' /\ Marked'
      BY <1>5 DEF vars, AssignmentsInv, HandedOverOnce, NoDuplicateActive, Marked, Holds, Targets
    <2>4. ASSUME NEW q \in Procs PROVE RequestSound(req[q])'
      BY <1>5 DEF vars, AssignmentsInv, RequestSound, LevelSound, LevelChecked, PreviousSound,
           DuplicateSound, OnboardSound, AlreadyAssigned, Holds, Exists
    <2> QED
      BY <2>1, <2>2, <2>3, <2>4 DEF AssignmentsInv
  <1> QED
    BY <1>1, <1>2, <1>3, <1>4, <1>5 DEF Next

\* The tables stay consistent and requests in flight know what they rely on:
\* the induction behind the theorems below.
THEOREM AssignmentsInvariant == Spec => []AssignmentsInv
  BY InitAssignments, NextAssignments, PTL DEF Spec

\* The tables and all requests in flight keep their types, and every
\* assignment refers to an administrator.
THEOREM TypeCorrect == Spec => []TypeOK
  <1>1. AssignmentsInv => TypeOK
    BY DEF AssignmentsInv
  <1> QED
    BY <1>1, AssignmentsInvariant, PTL

\* What assignUser and reassign give out matches the level of its node.
THEOREM LevelsAlwaysMatch == Spec => []LevelsMatch
  <1>1. AssignmentsInv => LevelsMatch
    BY DEF AssignmentsInv
  <1> QED
    BY <1>1, AssignmentsInvariant, PTL

\* A designation with assignments, even closed ones, cannot be removed.
THEOREM DesignationsStay == Spec => []DesignationsKept
  <1>1. AssignmentsInv => DesignationsKept
    BY DEF AssignmentsInv
  <1> QED
    BY <1>1, AssignmentsInvariant, PTL

\* The designation an assignment names is there, and is one for its node.
THEOREM DesignationsAlwaysFit == Spec => []DesignationsFit
  <1>1. LevelsMatch /\ DesignationsKept => DesignationsFit
    BY DEF DesignationsFit
  <1> QED
    BY LevelsAlwaysMatch, DesignationsStay, <1>1, PTL

\* An assignment has at most one successor, and is closed once it has one.
THEOREM OneSuccessor == Spec => []HandedOverOnce
  <1>1. AssignmentsInv => HandedOverOnce
    BY DEF AssignmentsInv
  <1> QED
    BY <1>1, AssignmentsInvariant, PTL

\* A position is held twice by the same person only where requests met.
THEOREM DuplicatesWereContended == Spec => []NoDuplicateActive
  <1>1. AssignmentsInv => NoDuplicateActive
    BY DEF AssignmentsInv
  <1> QED
    BY <1>1, AssignmentsInvariant, PTL

-----------------------------------------------------------------------------
(* Statuses: what an undisturbed request has found active still is *)

\* What ActiveSound says of one request.
FoundActive(r) ==
    /\ r.pc \in AssignPc \cup HandoverPc \cup {"previous"} => <<"user", r.user>> \in active
    /\ r.pc = "designation" \/ LevelChecked(r) => <<"node", r.node>> \in active
    /\ LevelChecked(r) /\ Exists(r.designation) => <<"designation", r.designation>> \in active

\* A request's step while no status changes.
LEMMA ActiveSlotStep ==
    ASSUME TypeOK, ActiveSound, NEW p \in Procs, NEW r, Goto(p, r),
           UNCHANGED <<designations, active>>,
           r = Idle \/ (p \notin disturbed => FoundActive(r))
    PROVE  ActiveSound'
  <1>1. req'[p] = r /\ \A q \in Procs \ {p} : req'[q] = req[q]
    BY DEF Goto, TypeOK
  <1>2. ASSUME NEW q \in Procs \ disturbed'
        PROVE  FoundActive(req'[q])
    <2>1. CASE q # p
      BY <1>1, <1>2, <2>1 DEF ActiveSound, FoundActive, Goto
    <2>2. CASE q = p /\ r # Idle
      BY <1>1, <1>2, <2>2 DEF Goto
    <2>3. CASE q = p /\ r = Idle
      BY <1>1, <2>3 DEF FoundActive, LevelChecked, Idle, AssignPc, HandoverPc
    <2> QED
      BY <2>1, <2>2, <2>3
  <1> QED
    BY <1>2 DEF ActiveSound, FoundActive, LevelChecked, Exists

\* assignUser and reassign check user, node and designation before they write.
LEMMA ChecksFindActive ==
    ASSUME AssignmentsInv, ActiveSound, NEW p \in Procs,
           \/ Assign(p) \/ CheckNode(p) \/ CheckDesignation(p) \/ CheckDuplicate(p)
           \/ Reassign(p) \/ CheckPrevious(p) \/ CheckSuccessor(p)
    PROVE  ActiveSound'
  <1> USE DEF tables
  <1>0. PICK r \in Request : r = req[p]
    BY DEF AssignmentsInv, TypeOK
  <1>a. TypeOK /\ (p \notin disturbed => FoundActive(r))
    BY <1>0 DEF AssignmentsInv, ActiveSound, FoundActive
  <1>b. UNCHANGED <<designations, active>>
    BY DEF Assign, CheckNode, CheckDesignation, CheckDuplicate, Reassign, CheckPrevious,
           CheckSuccessor
  <1>c. CASE Goto(p, Idle)
    BY <1>a, <1>b, <1>c, ActiveSlotStep
  <1>1. CASE Assign(p)
    <2>1. PICK user \in People, node \in Nodes, designation \in DesignationIds :
            /\ <<"user", user>> \in active
            /\ Goto(p, [pc |-> "node", user |-> user, node |-> node, designation |-> designation])
      BY <1>1 DEF Assign
    <2>2. PICK s : s = [pc |-> "node", user |-> user, node |-> node, designation |-> designation]
      OBVIOUS
    <2>3. FoundActive(s)
      BY <2>1, <2>2 DEF FoundActive, LevelChecked, HandoverPc
    <2> QED
      BY <1>a, <1>b, <2>1, <2>2, <2>3, ActiveSlotStep
  <1>2. CASE CheckNode(p) /\ ~Goto(p, Idle)
    <2>1. PICK s : s = [r EXCEPT !.pc = "designation"]
      OBVIOUS
    <2>2. Goto(p, s) /\ <<"node", r.node>> \in active /\ r.pc = "node"
      BY <1>0, <1>2, <2>1 DEF CheckNode, Continue
    <2>3. s.pc = "designation" /\ s.user = r.user /\ s.node = r.node
      BY <2>1, <2>2 DEF Request, Idle, AssignPc, HandoverPc
    <2>4. p \notin disturbed => FoundActive(s)
      BY <1>a, <2>2, <2>3 DEF FoundActive, LevelChecked, AssignPc, HandoverPc
    <2> QED
      BY <1>a, <1>b, <2>2, <2>4, ActiveSlotStep
  <1>3. CASE CheckDesignation(p) /\ ~Goto(p, Idle)
    <2>1. PICK s : s = [r EXCEPT !.pc = "duplicate"]
      OBVIOUS
    <2>2. Goto(p, s) /\ <<"designation", r.designation>> \in active /\ r.pc = "designation"
      BY <1>0, <1>3, <2>1 DEF CheckDesignation, Continue
    <2>3. s.pc = "duplicate" /\ s.user = r.user /\ s.node = r.node /\ s.designation = r.designation
      BY <2>1, <2>2 DEF Request, Idle, AssignPc, HandoverPc
    <2>4. p \notin disturbed => FoundActive(s)
      BY <1>a, <2>2, <2>3 DEF FoundActive, AssignPc
    <2> QED
      BY <1>a, <1>b, <2>2, <2>4, ActiveSlotStep
  <1>4. CASE CheckDuplicate(p) /\ ~Goto(p, Idle)
    <2>1. PICK s : s = [r EXCEPT !.pc = "insert"]
      OBVIOUS
    <2>2. Goto(p, s) /\ r.pc = "duplicate"
      BY <1>0, <1>4, <2>1 DEF CheckDuplicate, Continue
    <2>3. s.pc = "insert" /\ s.user = r.user /\ s.node = r.node /\ s.designation = r.designation
      BY <2>1, <2>2 DEF Request, Idle, AssignPc, HandoverPc
    <2>4. p \notin disturbed => FoundActive(s)
      BY <1>a, <2>2, <2>3 DEF FoundActive, LevelChecked, AssignPc
    <2> QED
      BY <1>a, <1>b, <2>2, <2>4, ActiveSlotStep
  <1>5. CASE Reassign(p)
    <2>1. PICK user \in People, i \in DOMAIN assignments :
            /\ <<"user", user>> \in active
            /\ Goto(p, [pc |-> "previous", user |-> user, previous |-> i])
      BY <1>5 DEF Reassign
    <2>2. PICK s : s = [pc |-> "previous", user |-> user, previous |-> i]
      OBVIOUS
    <2>3. FoundActive(s)
      BY <2>1, <2>2 DEF FoundActive, LevelChecked, HandoverPc
    <2> QED
      BY <1>a, <1>b, <2>1, <2>2, <2>3, ActiveSlotStep
  <1>6. CASE CheckPrevious(p) /\ ~Goto(p, Idle)
    <2>1. PICK row : row = assignments[r.previous]
      OBVIOUS
    <2>2. PICK s : s = [pc |-> "successor", user |-> r.user, node |-> row.node,
                        designation |-> row.designation, previous |-> r.previous]
      OBVIOUS
    <2>3. /\ Goto(p, s) /\ r.pc = "previous"
          /\ <<"node", row.node>> \in active /\ <<"designation", row.designation>> \in active
      BY <1>0, <1>6, <2>1, <2>2 DEF CheckPrevious
    <2>4. p \notin disturbed => FoundActive(s)
      BY <1>a, <2>2, <2>3 DEF FoundActive
    <2> QED
      BY <1>a, <1>b, <2>3, <2>4, ActiveSlotStep
  <1>7. CASE CheckSuccessor(p) /\ ~Goto(p, Idle)
    <2>1. PICK s : s = [r EXCEPT !.pc = "handover"]
      OBVIOUS
    <2>2. Goto(p, s) /\ r.pc = "successor"
      BY <1>0, <1>7, <2>1 DEF CheckSuccessor, Continue
    <2>3. s.pc = "handover" /\ s.user = r.user /\ s.node = r.node /\ s.designation = r.designation
      BY <2>1, <2>2 DEF Request, Idle, AssignPc, HandoverPc
    <2>4. p \notin disturbed => FoundActive(s)
      BY <1>a, <2>2, <2>3 DEF FoundActive, LevelChecked, HandoverPc
    <2> QED
      BY <1>a, <1>b, <2>2, <2>4, ActiveSlotStep
  <1> QED
    BY <1>c, <1>1, <1>2, <1>3, <1>4, <1>5, <1>6, <1>7

\* The other requests check no status.
LEMMA OthersFindActive ==
    ASSUME AssignmentsInv, ActiveSound, NEW p \in Procs,
           \/ Insert(p) \/ Handover(p)
           \/ Onboard(p) \/ OnboardInsert(p) \/ OnboardDone(p)
           \/ Remove(p) \/ RemoveCount(p) \/ Crash(p)
    PROVE  ActiveSound'
  <1> USE DEF tables
  <1>1. UNCHANGED <<designations, active>> /\ TypeOK
    BY DEF Insert, Handover, Onboard, OnboardInsert, OnboardDone, Remove, RemoveCount, Crash,
           AssignmentsInv
  <1>2. ASSUME NEW r, r.pc \in {"onboard", "count", "delete"} PROVE FoundActive(r)
    BY <1>2 DEF FoundActive, LevelChecked, AssignPc, HandoverPc
  <1>3. CASE Goto(p, Idle)
    BY <1>1, <1>3, ActiveSlotStep
  <1>4. CASE Insert(p) \/ Handover(p) \/ OnboardDone(p) \/ Crash(p)
    BY <1>3, <1>4 DEF Insert, Handover, OnboardDone, Crash
  <1>5. CASE Onboard(p)
    <2>1. PICK n \in 0..MaxRows : \E todo \in [1..n -> Nodes \X DesignationIds] :
            Goto(p, [pc |-> "onboard", user |-> admins', todo |-> todo])
      BY <1>5 DEF Onboard
    <2>2. PICK todo, user : Goto(p, [pc |-> "onboard", user |-> user, todo |-> todo])
      BY <2>1
    <2>3. PICK r : r = [pc |-> "onboard", user |-> user, todo |-> todo]
      OBVIOUS
    <2> QED
      BY <1>1, <1>2, <2>2, <2>3, ActiveSlotStep
  <1>6. CASE OnboardInsert(p)
    <2>1. PICK i \in DOMAIN req[p].todo : Goto(p, Rest(req[p], i))
      BY <1>6 DEF OnboardInsert
    <2>2. PICK q \in Request : q = req[p]
      BY <1>1 DEF TypeOK
    <2>3. PICK r : r = Rest(q, i)
      OBVIOUS
    <2>4. r.pc = "onboard"
      BY <1>6, <2>1, <2>2, <2>3, RestOfList DEF OnboardInsert
    <2> QED
      BY <1>1, <1>2, <2>1, <2>2, <2>3, <2>4, ActiveSlotStep
  <1>7. CASE Remove(p)
    <2>1. PICK d \in DesignationIds : Goto(p, [pc |-> "count", removed |-> d])
      BY <1>7 DEF Remove
    <2>2. PICK r : r = [pc |-> "count", removed |-> d]
      OBVIOUS
    <2> QED
      BY <1>1, <1>2, <2>1, <2>2, ActiveSlotStep
  <1>8. CASE RemoveCount(p) /\ ~Goto(p, Idle)
    <2>1. PICK q \in Request : q = req[p]
      BY <1>1 DEF TypeOK
    <2>2. PICK r : r = [q EXCEPT !.pc = "delete"]
      OBVIOUS
    <2>3. Goto(p, r) /\ q.pc = "count"
      BY <1>8, <2>1, <2>2 DEF RemoveCount, Continue
    <2>4. r.pc = "delete"
      BY <2>2, <2>3 DEF Request, Idle, AssignPc, HandoverPc
    <2> QED
      BY <1>1, <1>2, <2>3, <2>4, ActiveSlotStep
  <1> QED
    BY <1>3, <1>4, <1>5, <1>6, <1>7, <1>8

\* A status changes only under a request that is disturbed by it, or with its
\* designation.
LEMMA StatusesFindActive ==
    ASSUME AssignmentsInv, ActiveSound,
           \/ \E s \in Changing : SetStatus(s)
           \/ \E level \in Levels : CreateDesignation(level)
           \/ \E p \in Procs : RemoveWrite(p)
    PROVE  ActiveSound'
  <1>1. CASE \E s \in Changing : SetStatus(s)
    <2>1. PICK s \in Changing : SetStatus(s)
      BY <1>1
    <2>2. UNCHANGED <<designations, req>> /\ \A t : t # s => (t \in active <=> t \in active')
      BY <2>1 DEF SetStatus
    <2>3. ASSUME NEW q \in Procs \ disturbed' PROVE FoundActive(req[q])'
      <3>1. q \notin disturbed /\ s \notin About(req[q])
        BY <2>1, <2>3 DEF SetStatus
      <3>2. FoundActive(req[q])
        BY <3>1 DEF ActiveSound, FoundActive
      <3>3. CASE req[q].pc \in AssignPc \cup HandoverPc
        <4>1. /\ <<"user", req[q].user>> # s
              /\ <<"node", req[q].node>> # s
              /\ <<"designation", req[q].designation>> # s
          BY <3>1, <3>3 DEF About
        <4> QED
          BY <2>2, <3>2, <4>1 DEF FoundActive, LevelChecked, Exists
      <3>4. CASE req[q].pc = "previous"
        <4>1. <<"user", req[q].user>> # s
          BY <3>1, <3>4 DEF About, AssignPc, HandoverPc
        <4> QED
          BY <2>2, <3>2, <3>4, <4>1 DEF FoundActive, LevelChecked, HandoverPc
      <3>5. CASE req[q].pc \notin AssignPc \cup HandoverPc \cup {"previous"}
        BY <2>2, <3>5 DEF FoundActive, LevelChecked, AssignPc, HandoverPc
      <3> QED
        BY <3>3, <3>4, <3>5
    <2> QED
      BY <2>3 DEF ActiveSound, FoundActive
  <1>2. CASE \E level \in Levels : CreateDesignation(level)
    <2>1. /\ created' = created + 1 /\ active \subseteq active'
          /\ UNCHANGED <<req, disturbed>>
          /\ \A e \in DesignationIds \ {created'} : designations'[e] = designations[e]
      BY <1>2 DEF CreateDesignation, AssignmentsInv, TypeOK
    <2>2. ASSUME NEW q \in Procs \ disturbed PROVE FoundActive(req[q])'
      <3>1. FoundActive(req[q]) /\ req[q] \in Request
        BY DEF ActiveSound, FoundActive, AssignmentsInv, TypeOK
      <3>2. LevelChecked(req[q]) => req[q].designation \in DesignationIds
                                    /\ req[q].designation # created'
        <4>1. LevelSound(req[q]) /\ created \in Nat
          BY DEF AssignmentsInv, RequestSound, TypeOK
        <4> QED
          BY <2>1, <3>1, <4>1
             DEF LevelSound, LevelChecked, Request, Idle, AssignPc, HandoverPc, DesignationIds
      <3> QED
        BY <2>1, <3>1, <3>2 DEF FoundActive, LevelChecked, Exists
    <2> QED
      BY <2>1, <2>2 DEF ActiveSound, FoundActive
  <1>3. CASE \E p \in Procs : RemoveWrite(p)
    <2>1. PICK p \in Procs : RemoveWrite(p)
      BY <1>3
    <2>2. req[p] \in Request /\ req[p].pc = "delete" /\ Goto(p, Idle) /\ TypeOK
      BY <2>1 DEF RemoveWrite, AssignmentsInv, TypeOK
    <2>3. PICK d \in DesignationIds : d = req[p].removed
      BY <2>2 DEF Request, Idle, AssignPc, HandoverPc
    <2>4. CASE UNCHANGED <<designations, active>>
      BY <2>2, <2>4, ActiveSlotStep
    <2>5. CASE designations' = [designations EXCEPT ![d] = Null]
               /\ active' = active \ {<<"designation", d>>}
      <3>1. req'[p] = Idle /\ \A q \in Procs \ {p} : req'[q] = req[q]
        BY <2>2 DEF Goto, TypeOK
      <3>2. /\ ~(designations'[d] # Null)
            /\ \A e \in DesignationIds \ {d} : designations'[e] = designations[e]
        BY <2>2, <2>5 DEF TypeOK
      <3>3. ASSUME NEW q \in Procs \ disturbed' PROVE FoundActive(req[q])'
        <4>1. CASE q = p
          BY <3>1, <4>1 DEF FoundActive, LevelChecked, Idle, AssignPc, HandoverPc
        <4>2. CASE q # p
          <5>1. FoundActive(req[q]) /\ req'[q] = req[q] /\ req[q] \in Request
            BY <2>2, <3>1, <3>3, <4>2 DEF ActiveSound, FoundActive, Goto, TypeOK
          <5>2. LevelChecked(req[q]) => req[q].designation \in DesignationIds
            BY <5>1 DEF LevelChecked, Request, Idle, AssignPc, HandoverPc
          <5> QED
            BY <2>5, <3>2, <5>1, <5>2 DEF FoundActive, LevelChecked, Exists
        <4> QED
          BY <4>1, <4>2
      <3> QED
        BY <3>3 DEF ActiveSound, FoundActive
    <2> QED
      BY <2>1, <2>3, <2>4, <2>5 DEF RemoveWrite
  <1> QED
    BY <1>1, <1>2, <1>3

\* A request that no status change disturbed knows who and what is active.
THEOREM ActiveInvariant == Spec => [](AssignmentsInv /\ ActiveSound)
  <1>1. Init => ActiveSound
    BY DEF Init, ActiveSound, LevelChecked, Idle, AssignPc, HandoverPc
  <1>2. ASSUME AssignmentsInv, ActiveSound, [Next]_vars PROVE ActiveSound'
    <2>1. ASSUME NEW i \in DOMAIN assignments, Unassign(i) PROVE ActiveSound'
      BY <1>2, <2>1 DEF Unassign, ActiveSound, LevelChecked, Exists
    <2>2. CASE UNCHANGED vars
      BY <1>2, <2>2 DEF vars, ActiveSound, LevelChecked, Exists
    <2> QED
      BY <1>2, <2>1, <2>2, ChecksFindActive, OthersFindActive, StatusesFindActive DEF Next
  <1> QED
    BY <1>1, <1>2, InitAssignments, NextAssignments, PTL DEF Spec

\* Unless a status changed while the request ran, assignUser and reassign
\* only give out active designations at active nodes to active users.
THEOREM OnlyActiveIsAssigned == Spec => AssignedWhileActive
  <1>1. ASSUME AssignmentsInv, ActiveSound, [Next]_vars, NEW p \in Procs \ disturbed,
               req[p].pc \in {"insert", "handover"}, req'[p] # req[p],
               assignments' # assignments
        PROVE  About(req[p]) \subseteq active
    <2>1. LevelChecked(req[p])
      BY <1>1 DEF LevelChecked, HandoverPc
    <2>2. Exists(req[p].designation)
      <3>1. req \in [Procs -> Request]
        BY <1>1 DEF AssignmentsInv, TypeOK
      <3>2. ASSUME NEW q \in Procs, NEW r, Goto(q, r) PROVE q = p
        BY <1>1, <3>1, <3>2 DEF Goto
      <3>3. Insert(p) \/ Handover(p)
        BY <1>1, <3>1, <3>2 DEF Next, vars, tables, Assign, CheckNode, CheckDesignation,
           CheckDuplicate, Insert, Reassign, CheckPrevious, CheckSuccessor, Handover, Onboard,
           OnboardInsert, OnboardDone, Remove, RemoveCount, RemoveWrite, Crash, Unassign,
           CreateDesignation, SetStatus, Continue
      <3> QED
        BY <1>1, <3>3 DEF Insert, Handover, Referable
    <2> QED
      BY <1>1, <2>1, <2>2 DEF ActiveSound, About, AssignPc, HandoverPc
  <1>2. AssignmentsInv /\ ActiveSound /\ [Next]_vars =>
          [\A p \in Procs \ disturbed :
             /\ req[p].pc \in {"insert", "handover"}
             /\ req'[p] # req[p]
             /\ assignments' # assignments
             => About(req[p]) \subseteq active]_vars
    BY <1>1
  <1> QED
    BY <1>2, ActiveInvariant, PTL DEF Spec, AssignedWhileActive

\* What a change does to the table row by row, if all it does is append.
LEMMA AppendKeepsRows ==
    ASSUME NEW base \in Seq(Row), NEW row, assignments \in Seq(Row),
           Len(base) = Len(assignments), assignments' = Append(base, row),
           \A i \in DOMAIN assignments :
             \/ base[i] = assignments[i]
             \/ assignments[i].isActive
                /\ base[i] = [assignments[i] EXCEPT !.isActive = FALSE]
    PROVE  RowsKept
  <1> SUFFICES ASSUME NEW i \in DOMAIN assignments
               PROVE  i \in DOMAIN assignments' /\ assignments'[i] = base[i]
    BY DEF RowsKept
  <1>1. Len(base) \in Nat /\ i \in 1..Len(base)
    OBVIOUS
  <1>2. Len(assignments') = Len(base) + 1 /\ DOMAIN assignments' = 1..Len(assignments')
    OBVIOUS
  <1> QED
    BY <1>1, <1>2

\* Only the two inserts, the handover and unassign write the table.
LEMMA WritersKeepRows ==
    ASSUME AssignmentsInv, [Next]_vars
    PROVE  RowsKept
  <1>1. assignments \in Seq(Row)
    BY DEF AssignmentsInv, TypeOK
  <1>2. ASSUME UNCHANGED assignments PROVE RowsKept
    BY <1>2 DEF RowsKept
  <1>3. ASSUME NEW k \in DOMAIN assignments, assignments[k].isActive
        PROVE  LET base == [assignments EXCEPT ![k].isActive = FALSE]
               IN \A i \in DOMAIN assignments :
                    \/ base[i] = assignments[i]
                    \/ assignments[i].isActive
                       /\ base[i] = [assignments[i] EXCEPT !.isActive = FALSE]
    BY <1>3
  <1>4. ASSUME NEW k \in DOMAIN assignments, Unassign(k) PROVE RowsKept
    BY <1>1, <1>3, <1>4 DEF Unassign, RowsKept
  <1>5. ASSUME NEW p \in Procs, Insert(p) \/ OnboardInsert(p) PROVE RowsKept
    <2>1. UNCHANGED assignments \/ \E row : assignments' = Append(assignments, row)
      BY <1>5 DEF Insert, OnboardInsert
    <2> QED
      BY <1>1, <1>2, <2>1, AppendKeepsRows
  <1>6. ASSUME NEW p \in Procs, Handover(p) PROVE RowsKept
    <2>1. PICK k : k = req[p].previous
      OBVIOUS
    <2>2. k \in DOMAIN assignments
      BY <1>6, <2>1 DEF Handover, AssignmentsInv, RequestSound, PreviousSound, HandoverPc
    <2>3. PICK base : base = [assignments EXCEPT ![k].isActive = FALSE]
      OBVIOUS
    <2>4. base \in Seq(Row) /\ Len(base) = Len(assignments)
      BY <2>2, <2>3, ClosedRows
    <2>5. \/ UNCHANGED assignments
          \/ assignments[k].isActive /\ \E row : assignments' = Append(base, row)
      BY <1>6, <2>1, <2>3 DEF Handover
    <2> QED
      BY <1>1, <1>2, <1>3, <2>2, <2>3, <2>4, <2>5, AppendKeepsRows
  <1> QED
    BY <1>2, <1>4, <1>5, <1>6 DEF Next, vars, tables, Assign, CheckNode, CheckDesignation,
       CheckDuplicate, Reassign, CheckPrevious, CheckSuccessor, Onboard, OnboardDone, Remove,
       RemoveCount, RemoveWrite, Crash, CreateDesignation, SetStatus

\* No row of the table is ever lost or rewritten: all that happens to one,
\* whoever writes next to it, is that it closes, once.
THEOREM RowsStay == Spec => HistoryKept
  <1>1. AssignmentsInv /\ [Next]_vars => [RowsKept]_vars
    BY WritersKeepRows
  <1> QED
    BY <1>1, AssignmentsInvariant, PTL DEF Spec, HistoryKept

============================================================================
