----------------------------- MODULE Assignments -----------------------------
(***************************************************************************)
(* Who is responsible for which node: the rows of                          *)
(* user_hierarchy_designation, written by DesignationsService (assignUser, *)
(* reassign, unassign) and, without any check, by AdminService.create.     *)
(*                                                                         *)
(* assignUser looks its subjects up query by query and inserts; reassign   *)
(* does the same and then closes the old row and inserts the new one in a  *)
(* transaction; unassign is one conditional update.  No unique index backs *)
(* the duplicate checks.  A user id is looked up in table user, but the    *)
(* row's foreign key refers to table admin.                                *)
(*                                                                         *)
(* Left out: names and descriptions, reporting_id and the dates; which of  *)
(* the statuses other than active an entity has.                           *)
(***************************************************************************)
EXTENDS Integers, Sequences, Functions

CONSTANTS
    Procs,              \* request slots
    Nodes,              \* hierarchy nodes
    Levels,
    Level,              \* the level of each node
    Null,               \* absent row
    Changing,           \* bound: the subjects whose status changes
    MaxPeople,          \* bound on the ids of users and admins
    MaxDesignations,    \* bound on the designations ever created
    MaxAssignments,     \* bound on the assignments ever inserted
    MaxRows             \* bound on the assignments of one create-user request

ASSUME LevelAssumption == Level \in [Nodes -> Levels]
ASSUME NullAssumption == Null \notin Levels
ASSUME BoundsAssumption ==
    /\ MaxPeople \in Nat \ {0}
    /\ MaxDesignations \in Nat
    /\ MaxAssignments \in Nat
    /\ MaxRows \in Nat

VARIABLES
    designations,   \* hierarchy_designation: the level by id; Null where there is no row
    created,        \* the last designation id given out
    admins,         \* table admin holds the ids 1..admins
    active,         \* the users, nodes and designations with status active
    assignments,    \* user_hierarchy_designation rows by id
    req,            \* what each slot's request knows between two queries
    contended,      \* history: <<user, node, designation>> overlapping requests gave out
    disturbed       \* history: slots whose request is about a user, node or designation
                    \* with a status that has changed since

vars == <<designations, created, admins, active, assignments, req, contended, disturbed>>

People == 1..MaxPeople
DesignationIds == 1..MaxDesignations

\* A user id without a row and one that is blocked look the same to the checks.
Subjects == ({"user"} \X People) \cup ({"node"} \X Nodes)
            \cup ({"designation"} \X DesignationIds)

ASSUME ChangingAssumption == Changing \subseteq Subjects

\* origin and replaces (the row a reassignment closed, or 0) are history.
Row == [user : 1..admins, node : Nodes, designation : DesignationIds, isActive : BOOLEAN,
        origin : {"assign", "reassign", "onboard"}, replaces : 0..MaxAssignments]

Idle == [pc |-> "idle"]

AssignPc == {"node", "designation", "duplicate", "insert"}
HandoverPc == {"successor", "handover"}

\* Rows of a create-user request that wait for their insert, by position.
Pending == UNION {[S -> Nodes \X DesignationIds] : S \in SUBSET (1..MaxRows)}

Request ==
    {Idle}
    \cup [pc : AssignPc, user : People, node : Nodes, designation : DesignationIds]
    \cup [pc : {"previous"}, user : People, previous : 1..MaxAssignments]
    \cup [pc : HandoverPc, user : People, node : Nodes, designation : DesignationIds,
          previous : 1..MaxAssignments]
    \cup [pc : {"onboard"}, user : People, todo : Pending]
    \cup [pc : {"count", "delete"}, removed : DesignationIds]

\* Every table keeps its shape, and every row refers to an admin.
TypeOK ==
    /\ designations \in [DesignationIds -> Levels \cup {Null}]
    /\ created \in 0..MaxDesignations
    /\ admins \in People
    /\ active \subseteq Subjects
    /\ assignments \in Seq(Row)
    /\ Len(assignments) <= MaxAssignments
    /\ req \in [Procs -> Request]
    /\ contended \subseteq People \X Nodes \X DesignationIds
    /\ disturbed \subseteq Procs

\* The seed's administrator, and users and nodes other components have made.
Init ==
    /\ designations = [d \in DesignationIds |-> Null]
    /\ created = 0
    /\ admins = 1
    /\ active = ({"user"} \X People) \cup ({"node"} \X Nodes)
    /\ assignments = <<>>
    /\ req = [p \in Procs |-> Idle]
    /\ contended = {}
    /\ disturbed = {}

-----------------------------------------------------------------------------

Exists(d) == designations[d] # Null

Given(user, place) == <<user, place[1], place[2]>>

\* What a request is about to give out.
Targets(r) ==
    IF r.pc \in AssignPc \cup HandoverPc THEN {<<r.user, r.node, r.designation>>}
    ELSE IF r.pc = "onboard" THEN {Given(r.user, r.todo[i]) : i \in DOMAIN r.todo}
    ELSE {}

\* Whom and what its checks are about.
About(r) ==
    IF r.pc \in AssignPc \cup HandoverPc
    THEN {<<"user", r.user>>, <<"node", r.node>>, <<"designation", r.designation>>}
    ELSE IF r.pc = "previous" THEN {<<"user", r.user>>} ELSE {}

Repeated(r) ==
    IF r.pc = "onboard"
    THEN {Given(r.user, r.todo[i]) : i \in {i \in DOMAIN r.todo :
             \E j \in DOMAIN r.todo \ {i} : r.todo[i] = r.todo[j]}}
    ELSE {}

Goto(p, r) ==
    /\ req' = [req EXCEPT ![p] = r]
    /\ contended' = contended \cup Repeated(r)
           \cup {t \in Targets(r) : \E q \in Procs \ {p} : t \in Targets(req[q])}
    /\ disturbed' = IF r = Idle THEN disturbed \ {p} ELSE disturbed

Continue(p, check, next) == Goto(p, IF check THEN [req[p] EXCEPT !.pc = next] ELSE Idle)

Holds(row, user, node, designation) ==
    row.isActive /\ row.user = user /\ row.node = node /\ row.designation = designation

AlreadyAssigned(user, node, designation) ==
    \E i \in DOMAIN assignments : Holds(assignments[i], user, node, designation)

NewRow(user, node, designation, origin, replaces) ==
    [user |-> user, node |-> node, designation |-> designation, isActive |-> TRUE,
     origin |-> origin, replaces |-> replaces]

\* Mutant: user_id refers to nothing.
ReferableDesignation(user, designation) == Exists(designation)

\* The foreign keys; nodes are taken to stay.
Referable(user, designation) == user <= admins /\ Exists(designation)

\* Mutant: any designation will do.
AnyLevel(node, designation) == Exists(designation)

LevelMatches(node, designation) ==
    Exists(designation) /\ designations[designation] = Level[node]

tables == <<designations, created, admins, active, assignments>>

-----------------------------------------------------------------------------
(* assignUser *)

Assign(p) ==
    /\ req[p] = Idle
    /\ \E user \in People, node \in Nodes, designation \in DesignationIds :
        /\ <<"user", user>> \in active
        /\ Goto(p, [pc |-> "node", user |-> user, node |-> node,
                    designation |-> designation])
    /\ UNCHANGED tables

\* Mutant: the node only has to exist.
CheckNodeExists(p) ==
    /\ req[p].pc = "node"
    /\ Continue(p, TRUE, "designation")
    /\ UNCHANGED tables

CheckNode(p) ==
    /\ req[p].pc = "node"
    /\ Continue(p, <<"node", req[p].node>> \in active, "designation")
    /\ UNCHANGED tables

CheckDesignation(p) ==
    /\ req[p].pc = "designation"
    /\ LET r == req[p]
       IN Continue(p, /\ <<"designation", r.designation>> \in active
                      /\ LevelMatches(r.node, r.designation), "duplicate")
    /\ UNCHANGED tables

CheckDuplicate(p) ==
    /\ req[p].pc = "duplicate"
    /\ LET r == req[p]
       IN Continue(p, ~AlreadyAssigned(r.user, r.node, r.designation), "insert")
    /\ UNCHANGED tables

Insert(p) ==
    /\ req[p].pc = "insert"
    /\ Len(assignments) < MaxAssignments
    /\ LET r == req[p]
       IN assignments' = IF Referable(r.user, r.designation)
                         THEN Append(assignments,
                                NewRow(r.user, r.node, r.designation, "assign", 0))
                         ELSE assignments
    /\ Goto(p, Idle)
    /\ UNCHANGED <<designations, created, admins, active>>

-----------------------------------------------------------------------------
(* reassign *)

Reassign(p) ==
    /\ req[p] = Idle
    /\ \E user \in People, i \in DOMAIN assignments :
        /\ <<"user", user>> \in active
        /\ Goto(p, [pc |-> "previous", user |-> user, previous |-> i])
    /\ UNCHANGED tables

\* The row to hand over, read together with its node and its designation.
CheckPrevious(p) ==
    /\ req[p].pc = "previous"
    /\ LET r == req[p]
           row == assignments[r.previous]
       IN Goto(p, IF /\ row.isActive
                     /\ row.user # r.user
                     /\ <<"node", row.node>> \in active
                     /\ <<"designation", row.designation>> \in active
                     /\ LevelMatches(row.node, row.designation)
                  THEN [pc |-> "successor", user |-> r.user, node |-> row.node,
                        designation |-> row.designation, previous |-> r.previous]
                  ELSE Idle)
    /\ UNCHANGED tables

\* Mutant: only assignUser looks for a duplicate.
CheckSuccessorNever(p) ==
    /\ req[p].pc = "successor"
    /\ Continue(p, TRUE, "handover")
    /\ UNCHANGED tables

CheckSuccessor(p) ==
    /\ req[p].pc = "successor"
    /\ LET r == req[p]
       IN Continue(p, ~AlreadyAssigned(r.user, r.node, r.designation), "handover")
    /\ UNCHANGED tables

\* Mutant: the row is closed by its id alone.
HandoverById(p) ==
    /\ req[p].pc = "handover"
    /\ Len(assignments) < MaxAssignments
    /\ LET r == req[p]
       IN assignments' =
            IF Referable(r.user, r.designation)
            THEN Append([assignments EXCEPT ![r.previous].isActive = FALSE],
                        NewRow(r.user, r.node, r.designation, "reassign", r.previous))
            ELSE assignments
    /\ Goto(p, Idle)
    /\ UNCHANGED <<designations, created, admins, active>>

\* Mutant: the row itself gets the new user.
HandoverInPlace(p) ==
    /\ req[p].pc = "handover"
    /\ LET r == req[p]
       IN assignments' =
            IF assignments[r.previous].isActive /\ Referable(r.user, r.designation)
            THEN [assignments EXCEPT ![r.previous].user = r.user]
            ELSE assignments
    /\ Goto(p, Idle)
    /\ UNCHANGED <<designations, created, admins, active>>

\* The transaction rolls back if the row is no longer active, or if the
\* foreign key refuses the new user.
Handover(p) ==
    /\ req[p].pc = "handover"
    /\ Len(assignments) < MaxAssignments
    /\ LET r == req[p]
       IN assignments' =
            IF assignments[r.previous].isActive /\ Referable(r.user, r.designation)
            THEN Append([assignments EXCEPT ![r.previous].isActive = FALSE],
                        NewRow(r.user, r.node, r.designation, "reassign", r.previous))
            ELSE assignments
    /\ Goto(p, Idle)
    /\ UNCHANGED <<designations, created, admins, active>>

-----------------------------------------------------------------------------
(* unassign *)

Unassign(i) ==
    /\ assignments[i].isActive
    /\ assignments' = [assignments EXCEPT ![i].isActive = FALSE]
    /\ UNCHANGED <<designations, created, admins, active, req, contended, disturbed>>

-----------------------------------------------------------------------------
(* AdminService.create *)

\* The row of the new administrator.  validateAssignmentRefs is called but
\* not awaited: its verdict reaches nobody.
Onboard(p) ==
    /\ req[p] = Idle
    /\ admins < MaxPeople
    /\ admins' = admins + 1
    /\ \E n \in 0..MaxRows : \E todo \in [1..n -> Nodes \X DesignationIds] :
        Goto(p, [pc |-> "onboard", user |-> admins', todo |-> todo])
    /\ UNCHANGED <<designations, created, active, assignments>>

Rest(r, i) == [r EXCEPT !.todo = Restrict(@, DOMAIN @ \ {i})]

\* The inserts run side by side; one that fails does not stop the others.
OnboardInsert(p) ==
    /\ req[p].pc = "onboard"
    /\ LET r == req[p]
       IN \E i \in DOMAIN r.todo :
            LET node == r.todo[i][1]
                designation == r.todo[i][2]
            IN /\ Len(assignments) < MaxAssignments
               /\ assignments' = IF Referable(r.user, designation)
                                 THEN Append(assignments,
                                        NewRow(r.user, node, designation, "onboard", 0))
                                 ELSE assignments
               /\ Goto(p, Rest(r, i))
    /\ UNCHANGED <<designations, created, admins, active>>

OnboardDone(p) ==
    /\ req[p].pc = "onboard"
    /\ DOMAIN req[p].todo = {}
    /\ Goto(p, Idle)
    /\ UNCHANGED tables

-----------------------------------------------------------------------------
(* The designations themselves *)

CreateDesignation(level) ==
    /\ created < MaxDesignations
    /\ created' = created + 1
    /\ designations' = [designations EXCEPT ![created'] = level]
    /\ active' = active \cup {<<"designation", created'>>}
    /\ UNCHANGED <<admins, assignments, req, contended, disturbed>>

\* setStatus of a designation; of a node, in HierarchyService; of a user, in
\* UsersService, as its registration.
SetStatus(s) ==
    /\ s[1] = "designation" => Exists(s[2])
    /\ active' = IF s \in active THEN active \ {s} ELSE active \cup {s}
    /\ disturbed' = disturbed \cup {p \in Procs : s \in About(req[p])}
    /\ UNCHANGED <<designations, created, admins, assignments, req, contended>>

Remove(p) ==
    /\ req[p] = Idle
    /\ \E d \in DesignationIds : Exists(d) /\ Goto(p, [pc |-> "count", removed |-> d])
    /\ UNCHANGED tables

Unreferenced(d) == \A i \in DOMAIN assignments : assignments[i].designation # d

RemoveCount(p) ==
    /\ req[p].pc = "count"
    /\ Continue(p, Unreferenced(req[p].removed), "delete")
    /\ UNCHANGED tables

\* The foreign key repeats the check.
RemoveWrite(p) ==
    /\ req[p].pc = "delete"
    /\ LET d == req[p].removed
       IN IF Unreferenced(d)
          THEN /\ designations' = [designations EXCEPT ![d] = Null]
               /\ active' = active \ {<<"designation", d>>}
          ELSE UNCHANGED <<designations, active>>
    /\ Goto(p, Idle)
    /\ UNCHANGED <<created, admins, assignments>>

-----------------------------------------------------------------------------

\* A query fails or the worker dies: what is written stays.
Crash(p) ==
    /\ req[p] # Idle
    /\ Goto(p, Idle)
    /\ UNCHANGED tables

Next ==
    \/ \E p \in Procs :
        \/ Assign(p) \/ CheckNode(p) \/ CheckDesignation(p) \/ CheckDuplicate(p) \/ Insert(p)
        \/ Reassign(p) \/ CheckPrevious(p) \/ CheckSuccessor(p) \/ Handover(p)
        \/ Onboard(p) \/ OnboardInsert(p) \/ OnboardDone(p)
        \/ Remove(p) \/ RemoveCount(p) \/ RemoveWrite(p)
        \/ Crash(p)
    \/ \E i \in DOMAIN assignments : Unassign(i)
    \/ \E level \in Levels : CreateDesignation(level)
    \/ \E s \in Changing : SetStatus(s)

Spec == Init /\ [][Next]_vars

-----------------------------------------------------------------------------
(* However requests interleave *)

\* An assignment that went through assignUser or reassign binds a designation
\* to a node of its own level, and the designation still exists.
LevelsMatch ==
    \A i \in DOMAIN assignments : assignments[i].origin # "onboard" =>
        designations[assignments[i].designation] = Level[assignments[i].node]

\* No assignment, open or closed, loses its designation: remove counts the
\* rows before it deletes, create-user inserts without looking.
DesignationsKept ==
    \A i \in DOMAIN assignments : Exists(assignments[i].designation)

\* Every assignment has its designation, at the level of its node unless
\* create-user made it.
DesignationsFit == LevelsMatch /\ DesignationsKept

\* A position is handed over once: the row a reassignment names is closed, was
\* somebody else's at the same node and designation, and has one successor.
HandedOverOnce ==
    \A i \in DOMAIN assignments : LET k == assignments[i].replaces IN k # 0 =>
        /\ k < i
        /\ ~assignments[k].isActive
        /\ assignments[k].node = assignments[i].node
        /\ assignments[k].designation = assignments[i].designation
        /\ assignments[k].user # assignments[i].user
        /\ \A j \in DOMAIN assignments : assignments[j].replaces = k => j = i

RowsKept ==
    \A i \in DOMAIN assignments :
        /\ i \in DOMAIN assignments'
        /\ \/ assignments'[i] = assignments[i]
           \/ assignments[i].isActive
              /\ assignments'[i] = [assignments[i] EXCEPT !.isActive = FALSE]

\* History is kept: rows stay, all that ever happens to one is that it closes.
HistoryKept == [][RowsKept]_vars

-----------------------------------------------------------------------------
(* Where requests do not meet *)

\* Nobody holds the same designation at the same node twice, unless two
\* requests gave it out at the same time or a create-user request lists it
\* twice.
NoDuplicateActive ==
    \A i, j \in DOMAIN assignments :
        LET r == assignments[j] IN
        /\ i # j
        /\ r.isActive
        /\ Holds(assignments[i], r.user, r.node, r.designation)
        => <<r.user, r.node, r.designation>> \in contended

\* assignUser and reassign give out active designations at active nodes to
\* active users, if no status changed while the request ran.
AssignedWhileActive ==
    [][\A p \in Procs \ disturbed :
         /\ req[p].pc \in {"insert", "handover"}
         /\ req'[p] # req[p]
         /\ assignments' # assignments
         => About(req[p]) \subseteq active]_vars

-----------------------------------------------------------------------------
(* The inductive invariant: the above, and what requests in flight rely on *)

\* Designation ids are given out once, in order.
Numbered == \A d \in DesignationIds : Exists(d) => d <= created

LevelChecked(r) == r.pc \in {"duplicate", "insert"} \cup HandoverPc

\* A designation that has passed the level check, if it is still there, is
\* the one that passed it.
LevelSound(r) ==
    LevelChecked(r) =>
        /\ r.designation <= created
        /\ Exists(r.designation) => designations[r.designation] = Level[r.node]

\* The row to hand over is there, and is about what was read from it.
PreviousSound(r) ==
    /\ r.pc = "previous" => r.previous \in DOMAIN assignments
    /\ r.pc \in HandoverPc =>
        /\ r.previous \in DOMAIN assignments
        /\ assignments[r.previous].node = r.node
        /\ assignments[r.previous].designation = r.designation
        /\ assignments[r.previous].user # r.user

\* What a request may insert without looking again is not there yet.
DuplicateSound(r) ==
    \A t \in Targets(r) :
        r.pc \in {"insert", "handover", "onboard"} /\ t \notin contended
        => ~AlreadyAssigned(t[1], t[2], t[3])

OnboardSound(r) ==
    r.pc = "onboard" => r.user <= admins /\ Repeated(r) \subseteq contended

RequestSound(r) ==
    /\ LevelSound(r)
    /\ PreviousSound(r)
    /\ DuplicateSound(r)
    /\ OnboardSound(r)

\* Requests that give out the same have left their mark.
Marked ==
    \A p, q \in Procs : p # q => Targets(req[p]) \cap Targets(req[q]) \subseteq contended

AssignmentsInv ==
    /\ TypeOK
    /\ Numbered
    /\ LevelsMatch
    /\ DesignationsKept
    /\ HandedOverOnce
    /\ NoDuplicateActive
    /\ Marked
    /\ \A p \in Procs : RequestSound(req[p])

\* What an undisturbed request has found active still is, unless it is gone.
ActiveSound ==
    \A p \in Procs \ disturbed : LET r == req[p] IN
        /\ r.pc \in AssignPc \cup HandoverPc \cup {"previous"} => <<"user", r.user>> \in active
        /\ r.pc = "designation" \/ LevelChecked(r) => <<"node", r.node>> \in active
        /\ LevelChecked(r) /\ Exists(r.designation)
             => <<"designation", r.designation>> \in active
=============================================================================
