------------------------- MODULE PublishIssuesProofs -------------------------
(***************************************************************************)
(* PublishIssues, for any number of requests, issues, files and faults.    *)
(***************************************************************************)
EXTENDS PublishIssues, TLAPS

Creating == [pc : {"createMove", "insert"}, id : {0}, row : Row]

UpdateSteps == {"number", "updateMove", "write", "oldExists", "oldUnlink"}
Updating == [pc : UpdateSteps, id : IssueIds, old : Row, patch : Patch]

CleaningUp == [pc : {"cleanUp"}, id : IssueIds \cup {0}, file : Files]

DeleteSteps == {"count", "deleteRow", "fileExists", "fileUnlink", "commit"}
Deleting == [pc : DeleteSteps, id : IssueIds, old : Row]

\* What each kind of request carries.
LEMMA RequestTypes ==
    ASSUME TypeOK, NEW p \in Procs
    PROVE  /\ req[p].pc \in {"createMove", "insert"} => req[p] \in Creating
           /\ req[p].pc \in UpdateSteps => req[p] \in Updating
           /\ req[p].pc = "cleanUp" => req[p] \in CleaningUp
           /\ req[p].pc \in DeleteSteps => req[p] \in Deleting
  <1>1. req[p] \in {Idle} \cup Creating \cup Updating \cup CleaningUp \cup Deleting
    BY DEF TypeOK, Request, Creating, Updating, UpdateSteps, CleaningUp, Deleting, DeleteSteps
  <1>2. CASE req[p] = Idle
    BY <1>2 DEF Idle, UpdateSteps, DeleteSteps
  <1>3. CASE req[p] \in Creating
    BY <1>3 DEF Creating, UpdateSteps, DeleteSteps
  <1>4. CASE req[p] \in Updating
    BY <1>4 DEF Updating, UpdateSteps, DeleteSteps
  <1>5. CASE req[p] \in CleaningUp
    BY <1>5 DEF CleaningUp, UpdateSteps, DeleteSteps
  <1>6. CASE req[p] \in Deleting
    BY <1>6 DEF Deleting, UpdateSteps, DeleteSteps
  <1> QED
    BY <1>1, <1>2, <1>3, <1>4, <1>5, <1>6

LEMMA RequestKinds ==
    /\ Idle \in Request
    /\ Creating \subseteq Request /\ Updating \subseteq Request
    /\ CleaningUp \subseteq Request /\ Deleting \subseteq Request
  BY DEF Request, Creating, Updating, UpdateSteps, CleaningUp, Deleting, DeleteSteps

\* A request keeps what it carries while it goes on.
LEMMA CreateGoesOn ==
    \A x \in Creating : /\ [x EXCEPT !.pc = "insert"] \in Creating
                        /\ [x EXCEPT !.pc = "insert"].pc = "insert"
  BY DEF Creating

LEMMA UpdateGoesOn ==
    \A x \in Updating, c \in UpdateSteps :
        /\ [x EXCEPT !.pc = c] \in Updating
        /\ [x EXCEPT !.pc = c].pc = c
        /\ [x EXCEPT !.pc = c].id = x.id
        /\ [x EXCEPT !.pc = c].old = x.old
        /\ [x EXCEPT !.pc = c].patch = x.patch
  BY DEF Updating

LEMMA DeleteGoesOn ==
    \A x \in Deleting, c \in DeleteSteps :
        /\ [x EXCEPT !.pc = c] \in Deleting
        /\ [x EXCEPT !.pc = c].pc = c
        /\ [x EXCEPT !.pc = c].id = x.id
  BY DEF Deleting

\* A request that has ended, or only cleans up, has nothing to hold to.
LEMMA QuietIsSound ==
    \A x : x.pc \in {"idle", "insert", "oldExists", "oldUnlink", "cleanUp", "count", "deleteRow"}
             => RequestSound(x)
  BY DEF RequestSound

LEMMA CleanUpIsQuiet ==
    ASSUME NEW id \in IssueIds \cup {0}, NEW file \in Files \cup {Null}
    PROVE  CleanUpOf(id, file) \in Request /\ CleanUpOf(id, file).pc \in {"idle", "cleanUp"}
  BY RequestKinds DEF CleanUpOf, Idle, CleaningUp

-----------------------------------------------------------------------------
(* Steps of one slot that leave the rows and the dispatch book alone *)

\* The slot's request becomes x, files may arrive and move.
StepTo(p, x) ==
    /\ req' = [req EXCEPT ![p] = x]
    /\ troubled' \subseteq IssueIds
    /\ UNCHANGED <<issues, inserted, dispatched>>

LEMMA TroubledInIds ==
    ASSUME TypeOK, NEW p \in Procs, NEW x, Goto(p, x) \/ Trouble(p, x)
    PROVE  req' = [req EXCEPT ![p] = x] /\ troubled' \subseteq IssueIds
  BY DEF TypeOK, Goto, Trouble

LEMMA SlotStep ==
    ASSUME PublishInv, NEW p \in Procs, NEW x \in Request, StepTo(p, x),
           uploads' \in 0..MaxUploads, uploads <= uploads', disk' \subseteq 1..uploads',
           RequestSound(x)'
    PROVE  PublishInv'
  <1>1. TypeOK /\ DispatchedIssueExists /\ Numbered /\ \A q \in Procs : RequestSound(req[q])
    BY DEF PublishInv
  <1>2. req' \in [Procs -> Request] /\ \A q \in Procs : req'[q] = IF q = p THEN x ELSE req[q]
    BY <1>1 DEF StepTo, TypeOK
  <1>3. /\ issues' = issues /\ inserted' = inserted /\ dispatched' = dispatched
        /\ troubled' \subseteq IssueIds
    BY DEF StepTo
  <1>4. TypeOK'
    BY <1>1, <1>2, <1>3 DEF TypeOK
  <1>5. DispatchedIssueExists' /\ Numbered'
    BY <1>1, <1>3 DEF DispatchedIssueExists, Numbered, Exists
  <1>6. ASSUME NEW q \in Procs, q # p PROVE RequestSound(req[q])'
    <2>1. \A file : Arrived(file) => Arrived(file)'
      <3>1. uploads \in Nat /\ uploads' \in Nat
        BY <1>1, BoundsAssumption DEF TypeOK
      <3> QED
        BY <3>1 DEF Arrived
    <2>2. req'[q] = req[q] /\ RequestSound(req[q])
      BY <1>1, <1>2, <1>6
    <2> QED
      BY <1>3, <2>1, <2>2 DEF RequestSound, Exists
  <1>7. \A q \in Procs : RequestSound(req[q])'
    BY <1>2, <1>6
  <1> QED
    BY <1>4, <1>5, <1>7 DEF PublishInv

\* The same for a request that has nothing to hold to and brings no file.
LEMMA QuietStep ==
    ASSUME PublishInv, NEW p \in Procs, NEW x \in Request, StepTo(p, x),
           uploads' = uploads, disk' \subseteq 1..uploads,
           x.pc \in {"idle", "insert", "oldExists", "oldUnlink", "cleanUp", "count", "deleteRow"}
    PROVE  PublishInv'
  <1>1. /\ uploads' \in 0..MaxUploads /\ uploads <= uploads' /\ disk' \subseteq 1..uploads'
    BY BoundsAssumption DEF PublishInv, TypeOK
  <1>2. RequestSound(x)'
    BY DEF RequestSound
  <1> QED
    BY <1>1, <1>2, SlotStep

-----------------------------------------------------------------------------
(* create *)

LEMMA NullIsNoFile == \A file \in Files : file # Null
  BY NullAssumption DEF Files

\* A file that comes with a request is the next upload.
LEMMA Arrives ==
    ASSUME TypeOK, NEW file \in Attached, Upload(file)
    PROVE  /\ file \in Files \cup {Null}
           /\ uploads' \in 0..MaxUploads /\ uploads <= uploads'
           /\ 1..uploads \subseteq 1..uploads'
           /\ file # Null => file \in 1..uploads'
  <1>1. uploads \in Nat /\ uploads <= MaxUploads /\ MaxUploads \in Nat
    BY BoundsAssumption DEF TypeOK
  <1>2. CASE file = Null
    BY <1>1, <1>2 DEF Upload
  <1>3. CASE file # Null /\ file \in Files /\ file = uploads + 1
    <2>1. uploads' = uploads + 1 /\ uploads + 1 <= MaxUploads
      BY <1>1, <1>3 DEF Upload, Files
    <2> QED
      BY <1>1, <1>3, <2>1
  <1> QED
    BY <1>2, <1>3 DEF Attached

LEMMA CreatePreserves ==
    ASSUME PublishInv, NEW p \in Procs, Create(p) PROVE PublishInv'
  <1>1. PICK number \in Numbers, status \in Status, file \in Attached :
          /\ Goto(p, [pc |-> IF file = Null THEN "insert" ELSE "createMove", id |-> 0,
                      row |-> [number |-> number, file |-> file, status |-> status]])
          /\ Upload(file)
    BY DEF Create
  <1> DEFINE row == [number |-> number, file |-> file, status |-> status]
             c == IF file = Null THEN "insert" ELSE "createMove"
             x == [pc |-> c, id |-> 0, row |-> row]
  <1>2. TypeOK
    BY DEF PublishInv
  <1>3. /\ file \in Files \cup {Null} /\ uploads' \in 0..MaxUploads /\ uploads <= uploads'
        /\ 1..uploads \subseteq 1..uploads' /\ (file # Null => file \in 1..uploads')
    BY <1>1, <1>2, Arrives
  <1>4. row \in Row /\ row.file = file
    BY <1>3 DEF Row
  <1>5. c \in {"createMove", "insert"} /\ (c = "createMove" => file # Null)
    OBVIOUS
  <1>6. Goto(p, x) /\ UNCHANGED <<issues, inserted, dispatched, disk>>
    BY <1>1 DEF Create
  <1> HIDE DEF row, c
  <1>7. x \in Creating /\ x.pc = c /\ x.row.file = file
    BY <1>4, <1>5 DEF Creating
  <1> HIDE DEF x
  <1>8. x \in Request
    BY <1>7, RequestKinds
  <1>9. RequestSound(x)'
    BY <1>3, <1>5, <1>7 DEF RequestSound, Arrived
  <1>10. StepTo(p, x)
    BY <1>2, <1>6, TroubledInIds DEF StepTo
  <1>11. disk' \subseteq 1..uploads'
    BY <1>2, <1>3, <1>6 DEF TypeOK
  <1> QED
    BY <1>3, <1>8, <1>9, <1>10, <1>11, SlotStep

LEMMA CreateMovePreserves ==
    ASSUME PublishInv, NEW p \in Procs, CreateMove(p) PROVE PublishInv'
  <1> DEFINE x == IF req[p].row.status = "Archived" THEN Idle ELSE [req[p] EXCEPT !.pc = "insert"]
  <1>1. TypeOK /\ RequestSound(req[p]) /\ req[p] \in Creating
    BY RequestTypes DEF PublishInv, CreateMove
  <1>2. x \in Request /\ x.pc \in {"idle", "insert"}
    BY <1>1, RequestKinds, CreateGoesOn DEF Idle
  <1>3. Goto(p, x) /\ UNCHANGED <<issues, inserted, dispatched, uploads>>
    BY DEF CreateMove
  <1> HIDE DEF x
  <1>4. req[p].row.file \in 1..uploads
    BY <1>1 DEF RequestSound, Arrived, CreateMove
  <1>5. disk' \subseteq 1..uploads
    BY <1>1, <1>4 DEF CreateMove, TypeOK
  <1>6. StepTo(p, x)
    BY <1>1, <1>3, TroubledInIds DEF StepTo
  <1> QED
    BY <1>2, <1>3, <1>5, <1>6, QuietStep

\* The new row has an id nobody knew.
LEMMA InsertsPreserves ==
    ASSUME PublishInv, NEW p \in Procs, Insert(p),
           inserted < MaxIssues, inserted' = inserted + 1,
           issues' = [issues EXCEPT ![inserted'] = req[p].row], Goto(p, Idle)
    PROVE  /\ PublishInv'
           /\ \A i \in IssueIds : Exists(i) => issues'[i] = issues[i]
  <1> DEFINE n == inserted + 1
             row == req[p].row
  <1>1. TypeOK /\ DispatchedIssueExists /\ Numbered /\ \A q \in Procs : RequestSound(req[q])
    BY DEF PublishInv
  <1>2. row \in Row /\ row # Null
    <2>1. req[p] \in Creating
      BY <1>1, RequestTypes DEF Insert
    <2>2. row \in Row
      BY <2>1 DEF Creating
    <2> QED
      BY <2>2, NullAssumption
  <1>3. inserted \in Nat /\ n \in IssueIds /\ inserted' = n /\ n \in 0..MaxIssues
    BY <1>1, BoundsAssumption DEF TypeOK, IssueIds
  <1>4. ~Exists(n)
    BY <1>1, <1>3 DEF Numbered
  <1>5. /\ issues' \in [IssueIds -> Row \cup {Null}]
        /\ \A i \in IssueIds : issues'[i] = IF i = n THEN row ELSE issues[i]
    BY <1>1, <1>2, <1>3 DEF TypeOK
  <1>6. /\ req' \in [Procs -> Request] /\ \A q \in Procs : req'[q] = IF q = p THEN Idle ELSE req[q]
        /\ troubled' \subseteq IssueIds
    BY <1>1, RequestKinds DEF TypeOK, Goto
  <1>7. dispatched' = dispatched /\ disk' = disk /\ uploads' = uploads
    BY DEF Insert
  <1> HIDE DEF n, row
  <1>8. \A i \in IssueIds : Exists(i) => issues'[i] = issues[i] /\ Exists(i)'
    BY <1>4, <1>5 DEF Exists
  <1>9. TypeOK'
    BY <1>1, <1>3, <1>5, <1>6, <1>7 DEF TypeOK
  <1>10. DispatchedIssueExists'
    BY <1>1, <1>7, <1>8 DEF DispatchedIssueExists, TypeOK
  <1>11. Numbered'
    <2>1. ASSUME NEW i \in IssueIds, Exists(i)' PROVE i <= inserted'
      <3>1. i = n \/ i <= inserted
        BY <1>1, <1>5, <2>1 DEF Exists, Numbered
      <3>2. i \in Nat
        BY BoundsAssumption DEF IssueIds
      <3> QED
        BY <1>3, <3>1, <3>2 DEF n
    <2> QED
      BY <2>1 DEF Numbered
  <1>12. ASSUME NEW q \in Procs, q # p PROVE RequestSound(req[q])'
    <2>1. req'[q] = req[q] /\ RequestSound(req[q])
      BY <1>1, <1>6, <1>12
    <2>2. CASE req[q].pc \in {"number", "updateMove", "write"}
      <3>1. req[q].id <= inserted /\ req[q].id \in IssueIds
        BY <1>1, <2>1, <2>2, RequestTypes DEF RequestSound, UpdateSteps, Updating
      <3>2. req[q].id <= inserted' /\ req[q].id # n
        BY <1>3, <3>1, BoundsAssumption DEF IssueIds, n
      <3>3. issues'[req[q].id] = issues[req[q].id]
        BY <1>5, <3>1, <3>2
      <3> QED
        BY <1>7, <2>1, <2>2, <3>2, <3>3 DEF RequestSound, Exists, Arrived
    <2>3. CASE req[q].pc \notin {"number", "updateMove", "write"}
      BY <1>7, <2>1, <2>3 DEF RequestSound, Arrived
    <2> QED
      BY <2>2, <2>3
  <1>13. RequestSound(req[p])'
    BY <1>6 DEF RequestSound, Idle
  <1> QED
    BY <1>8, <1>9, <1>10, <1>11, <1>12, <1>13 DEF PublishInv

LEMMA InsertPreserves ==
    ASSUME PublishInv, NEW p \in Procs, Insert(p)
    PROVE  /\ PublishInv'
           /\ \A i \in IssueIds : Exists(i) => issues'[i] = issues[i]
  <1>1. CASE /\ inserted < MaxIssues /\ inserted' = inserted + 1
             /\ issues' = [issues EXCEPT ![inserted'] = req[p].row] /\ Goto(p, Idle)
    BY <1>1, InsertsPreserves
  <1>2. CASE Goto(p, CleanUpOf(0, req[p].row.file)) /\ UNCHANGED <<issues, inserted>>
    <2> DEFINE x == CleanUpOf(0, req[p].row.file)
    <2>1. TypeOK /\ req[p] \in Creating
      BY RequestTypes DEF PublishInv, Insert
    <2>2. req[p].row.file \in Files \cup {Null}
      BY <2>1 DEF Creating, Row
    <2>3. x \in Request /\ x.pc \in {"idle", "cleanUp"}
      BY <2>2, CleanUpIsQuiet
    <2> HIDE DEF x
    <2>4. StepTo(p, x) /\ uploads' = uploads /\ disk' \subseteq 1..uploads
      BY <1>2, <2>1, TroubledInIds DEF StepTo, Insert, TypeOK, x
    <2> QED
      BY <1>2, <2>3, <2>4, QuietStep
  <1> QED
    BY <1>1, <1>2 DEF Insert

LEMMA CleanUpPreserves ==
    ASSUME PublishInv, NEW p \in Procs, CleanUp(p) PROVE PublishInv'
  <1>1. TypeOK
    BY DEF PublishInv
  <1>2. Goto(p, Idle) \/ Trouble(p, Idle)
    BY DEF CleanUp
  <1>3. StepTo(p, Idle) /\ uploads' = uploads /\ disk' \subseteq 1..uploads
    BY <1>1, <1>2, TroubledInIds DEF StepTo, CleanUp, TypeOK
  <1> QED
    BY <1>3, RequestKinds, QuietStep DEF Idle

-----------------------------------------------------------------------------
(* update *)

\* What RequestSound asks of an update that has not written yet.
LEMMA WriterIsSound ==
    ASSUME TypeOK, NEW x \in Updating, x.pc \in {"number", "updateMove", "write"},
           (x.id <= inserted)', Editable(x.old, x.patch),
           (Exists(x.id) => Follows(issues[x.id], x.old))', Arrived(x.patch.file)',
           x.pc = "updateMove" => x.patch.file # Null
    PROVE  RequestSound(x)'
  BY DEF RequestSound, Updating

LEMMA UpdatePreserves ==
    ASSUME PublishInv, NEW p \in Procs, Update(p) PROVE PublishInv'
  <1>1. PICK i \in IssueIds, patch \in [number : Numbers \cup {Null}, file : Attached,
                                        status : Status \cup {Null}] :
          /\ Exists(i)
          /\ Editable(issues[i], patch)
          /\ Goto(p, [pc |-> "number", id |-> i, old |-> issues[i], patch |-> patch])
          /\ Upload(patch.file)
    BY DEF Update
  <1>x. PICK x : x = [pc |-> "number", id |-> i, old |-> issues[i], patch |-> patch]
    OBVIOUS
  <1>2. TypeOK /\ Numbered
    BY DEF PublishInv
  <1>3. UNCHANGED <<issues, inserted, dispatched, disk>>
    BY DEF Update
  <1>4. /\ patch.file \in Files \cup {Null} /\ uploads' \in 0..MaxUploads /\ uploads <= uploads'
        /\ 1..uploads \subseteq 1..uploads' /\ (patch.file # Null => patch.file \in 1..uploads')
    BY <1>1, <1>2, Arrives
  <1>5. issues[i] \in Row /\ patch \in Patch /\ i <= inserted
    BY <1>1, <1>2, <1>4 DEF TypeOK, Exists, Patch, Numbered
  <1>6. /\ x \in Updating /\ x.pc = "number" /\ x.id = i /\ x.old = issues[i]
        /\ x.patch = patch
    BY <1>5, <1>x DEF Updating, UpdateSteps
  <1>7. x \in Request
    BY <1>6, RequestKinds
  <1>8. Follows(issues'[i], x.old)
    BY <1>3, <1>6 DEF Follows
  <1>9. RequestSound(x)'
    BY <1>1, <1>3, <1>4, <1>5, <1>6, <1>8 DEF RequestSound, Arrived, Follows, Exists
  <1>10. StepTo(p, x)
    BY <1>1, <1>2, <1>3, <1>x, TroubledInIds DEF StepTo
  <1>11. disk' \subseteq 1..uploads'
    BY <1>2, <1>3, <1>4 DEF TypeOK
  <1> QED
    BY <1>4, <1>7, <1>9, <1>10, <1>11, SlotStep

\* An update that goes on towards its write stays sound.
LEMMA WriterGoesOn ==
    ASSUME PublishInv, NEW p \in Procs, req[p].pc \in {"number", "updateMove", "write"},
           NEW c \in {"updateMove", "write"}, StepTo(p, [req[p] EXCEPT !.pc = c]),
           uploads' = uploads, disk' \subseteq 1..uploads,
           c = "updateMove" => req[p].patch.file # Null
    PROVE  PublishInv'
  <1>r. PICK r : r = req[p]
    OBVIOUS
  <1>x. PICK x : x = [r EXCEPT !.pc = c]
    OBVIOUS
  <1>1. TypeOK /\ RequestSound(r) /\ r \in Updating /\ r.pc \in {"number", "updateMove", "write"}
    BY <1>r, RequestTypes DEF PublishInv, UpdateSteps
  <1>2. x \in Updating /\ x.pc = c /\ x.id = r.id /\ x.old = r.old /\ x.patch = r.patch
    <2>1. c \in UpdateSteps
      BY DEF UpdateSteps
    <2> QED
      BY <1>1, <1>x, <2>1, UpdateGoesOn
  <1>3. StepTo(p, x)
    BY <1>r, <1>x
  <1>4. x \in Request
    BY <1>2, RequestKinds
  <1>5. RequestSound(x)'
    BY <1>1, <1>2, <1>3, <1>r DEF RequestSound, StepTo, Exists, Arrived, Follows
  <1>6. uploads' \in 0..MaxUploads /\ uploads <= uploads' /\ disk' \subseteq 1..uploads'
    BY <1>1, BoundsAssumption DEF TypeOK
  <1> QED
    BY <1>3, <1>4, <1>5, <1>6, SlotStep

LEMMA UpdateNumberPreserves ==
    ASSUME PublishInv, NEW p \in Procs, UpdateNumber(p) PROVE PublishInv'
  <1> DEFINE r == req[p]
             clash == /\ r.patch.number \notin {Null, r.old.number}
                      /\ FoldedClash(r.patch.number, r.id)
             move == r.patch.file # Null /\ ~IsArchiving(r.old, r.patch)
             c == IF move THEN "updateMove" ELSE "write"
  <1>1. TypeOK
    BY DEF PublishInv
  <1>2. Goto(p, IF clash THEN Idle ELSE [r EXCEPT !.pc = c])
    BY DEF UpdateNumber
  <1>3. c \in {"updateMove", "write"} /\ (c = "updateMove" => r.patch.file # Null)
    OBVIOUS
  <1>4. /\ UNCHANGED <<issues, inserted, dispatched, uploads>> /\ disk' \subseteq 1..uploads
        /\ r.pc = "number"
    BY <1>1 DEF UpdateNumber, TypeOK
  <1> HIDE DEF clash, c
  <1>5. CASE clash
    BY <1>1, <1>2, <1>4, <1>5, TroubledInIds, RequestKinds, QuietStep DEF StepTo, Idle
  <1>6. CASE ~clash
    <2>1. StepTo(p, [r EXCEPT !.pc = c])
      BY <1>1, <1>2, <1>4, <1>6, TroubledInIds DEF StepTo
    <2> QED
      BY <1>3, <1>4, <2>1, WriterGoesOn
  <1> QED
    BY <1>5, <1>6

LEMMA UpdateMovePreserves ==
    ASSUME PublishInv, NEW p \in Procs, UpdateMove(p) PROVE PublishInv'
  <1>1. TypeOK /\ RequestSound(req[p]) /\ req[p].pc = "updateMove"
    BY DEF PublishInv, UpdateMove
  <1>2. req[p].patch.file \in 1..uploads
    BY <1>1 DEF RequestSound, Arrived
  <1>3. StepTo(p, [req[p] EXCEPT !.pc = "write"])
    BY <1>1, TroubledInIds DEF StepTo, UpdateMove
  <1>4. uploads' = uploads /\ disk' \subseteq 1..uploads
    BY <1>1, <1>2 DEF UpdateMove, TypeOK
  <1> QED
    BY <1>1, <1>3, <1>4, WriterGoesOn

LEMMA FollowsTrans ==
    ASSUME NEW a, NEW b, NEW c, Follows(a, b), Follows(b, c) PROVE Follows(a, c)
  BY DEF Follows

\* The row a write leaves behind is a row, is not a draft again, keeps its
\* file, and has one when it stops being a draft.
LEMMA WrittenFollows ==
    ASSUME NEW row \in Row, NEW old \in Row, NEW patch \in Patch,
           Editable(old, patch), Follows(row, old), ~IsArchiving(old, patch)
    PROVE  /\ Patched(row, patch) \in Row
           /\ Follows(Patched(row, patch), row)
           /\ row.status = "Draft" /\ Patched(row, patch).status # "Draft"
                => Patched(row, patch).file # Null
  <1> DEFINE new == Patched(row, patch)
  <1>1. DOMAIN row = {"number", "file", "status"}
    BY DEF Row
  <1>2. new = [f \in {"number", "file", "status"} |->
                 IF patch[f] = Null THEN row[f] ELSE patch[f]]
    BY <1>1 DEF Patched
  <1>3. /\ new.number = IF patch.number = Null THEN row.number ELSE patch.number
        /\ new.file = IF patch.file = Null THEN row.file ELSE patch.file
        /\ new.status = IF patch.status = Null THEN row.status ELSE patch.status
    BY <1>2
  <1>4. new = [number |-> new.number, file |-> new.file, status |-> new.status]
    BY <1>2
  <1>5. /\ row.number \in Numbers /\ row.file \in Files \cup {Null} /\ row.status \in Status
        /\ patch.number \in Numbers \cup {Null} /\ patch.file \in Files \cup {Null}
        /\ patch.status \in Status \cup {Null}
    BY DEF Row, Patch
  <1> HIDE DEF new
  <1>6. new \in Row
    BY <1>3, <1>4, <1>5 DEF Row
  <1>7. old.status \in Status
    BY DEF Row
  <1>8. /\ patch.status \in {Null, "Published"}
        /\ patch.status = "Published"
             => old.status = "Draft" /\ (patch.file # Null \/ old.file # Null)
    <2>1. CASE old.status = "Archived"
      BY <2>1 DEF Editable
    <2>2. CASE old.status = "Published"
      <3>1. patch = [number |-> Null, file |-> Null, status |-> Null]
        BY <2>2 DEF Editable, IsArchiving
      <3>2. patch.status = Null
        BY <3>1
      <3>3. Null # "Published"
        BY NullAssumption DEF Status
      <3> QED
        BY <3>2, <3>3
    <2>3. CASE old.status = "Draft"
      BY <2>3 DEF Editable
    <2> QED
      BY <1>7, <2>1, <2>2, <2>3 DEF Status
  <1>9. Follows(new, row)
    BY <1>3, <1>8 DEF Follows
  <1>10. row.status = "Draft" /\ new.status # "Draft" => new.file # Null
    BY <1>3, <1>8 DEF Follows
  <1> QED
    BY <1>6, <1>9, <1>10 DEF new

\* A write that succeeds: the other updates of the row see it move forward.
LEMMA WritePreserves ==
    ASSUME PublishInv, NEW p \in Procs, NEW id \in IssueIds, Exists(id),
           NEW row \in Row, Follows(row, issues[id]), issues' = [issues EXCEPT ![id] = row],
           NEW x \in Request, x.pc \in {"idle", "oldExists"}, Goto(p, x),
           UNCHANGED <<inserted, dispatched, disk, uploads>>
    PROVE  PublishInv'
  <1>1. TypeOK /\ DispatchedIssueExists /\ Numbered /\ \A q \in Procs : RequestSound(req[q])
    BY DEF PublishInv
  <1>2. /\ issues' \in [IssueIds -> Row \cup {Null}]
        /\ \A i \in IssueIds : issues'[i] = IF i = id THEN row ELSE issues[i]
    BY <1>1 DEF TypeOK
  <1>3. /\ req' \in [Procs -> Request] /\ \A q \in Procs : req'[q] = IF q = p THEN x ELSE req[q]
        /\ troubled' \subseteq IssueIds
    BY <1>1 DEF TypeOK, Goto
  <1>4. \A i \in IssueIds : Exists(i)' <=> Exists(i)
    BY <1>2, NullAssumption DEF Exists
  <1>5. TypeOK'
    BY <1>1, <1>2, <1>3 DEF TypeOK
  <1>6. DispatchedIssueExists' /\ Numbered'
    BY <1>1, <1>4 DEF DispatchedIssueExists, Numbered, TypeOK
  <1>7. ASSUME NEW q \in Procs, q # p PROVE RequestSound(req[q])'
    <2>1. req'[q] = req[q] /\ RequestSound(req[q])
      BY <1>1, <1>3, <1>7
    <2>2. CASE req[q].pc \in {"number", "updateMove", "write"}
      <3>1. req[q].id \in IssueIds
        BY <1>1, <2>2, RequestTypes DEF UpdateSteps, Updating
      <3>2. Exists(req[q].id) => Follows(issues'[req[q].id], req[q].old)
        <4>1. Exists(req[q].id) => Follows(issues[req[q].id], req[q].old)
          BY <2>1, <2>2 DEF RequestSound
        <4>2. CASE req[q].id = id
          BY <1>2, <4>1, <4>2, FollowsTrans
        <4>3. CASE req[q].id # id
          BY <1>2, <3>1, <4>1, <4>3
        <4> QED
          BY <4>2, <4>3
      <3>3. issues'[req[q].id] # Null => Exists(req[q].id)
        BY <1>4, <3>1 DEF Exists
      <3> QED
        BY <2>1, <2>2, <3>2, <3>3 DEF RequestSound, Exists, Arrived
    <2>3. CASE req[q].pc \notin {"number", "updateMove", "write"}
      BY <2>1, <2>3 DEF RequestSound, Arrived
    <2> QED
      BY <2>2, <2>3
  <1>8. RequestSound(req[p])'
    BY <1>3 DEF RequestSound
  <1> QED
    BY <1>5, <1>6, <1>7, <1>8 DEF PublishInv

\* What UpdateWrite does to the row it writes.
Advances(row, new) ==
    /\ new \in Row
    /\ Follows(new, row)
    /\ row.status = "Draft" /\ new.status # "Draft" => new.file # Null

LEMMA UpdateWritePreserves ==
    ASSUME PublishInv, NEW p \in Procs, UpdateWrite(p)
    PROVE  /\ PublishInv'
           /\ \A i \in IssueIds : Exists(i) =>
                issues'[i] = issues[i] \/ Advances(issues[i], issues'[i])
  <1> DEFINE r == req[p]
             archive == IsArchiving(r.old, r.patch)
             newFile == IF archive THEN Null ELSE r.patch.file
             row == IF archive THEN [issues[r.id] EXCEPT !.status = "Archived"]
                    ELSE Patched(issues[r.id], r.patch)
             x == IF newFile = Null \/ r.old.file = Null THEN Idle
                  ELSE [r EXCEPT !.pc = "oldExists"]
             y == CleanUpOf(r.id, newFile)
  <1>1. TypeOK /\ RequestSound(r) /\ r \in Updating /\ r.pc = "write"
    BY RequestTypes DEF PublishInv, UpdateWrite, UpdateSteps
  <1>2. /\ r.id \in IssueIds /\ r.old \in Row /\ r.patch \in Patch
        /\ Editable(r.old, r.patch) /\ (Exists(r.id) => Follows(issues[r.id], r.old))
    BY <1>1 DEF Updating, RequestSound
  <1>3. UNCHANGED <<inserted, dispatched, disk, uploads>>
    BY DEF UpdateWrite
  <1>4. \/ Exists(r.id) /\ issues' = [issues EXCEPT ![r.id] = row] /\ Goto(p, x)
        \/ Goto(p, y) /\ UNCHANGED issues
    BY DEF UpdateWrite
  <1>5. newFile \in Files \cup {Null}
    BY <1>2 DEF Patch
  <1>6. x \in Request /\ x.pc \in {"idle", "oldExists"}
    <2>1. /\ [r EXCEPT !.pc = "oldExists"] \in Updating
          /\ [r EXCEPT !.pc = "oldExists"].pc = "oldExists"
      BY <1>1, UpdateGoesOn DEF UpdateSteps
    <2> QED
      BY <2>1, RequestKinds DEF Idle
  <1>7. y \in Request /\ y.pc \in {"idle", "cleanUp"}
    BY <1>2, <1>5, CleanUpIsQuiet
  <1>8. Exists(r.id) => Advances(issues[r.id], row)
    <2>1. SUFFICES ASSUME Exists(r.id) PROVE Advances(issues[r.id], row)
      OBVIOUS
    <2>2. issues[r.id] \in Row
      BY <1>1, <1>2, <2>1 DEF TypeOK, Exists
    <2>3. CASE archive
      <3>2. r.old.status # "Draft"
        BY <2>3 DEF IsArchiving
      <3>3. issues[r.id].status # "Draft"
        BY <1>2, <2>1, <3>2 DEF Follows
      <3>4. /\ row \in Row /\ row.file = issues[r.id].file /\ row.status = "Archived"
        BY <2>2, <2>3 DEF Row, Status
      <3> QED
        BY <3>3, <3>4 DEF Advances, Follows
    <2>4. CASE ~archive
      <3>1. row = Patched(issues[r.id], r.patch)
        BY <2>4
      <3> HIDE DEF row
      <3> QED
        BY <1>2, <2>1, <2>2, <2>4, <3>1, WrittenFollows DEF Advances
    <2> QED
      BY <2>3, <2>4
  <1> HIDE DEF archive, newFile, row, x, y
  <1>9. CASE Exists(r.id) /\ issues' = [issues EXCEPT ![r.id] = row] /\ Goto(p, x)
    <2>1. PublishInv'
      BY <1>2, <1>3, <1>6, <1>8, <1>9, WritePreserves DEF Advances
    <2>2. \A i \in IssueIds : issues'[i] = IF i = r.id THEN row ELSE issues[i]
      BY <1>1, <1>9 DEF TypeOK
    <2> QED
      BY <1>8, <1>9, <2>1, <2>2
  <1>10. CASE Goto(p, y) /\ UNCHANGED issues
    <2>1. StepTo(p, y) /\ uploads' = uploads /\ disk' \subseteq 1..uploads
      BY <1>1, <1>3, <1>10, TroubledInIds DEF StepTo, TypeOK
    <2>2. PublishInv'
      BY <1>7, <2>1, QuietStep
    <2> QED
      BY <1>10, <2>2
  <1> QED
    BY <1>4, <1>9, <1>10

LEMMA OldExistsPreserves ==
    ASSUME PublishInv, NEW p \in Procs, OldExists(p) PROVE PublishInv'
  <1> DEFINE x == IF req[p].old.file \in disk THEN [req[p] EXCEPT !.pc = "oldUnlink"] ELSE Idle
  <1>1. TypeOK /\ req[p] \in Updating
    BY RequestTypes DEF PublishInv, OldExists, UpdateSteps
  <1>2. x \in Request /\ x.pc \in {"idle", "oldUnlink"}
    <2>1. /\ [req[p] EXCEPT !.pc = "oldUnlink"] \in Updating
          /\ [req[p] EXCEPT !.pc = "oldUnlink"].pc = "oldUnlink"
      BY <1>1, UpdateGoesOn DEF UpdateSteps
    <2> QED
      BY <2>1, RequestKinds DEF Idle
  <1>3. Goto(p, x)
    BY DEF OldExists
  <1> HIDE DEF x
  <1>4. StepTo(p, x) /\ uploads' = uploads /\ disk' \subseteq 1..uploads
    BY <1>1, <1>3, TroubledInIds DEF StepTo, OldExists, TypeOK
  <1> QED
    BY <1>2, <1>4, QuietStep

LEMMA OldUnlinkPreserves ==
    ASSUME PublishInv, NEW p \in Procs, OldUnlink(p) PROVE PublishInv'
  <1> DEFINE y == CleanUpOf(req[p].id, req[p].patch.file)
  <1>1. TypeOK /\ req[p] \in Updating
    BY RequestTypes DEF PublishInv, OldUnlink, UpdateSteps
  <1>2. y \in Request /\ y.pc \in {"idle", "cleanUp"}
    <2>1. req[p].id \in IssueIds /\ req[p].patch.file \in Files \cup {Null}
      BY <1>1 DEF Updating, Patch
    <2> QED
      BY <2>1, CleanUpIsQuiet
  <1>3. /\ Goto(p, Idle) \/ Trouble(p, y)
        /\ uploads' = uploads /\ disk' \subseteq 1..uploads
        /\ UNCHANGED <<issues, inserted, dispatched>>
    BY <1>1 DEF OldUnlink, TypeOK
  <1> HIDE DEF y
  <1>4. CASE Goto(p, Idle)
    BY <1>1, <1>3, <1>4, TroubledInIds, RequestKinds, QuietStep DEF StepTo, Idle
  <1>5. CASE Trouble(p, y)
    BY <1>1, <1>2, <1>3, <1>5, TroubledInIds, QuietStep DEF StepTo
  <1> QED
    BY <1>3, <1>4, <1>5

-----------------------------------------------------------------------------
(* delete *)

LEMMA DeletePreserves ==
    ASSUME PublishInv, NEW p \in Procs, Delete(p) PROVE PublishInv'
  <1>1. PICK i \in IssueIds :
          Exists(i) /\ Goto(p, [pc |-> "count", id |-> i, old |-> issues[i]])
    BY DEF Delete
  <1>x. PICK x : x = [pc |-> "count", id |-> i, old |-> issues[i]]
    OBVIOUS
  <1>2. TypeOK
    BY DEF PublishInv
  <1>3. issues[i] \in Row
    BY <1>1, <1>2 DEF TypeOK, Exists
  <1>4. x \in Request /\ x.pc = "count"
    BY <1>3, <1>x, RequestKinds DEF Deleting, DeleteSteps
  <1>5. StepTo(p, x) /\ uploads' = uploads /\ disk' \subseteq 1..uploads
    BY <1>1, <1>2, <1>x, TroubledInIds DEF StepTo, Delete, TypeOK
  <1> QED
    BY <1>4, <1>5, QuietStep

LEMMA DeleteCountPreserves ==
    ASSUME PublishInv, NEW p \in Procs, DeleteCount(p) PROVE PublishInv'
  <1> DEFINE x == IF req[p].id \in dispatched THEN Idle ELSE [req[p] EXCEPT !.pc = "deleteRow"]
  <1>1. TypeOK /\ req[p] \in Deleting
    BY RequestTypes DEF PublishInv, DeleteCount, DeleteSteps
  <1>2. x \in Request /\ x.pc \in {"idle", "deleteRow"}
    <2>1. /\ [req[p] EXCEPT !.pc = "deleteRow"] \in Deleting
          /\ [req[p] EXCEPT !.pc = "deleteRow"].pc = "deleteRow"
      BY <1>1, DeleteGoesOn DEF DeleteSteps
    <2> QED
      BY <2>1, RequestKinds DEF Idle
  <1>3. Goto(p, x)
    BY DEF DeleteCount
  <1> HIDE DEF x
  <1>4. StepTo(p, x) /\ uploads' = uploads /\ disk' \subseteq 1..uploads
    BY <1>1, <1>3, TroubledInIds DEF StepTo, DeleteCount, TypeOK
  <1> QED
    BY <1>2, <1>4, QuietStep

\* A deletion goes on with the row locked, while nobody has dispatched it.
LEMMA LockedGoesOn ==
    ASSUME PublishInv, NEW p \in Procs, req[p].pc \in DeleteSteps, req[p].id \notin dispatched,
           NEW c \in {"fileExists", "fileUnlink", "commit"},
           StepTo(p, [req[p] EXCEPT !.pc = c]), uploads' = uploads, disk' \subseteq 1..uploads
    PROVE  PublishInv'
  <1>r. PICK r : r = req[p]
    OBVIOUS
  <1>x. PICK x : x = [r EXCEPT !.pc = c]
    OBVIOUS
  <1>1. TypeOK /\ r \in Deleting
    BY <1>r, RequestTypes DEF PublishInv
  <1>2. x \in Deleting /\ x.pc = c /\ x.id = r.id
    <2>1. c \in DeleteSteps
      BY DEF DeleteSteps
    <2> QED
      BY <1>1, <1>x, <2>1, DeleteGoesOn
  <1>3. StepTo(p, x)
    BY <1>r, <1>x
  <1>4. x \in Request
    BY <1>2, RequestKinds
  <1>5. RequestSound(x)'
    BY <1>2, <1>3, <1>r DEF RequestSound, StepTo
  <1>6. uploads' \in 0..MaxUploads /\ uploads <= uploads' /\ disk' \subseteq 1..uploads'
    BY <1>1, BoundsAssumption DEF TypeOK
  <1> QED
    BY <1>3, <1>4, <1>5, <1>6, SlotStep

LEMMA DeleteRowPreserves ==
    ASSUME PublishInv, NEW p \in Procs, DeleteRow(p) PROVE PublishInv'
  <1> DEFINE r == req[p]
             fails == ~Exists(r.id) \/ r.id \in dispatched
             c == IF r.old.file = Null THEN "commit" ELSE "fileExists"
  <1>1. TypeOK /\ r.pc \in DeleteSteps
    BY DEF PublishInv, DeleteRow, DeleteSteps
  <1>2. Goto(p, IF fails THEN Idle ELSE [r EXCEPT !.pc = c])
    BY DEF DeleteRow
  <1>3. c \in {"fileExists", "fileUnlink", "commit"} /\ (~fails => r.id \notin dispatched)
    OBVIOUS
  <1>4. UNCHANGED <<issues, inserted, dispatched, uploads>> /\ disk' \subseteq 1..uploads
    BY <1>1 DEF DeleteRow, TypeOK
  <1> HIDE DEF fails, c
  <1>5. CASE fails
    BY <1>1, <1>2, <1>4, <1>5, TroubledInIds, RequestKinds, QuietStep DEF StepTo, Idle
  <1>6. CASE ~fails
    <2>1. StepTo(p, [r EXCEPT !.pc = c])
      BY <1>1, <1>2, <1>4, <1>6, TroubledInIds DEF StepTo
    <2> QED
      BY <1>1, <1>3, <1>4, <1>6, <2>1, LockedGoesOn
  <1> QED
    BY <1>5, <1>6

LEMMA FileExistsPreserves ==
    ASSUME PublishInv, NEW p \in Procs, FileExists(p) PROVE PublishInv'
  <1> DEFINE c == IF req[p].old.file \in disk THEN "fileUnlink" ELSE "commit"
  <1>1. TypeOK /\ req[p].pc \in DeleteSteps /\ req[p].id \notin dispatched
    BY DEF PublishInv, RequestSound, FileExists, DeleteSteps
  <1>2. c \in {"fileExists", "fileUnlink", "commit"}
    OBVIOUS
  <1>3. Goto(p, [req[p] EXCEPT !.pc = c])
    BY DEF FileExists
  <1> HIDE DEF c
  <1>4. /\ StepTo(p, [req[p] EXCEPT !.pc = c])
        /\ uploads' = uploads /\ disk' \subseteq 1..uploads
    BY <1>1, <1>3, TroubledInIds DEF StepTo, FileExists, TypeOK
  <1> QED
    BY <1>1, <1>2, <1>4, LockedGoesOn

LEMMA FileUnlinkPreserves ==
    ASSUME PublishInv, NEW p \in Procs, FileUnlink(p) PROVE PublishInv'
  <1>1. TypeOK /\ req[p].pc \in DeleteSteps /\ req[p].id \notin dispatched
    BY DEF PublishInv, RequestSound, FileUnlink, DeleteSteps
  <1>2. /\ Goto(p, [req[p] EXCEPT !.pc = "commit"]) \/ Trouble(p, Idle)
        /\ uploads' = uploads /\ disk' \subseteq 1..uploads
        /\ UNCHANGED <<issues, inserted, dispatched>>
    BY <1>1 DEF FileUnlink, TypeOK
  <1>3. CASE Goto(p, [req[p] EXCEPT !.pc = "commit"])
    <2>1. StepTo(p, [req[p] EXCEPT !.pc = "commit"])
      BY <1>1, <1>2, <1>3, TroubledInIds DEF StepTo
    <2> QED
      BY <1>1, <1>2, <2>1, LockedGoesOn
  <1>4. CASE Trouble(p, Idle)
    BY <1>1, <1>2, <1>4, TroubledInIds, RequestKinds, QuietStep DEF StepTo, Idle
  <1> QED
    BY <1>2, <1>3, <1>4

\* The row goes: nobody has dispatched it.
LEMMA CommitsPreserves ==
    ASSUME PublishInv, NEW p \in Procs, NEW id \in IssueIds, id \notin dispatched,
           issues' = [issues EXCEPT ![id] = Null], Goto(p, Idle),
           UNCHANGED <<inserted, dispatched, disk, uploads>>
    PROVE  PublishInv'
  <1>1. TypeOK /\ DispatchedIssueExists /\ Numbered /\ \A q \in Procs : RequestSound(req[q])
    BY DEF PublishInv
  <1>2. /\ issues' \in [IssueIds -> Row \cup {Null}]
        /\ \A i \in IssueIds : issues'[i] = IF i = id THEN Null ELSE issues[i]
    BY <1>1 DEF TypeOK
  <1>3. /\ req' \in [Procs -> Request] /\ \A q \in Procs : req'[q] = IF q = p THEN Idle ELSE req[q]
        /\ troubled' \subseteq IssueIds
    BY <1>1, RequestKinds DEF TypeOK, Goto
  <1>4. TypeOK'
    BY <1>1, <1>2, <1>3 DEF TypeOK
  <1>5. DispatchedIssueExists'
    BY <1>1, <1>2 DEF DispatchedIssueExists, TypeOK, Exists
  <1>6. Numbered'
    BY <1>1, <1>2 DEF Numbered, Exists
  <1>7. ASSUME NEW q \in Procs, q # p PROVE RequestSound(req[q])'
    <2>1. req'[q] = req[q] /\ RequestSound(req[q])
      BY <1>1, <1>3, <1>7
    <2>2. CASE req[q].pc \in {"number", "updateMove", "write"}
      <3>1. req[q].id \in IssueIds
        BY <1>1, <2>2, RequestTypes DEF UpdateSteps, Updating
      <3>2. issues'[req[q].id] # Null => issues'[req[q].id] = issues[req[q].id]
        BY <1>2, <3>1
      <3> QED
        BY <2>1, <2>2, <3>2 DEF RequestSound, Exists, Arrived
    <2>3. CASE req[q].pc \notin {"number", "updateMove", "write"}
      BY <2>1, <2>3 DEF RequestSound, Arrived
    <2> QED
      BY <2>2, <2>3
  <1>8. RequestSound(req[p])'
    BY <1>3 DEF RequestSound, Idle
  <1> QED
    BY <1>4, <1>5, <1>6, <1>7, <1>8 DEF PublishInv

LEMMA CommitPreserves ==
    ASSUME PublishInv, NEW p \in Procs, Commit(p)
    PROVE  /\ PublishInv'
           /\ \A i \in IssueIds : issues'[i] = Null \/ issues'[i] = issues[i]
  <1>1. TypeOK /\ req[p] \in Deleting /\ req[p].id \notin dispatched
    BY RequestTypes DEF PublishInv, RequestSound, Commit, DeleteSteps
  <1>2. req[p].id \in IssueIds
    BY <1>1 DEF Deleting
  <1>3. /\ \/ issues' = [issues EXCEPT ![req[p].id] = Null] /\ Goto(p, Idle)
           \/ Trouble(p, Idle) /\ UNCHANGED issues
        /\ UNCHANGED <<inserted, dispatched, disk, uploads>>
    BY DEF Commit
  <1>4. CASE issues' = [issues EXCEPT ![req[p].id] = Null] /\ Goto(p, Idle)
    <2>1. PublishInv'
      BY <1>1, <1>2, <1>3, <1>4, CommitsPreserves
    <2>2. \A i \in IssueIds : issues'[i] = Null \/ issues'[i] = issues[i]
      BY <1>1, <1>2, <1>4 DEF TypeOK
    <2> QED
      BY <2>1, <2>2
  <1>5. CASE Trouble(p, Idle) /\ UNCHANGED issues
    <2>1. StepTo(p, Idle) /\ uploads' = uploads /\ disk' \subseteq 1..uploads
      BY <1>1, <1>3, <1>5, TroubledInIds DEF StepTo, TypeOK
    <2> QED
      BY <1>5, <2>1, RequestKinds, QuietStep DEF Idle
  <1> QED
    BY <1>3, <1>4, <1>5

-----------------------------------------------------------------------------
(* Around the service *)

LEMMA CrashPreserves ==
    ASSUME PublishInv, NEW p \in Procs, Crash(p) PROVE PublishInv'
  <1>1. TypeOK
    BY DEF PublishInv
  <1>2. StepTo(p, Idle) /\ uploads' = uploads /\ disk' \subseteq 1..uploads
    BY <1>1, TroubledInIds DEF StepTo, Crash, TypeOK
  <1> QED
    BY <1>2, RequestKinds, QuietStep DEF Idle

LEMMA DispatchPreserves ==
    ASSUME PublishInv, NEW i \in IssueIds, Dispatch(i) PROVE PublishInv'
  <1>1. TypeOK /\ DispatchedIssueExists /\ Numbered /\ \A q \in Procs : RequestSound(req[q])
    BY DEF PublishInv
  <1>2. Exists(i) /\ ~Locked(i) /\ dispatched' = dispatched \cup {i}
        /\ UNCHANGED <<issues, inserted, disk, uploads, req, troubled>>
    BY DEF Dispatch
  <1>3. TypeOK'
    BY <1>1, <1>2 DEF TypeOK
  <1>4. DispatchedIssueExists' /\ Numbered'
    BY <1>1, <1>2 DEF DispatchedIssueExists, Numbered, Exists
  <1>5. ASSUME NEW q \in Procs PROVE RequestSound(req[q])'
    <2>1. req[q].pc \in {"fileExists", "fileUnlink", "commit"} => req[q].id # i
      BY <1>2 DEF Locked
    <2> QED
      BY <1>1, <1>2, <2>1 DEF RequestSound, Exists, Arrived
  <1> QED
    BY <1>3, <1>4, <1>5 DEF PublishInv

-----------------------------------------------------------------------------
(* The theorems *)

LEMMA InitIsSound == Init => PublishInv
  <1> SUFFICES ASSUME Init PROVE PublishInv
    OBVIOUS
  <1>1. TypeOK
    BY BoundsAssumption, RequestKinds DEF Init, TypeOK
  <1>2. DispatchedIssueExists /\ Numbered
    BY DEF Init, DispatchedIssueExists, Numbered, Exists
  <1>3. \A p \in Procs : RequestSound(req[p])
    BY DEF Init, RequestSound, Idle
  <1> QED
    BY <1>1, <1>2, <1>3 DEF PublishInv

\* All steps of one slot but the three that write rows.
LEMMA OtherStepsPreserve ==
    ASSUME PublishInv, NEW p \in Procs,
           \/ Create(p) \/ CreateMove(p) \/ CleanUp(p)
           \/ Update(p) \/ UpdateNumber(p) \/ UpdateMove(p)
           \/ OldExists(p) \/ OldUnlink(p)
           \/ Delete(p) \/ DeleteCount(p) \/ DeleteRow(p) \/ FileExists(p) \/ FileUnlink(p)
           \/ Crash(p)
    PROVE  PublishInv' /\ issues' = issues
  <1>1. PublishInv'
    BY CreatePreserves, CreateMovePreserves, CleanUpPreserves, UpdatePreserves,
       UpdateNumberPreserves, UpdateMovePreserves, OldExistsPreserves, OldUnlinkPreserves,
       DeletePreserves, DeleteCountPreserves, DeleteRowPreserves, FileExistsPreserves,
       FileUnlinkPreserves, CrashPreserves
  <1>2. issues' = issues
    BY DEF Create, CreateMove, CleanUp, Update, UpdateNumber, UpdateMove, OldExists, OldUnlink,
           Delete, DeleteCount, DeleteRow, FileExists, FileUnlink, Crash
  <1> QED
    BY <1>1, <1>2

\* What a step can do to a row.
RowStep(i) ==
    issues'[i] = Null \/ issues'[i] = issues[i] \/ Advances(issues[i], issues'[i])

LEMMA StepPreserves ==
    ASSUME PublishInv, [Next]_vars
    PROVE  PublishInv' /\ \A i \in IssueIds : Exists(i) => RowStep(i)
  <1>1. ASSUME NEW p \in Procs, Insert(p)
        PROVE  PublishInv' /\ \A i \in IssueIds : Exists(i) => RowStep(i)
    BY <1>1, InsertPreserves DEF RowStep
  <1>2. ASSUME NEW p \in Procs, UpdateWrite(p)
        PROVE  PublishInv' /\ \A i \in IssueIds : Exists(i) => RowStep(i)
    BY <1>2, UpdateWritePreserves DEF RowStep
  <1>3. ASSUME NEW p \in Procs, Commit(p)
        PROVE  PublishInv' /\ \A i \in IssueIds : Exists(i) => RowStep(i)
    BY <1>3, CommitPreserves DEF RowStep
  <1>4. ASSUME NEW p \in Procs,
               \/ Create(p) \/ CreateMove(p) \/ CleanUp(p)
               \/ Update(p) \/ UpdateNumber(p) \/ UpdateMove(p)
               \/ OldExists(p) \/ OldUnlink(p)
               \/ Delete(p) \/ DeleteCount(p) \/ DeleteRow(p) \/ FileExists(p) \/ FileUnlink(p)
               \/ Crash(p)
        PROVE  PublishInv' /\ \A i \in IssueIds : Exists(i) => RowStep(i)
    BY <1>4, OtherStepsPreserve DEF RowStep
  <1>5. ASSUME NEW i \in IssueIds, Dispatch(i)
        PROVE  PublishInv' /\ \A j \in IssueIds : Exists(j) => RowStep(j)
    BY <1>5, DispatchPreserves DEF RowStep, Dispatch
  <1>6. CASE UNCHANGED vars
    BY <1>6 DEF vars, PublishInv, TypeOK, DispatchedIssueExists, Numbered, RequestSound, Exists,
                Arrived, RowStep
  <1> QED
    BY <1>1, <1>2, <1>3, <1>4, <1>5, <1>6 DEF Next

\* However requests interleave, fail and crash: the tables keep their shape,
\* dispatched issues keep their row, and no request in flight has read an
\* issue that has moved back since.
THEOREM PublishInvariant == Spec => []PublishInv
  <1>1. PublishInv /\ [Next]_vars => PublishInv'
    BY StepPreserves
  <1> QED
    BY <1>1, InitIsSound, PTL DEF Spec

\* Every table and request keeps its type, and no file is on disk that was
\* never uploaded.
THEOREM TypeCorrect == Spec => []TypeOK
  <1>1. PublishInv => TypeOK
    BY DEF PublishInv
  <1> QED
    BY <1>1, PublishInvariant, PTL

\* delete never takes an issue an entry of the dispatch book refers to, even
\* if the entry was written after it counted them: the foreign key and the
\* lock of the open deletion between them leave no gap.
THEOREM DispatchedIssuesStay == Spec => []DispatchedIssueExists
  <1>1. PublishInv => DispatchedIssueExists
    BY DEF PublishInv
  <1> QED
    BY <1>1, PublishInvariant, PTL

\* Whatever stale row an update decided on, no issue becomes a draft again,
\* and none is published by update without a file.
THEOREM PublishingNeverReturns == Spec => PublishingIsOneWay
  <1>1. PublishInv /\ [Next]_vars => [OneWay]_vars
    <2>1. SUFFICES ASSUME PublishInv, [Next]_vars PROVE OneWay
      OBVIOUS
    <2>2. SUFFICES ASSUME NEW i \in IssueIds, Exists(i), issues'[i] # Null
                   PROVE  /\ issues[i].status # "Draft" => issues'[i].status # "Draft"
                          /\ issues[i].status = "Draft" /\ issues'[i].status # "Draft"
                                => issues'[i].file # Null
      BY DEF OneWay
    <2>3. RowStep(i)
      BY <2>1, <2>2, StepPreserves
    <2> QED
      BY <2>2, <2>3 DEF RowStep, Advances, Follows
  <1>2. PublishingIsOneWay <=> [][OneWay]_vars
    BY DEF PublishingIsOneWay
  <1> QED
    BY <1>1, <1>2, PublishInvariant, PTL DEF Spec

-----------------------------------------------------------------------------
(* Issues whose requests run one at a time: the files *)

\* What each kind of request carries in its hands.
LEMMA CarriedBy ==
    \A r : /\ r.pc \in {"createMove", "insert"} => Carried(r) = {r.row.file} \ {Null}
           /\ r.pc \in UpdateSteps => Carried(r) = {r.old.file, r.patch.file} \ {Null}
           /\ r.pc = "cleanUp" => Carried(r) = {r.file} \ {Null}
           /\ r.pc \in DeleteSteps => Carried(r) = {r.old.file} \ {Null}
           /\ r.pc = "idle" => Carried(r) = {}
  BY DEF Carried, UpdateSteps, DeleteSteps

LEMMA CarriedFiles ==
    ASSUME TypeOK, NEW p \in Procs
    PROVE  Carried(req[p]) \subseteq Files
  <1>1. req[p].pc \in {"idle", "createMove", "insert", "cleanUp"} \cup UpdateSteps \cup DeleteSteps
    BY DEF TypeOK, Request, Idle, UpdateSteps, DeleteSteps
  <1>2. CASE req[p].pc = "idle"
    BY <1>2, CarriedBy
  <1>3. CASE req[p].pc \in {"createMove", "insert"}
    BY <1>3, CarriedBy, RequestTypes DEF Creating, Row
  <1>4. CASE req[p].pc = "cleanUp"
    BY <1>4, CarriedBy, RequestTypes DEF CleaningUp
  <1>5. CASE req[p].pc \in UpdateSteps
    BY <1>5, CarriedBy, RequestTypes DEF Updating, Row, Patch
  <1>6. CASE req[p].pc \in DeleteSteps
    BY <1>6, CarriedBy, RequestTypes DEF Deleting, Row
  <1> QED
    BY <1>1, <1>2, <1>3, <1>4, <1>5, <1>6

\* Files stay apart while one request goes on: what it carries then is new,
\* was in its hands before, or is the file of its issue.
LEMMA ApartStep ==
    ASSUME TypeOK, FilesApart, NEW p \in Procs, NEW x, req' = [req EXCEPT ![p] = x],
           UNCHANGED issues, uploads \in Nat, uploads' \in Nat, uploads <= uploads',
           \A f \in Carried(x) :
              \/ f \in uploads + 1 .. uploads'
              \/ f \in Carried(req[p]) /\ x.id = req[p].id
              \/ x.id \in IssueIds /\ f \in RowFiles(x.id)
    PROVE  FilesApart'
  <1>1. \A q \in Procs : req'[q] = IF q = p THEN x ELSE req[q]
    BY DEF TypeOK
  <1>2. \A i : RowFiles(i)' = RowFiles(i)
    BY DEF RowFiles, Exists
  <1>3. \A q \in Procs : Carried(req[q])' = IF q = p THEN Carried(x) ELSE Carried(req[q])
    BY <1>1 DEF Carried
  <1>4. /\ \A q \in Procs : Carried(req[q]) \subseteq 1..uploads
        /\ \A i \in IssueIds : RowFiles(i) \subseteq 1..uploads
    BY DEF FilesApart
  <1>5. \A f \in uploads + 1 .. uploads' : f \notin 1..uploads /\ f \in 1..uploads'
    OBVIOUS
  <1>6. \A f \in 1..uploads : f \in 1..uploads'
    OBVIOUS
  <1>7. 0 \notin IssueIds
    BY DEF IssueIds
  <1>8. \A i, j \in IssueIds, f \in Files : f \in RowFiles(i)' /\ f \in RowFiles(j)' => i = j
    BY <1>2 DEF FilesApart
  <1>9. ASSUME NEW q \in Procs, NEW i \in IssueIds, NEW f \in Files,
               f \in Carried(req[q])', f \in RowFiles(i)'
        PROVE  req'[q].id = i
    <2>1. CASE q = p
      <3>1. f \in Carried(x) /\ f \in RowFiles(i)
        BY <1>2, <1>3, <1>9, <2>1
      <3>2. f \notin uploads + 1 .. uploads'
        BY <1>4, <1>5, <3>1
      <3> QED
        BY <1>1, <2>1, <3>1, <3>2 DEF FilesApart
    <2>2. CASE q # p
      BY <1>1, <1>2, <1>3, <1>9, <2>2 DEF FilesApart
    <2> QED
      BY <2>1, <2>2
  <1>10. ASSUME NEW q \in Procs, q # p, NEW f \in Files, f \in Carried(x), f \in Carried(req[q])
         PROVE  x.id = req[q].id /\ x.id # 0
    <2>1. f \notin uploads + 1 .. uploads'
      BY <1>4, <1>5, <1>10
    <2> QED
      BY <1>7, <1>10, <2>1 DEF FilesApart
  <1>11. \A q1, q2 \in Procs, f \in Files :
            f \in Carried(req[q1])' /\ f \in Carried(req[q2])' =>
               q1 = q2 \/ (req'[q1].id = req'[q2].id /\ req'[q1].id # 0)
    BY <1>1, <1>3, <1>10 DEF FilesApart
  <1>12. \A q \in Procs : Carried(req[q])' \subseteq 1..uploads'
    BY <1>2, <1>3, <1>4, <1>5, <1>6
  <1>13. \A i \in IssueIds : RowFiles(i)' \subseteq 1..uploads'
    BY <1>2, <1>4, <1>6
  <1> QED
    BY <1>8, <1>9, <1>11, <1>12, <1>13 DEF FilesApart

\* Files stay apart while a request writes: a row takes its file from the
\* hands of the one request that may give it.
LEMMA ApartWrite ==
    ASSUME TypeOK, FilesApart, NEW p \in Procs, NEW x, req' = [req EXCEPT ![p] = x],
           UNCHANGED uploads, NEW t \in IssueIds,
           Carried(x) \subseteq Carried(req[p]), Carried(x) # {} => x.id = req[p].id,
           \A i \in IssueIds \ {t} : RowFiles(i)' = RowFiles(i),
           RowFiles(t)' \subseteq RowFiles(t) \cup Carried(req[p]),
           req[p].id = t \/ (req[p].id = 0 /\ Carried(x) = {})
    PROVE  FilesApart'
  <1>1. \A q \in Procs : req'[q] = IF q = p THEN x ELSE req[q]
    BY DEF TypeOK
  <1>2. \A q \in Procs : Carried(req[q])' = IF q = p THEN Carried(x) ELSE Carried(req[q])
    BY <1>1 DEF Carried
  <1>3. 0 \notin IssueIds
    BY DEF IssueIds
  <1>4. ASSUME NEW i \in IssueIds, i # t, NEW f \in Files, f \in RowFiles(t)', f \in RowFiles(i)'
        PROVE  FALSE
    BY <1>3, <1>4 DEF FilesApart
  <1>5. \A i, j \in IssueIds, f \in Files : f \in RowFiles(i)' /\ f \in RowFiles(j)' => i = j
    BY <1>4 DEF FilesApart
  <1>6. ASSUME NEW q \in Procs, NEW i \in IssueIds, NEW f \in Files,
               f \in Carried(req[q])', f \in RowFiles(i)'
        PROVE  req'[q].id = i
    <2>1. CASE q = p
      BY <1>1, <1>2, <1>3, <1>6, <2>1 DEF FilesApart
    <2>2. CASE q # p
      BY <1>1, <1>2, <1>3, <1>6, <2>2 DEF FilesApart
    <2> QED
      BY <2>1, <2>2
  <1>7. \A q1, q2 \in Procs, f \in Files :
           f \in Carried(req[q1])' /\ f \in Carried(req[q2])' =>
              q1 = q2 \/ (req'[q1].id = req'[q2].id /\ req'[q1].id # 0)
    BY <1>1, <1>2 DEF FilesApart
  <1>8. \A q \in Procs : Carried(req[q])' \subseteq 1..uploads'
    BY <1>2 DEF FilesApart
  <1>9. \A i \in IssueIds : RowFiles(i)' \subseteq 1..uploads'
    BY DEF FilesApart
  <1> QED
    BY <1>5, <1>6, <1>7, <1>8, <1>9 DEF FilesApart

-----------------------------------------------------------------------------
(* Issues whose requests run one at a time: the requests *)

\* p's request becomes x, on the books of troubled.
Noted(p, x) ==
    /\ req' = [req EXCEPT ![p] = x]
    /\ troubled \subseteq troubled'
    /\ x.id \in IssueIds \ troubled' => \A q \in Procs \ {p} : req[q].id # x.id

LEMMA GotoNoted ==
    ASSUME NEW p \in Procs, NEW x, Goto(p, x)
    PROVE  Noted(p, x)
  BY DEF Goto, Noted, InUse

LEMMA TroubleNoted ==
    ASSUME NEW p \in Procs, NEW x, Trouble(p, x), x.id \in {0, req[p].id}
    PROVE  Noted(p, x) /\ (req[p].id \in IssueIds => req[p].id \in troubled')
  BY DEF Trouble, Noted, IssueIds

LockSteps == {"fileExists", "fileUnlink", "commit"}

\* A step of one request, in general.  Files it removes were in its hands;
\* rows that change are its own issue or new.
LEMMA CalmSlotStep ==
    ASSUME PublishInv, PublishInv', CalmInv, NEW p \in Procs, NEW x, Noted(p, x),
           NEW id, req[p].id = id, inserted <= inserted',
           \A f \in disk \ disk' : f \in Carried(req[p]),
           \A i \in IssueIds : i # id /\ Exists(i) => issues'[i] = issues[i],
           \A i \in IssueIds : i # id /\ ~Exists(i) /\ Exists(i)' =>
              i > inserted /\ (issues'[i].file # Null => issues'[i].file \in disk'),
           FilesApart', WellBegun(x)',
           x.id \in IssueIds \ troubled' => UpToDate(x)',
           id \in IssueIds \ troubled' =>
              (/\ Exists(id)' /\ issues'[id].file # Null /\ ~Locked(id)'
               => issues'[id].file \in disk')
    PROVE  CalmInv'
  <1>1. TypeOK /\ TypeOK' /\ Numbered /\ FilesApart
    BY DEF PublishInv, CalmInv
  <1>2. \A q \in Procs : req'[q] = IF q = p THEN x ELSE req[q]
    BY <1>1 DEF Noted, TypeOK
  <1>3. inserted \in Nat /\ inserted' \in Nat /\ \A q \in Procs : req[q].id \in Nat
    BY <1>1, BoundsAssumption DEF TypeOK, Request, Idle, IssueIds
  <1>4. 0 \notin IssueIds
    BY DEF IssueIds
  <1>5. ASSUME NEW q \in Procs, q # p PROVE WellBegun(req[q])'
    <2>1. WellBegun(req[q]) /\ req'[q] = req[q]
      BY <1>2, <1>5 DEF CalmInv
    <2>2. req[q].id <= inserted'
      BY <1>3, <2>1 DEF WellBegun
    <2>3. ASSUME req[q].pc = "insert", req[q].row.file # Null PROVE req[q].row.file \in disk'
      <3>1. req[q].row.file \in disk /\ req[q].row.file \in Carried(req[q]) /\ req[q].id = 0
        BY <1>1, <2>1, <2>3, CarriedBy, RequestTypes DEF WellBegun, Creating
      <3>2. req[q].row.file \notin Carried(req[p])
        BY <1>1, <1>5, <3>1, CarriedFiles DEF FilesApart
      <3> QED
        BY <3>1, <3>2
    <2> QED
      BY <2>1, <2>2, <2>3 DEF WellBegun
  <1>6. WellBegun(req[p])'
    BY <1>2 DEF WellBegun
  <1>7. ASSUME NEW q1 \in Procs, NEW q2 \in Procs,
               req'[q1].id \in IssueIds \ troubled', req'[q2].id = req'[q1].id
        PROVE  q1 = q2
    BY <1>2, <1>7 DEF CalmInv, Noted
  <1>8. ASSUME NEW q \in Procs, q # p, req[q].id \in IssueIds \ troubled'
        PROVE  UpToDate(req[q])'
    <2>1. req'[q] = req[q] /\ req[q].id \in IssueIds \ troubled
      BY <1>2, <1>8 DEF Noted
    <2>2. UpToDate(req[q]) /\ req[p].id # req[q].id
      BY <1>8, <2>1 DEF CalmInv
    <2>i. PICK i : i = req[q].id
      OBVIOUS
    <2>3. Exists(i) <=> Exists(i)'
      <3>1. Exists(i) => issues'[i] = issues[i]
        BY <2>1, <2>2, <2>i
      <3>2. ~Exists(i) /\ Exists(i)' => i > inserted
        BY <2>1, <2>2, <2>i
      <3>3. i <= inserted /\ i \in Nat
        BY <1>3, <2>i DEF CalmInv, WellBegun
      <3> QED
        BY <1>3, <3>1, <3>2, <3>3 DEF Exists
    <2>4. issues'[i] = issues[i]
      BY <2>1, <2>2, <2>3, <2>i DEF Exists
    <2>5. ASSUME req[q].pc = "write", req[q].patch.file # Null, req[q].patch.file \in disk
          PROVE  req[q].patch.file \in disk'
      <3>1. req[q].patch.file \in Carried(req[q])
        BY <2>5, CarriedBy DEF UpdateSteps
      <3>2. req[q].patch.file \notin Carried(req[p])
        BY <1>1, <1>8, <2>2, <3>1, CarriedFiles DEF FilesApart
      <3> QED
        BY <2>5, <3>2
    <2> QED
      BY <2>1, <2>2, <2>3, <2>4, <2>5, <2>i DEF UpToDate, Exists
  <1>9. x.id \in IssueIds \ troubled' => UpToDate(req[p])'
    BY <1>2 DEF UpToDate, Exists
  <1>10. ASSUME NEW i \in IssueIds \ troubled', Exists(i)', issues'[i].file # Null, ~Locked(i)'
         PROVE  issues'[i].file \in disk'
    <2>1. i \in IssueIds \ troubled
      BY DEF Noted
    <2>2. CASE i = id
      BY <1>10, <2>2
    <2>3. CASE i # id /\ ~Exists(i)
      BY <1>10, <2>3
    <2>4. CASE i # id /\ Exists(i)
      <3>1. issues'[i] = issues[i]
        BY <2>4
      <3>2. ~Locked(i)
        BY <1>2, <1>10, <2>4 DEF Locked
      <3>3. issues[i].file \in disk
        BY <1>10, <2>1, <2>4, <3>1, <3>2 DEF CalmInv, ReferencedFileExists, Calm
      <3>4. issues[i].file \in RowFiles(i)
        BY <1>10, <2>4, <3>1 DEF RowFiles
      <3>5. issues[i].file \notin Carried(req[p])
        BY <1>1, <2>4, <3>4, CarriedFiles DEF FilesApart
      <3> QED
        BY <3>1, <3>3, <3>5
    <2> QED
      BY <2>2, <2>3, <2>4
  <1>11. ReferencedFileExists'
    BY <1>10 DEF ReferencedFileExists, Calm
  <1> QED
    BY <1>2, <1>5, <1>6, <1>7, <1>8, <1>9, <1>11 DEF CalmInv, WellBegun, UpToDate, Exists

\* A step of one request that writes no row.
LEMMA NoRowStep ==
    ASSUME PublishInv, PublishInv', CalmInv, NEW p \in Procs, NEW x, Noted(p, x),
           UNCHANGED <<issues, inserted>>, uploads <= uploads',
           \A f \in disk \ disk' : f \in Carried(req[p]),
           \A f \in Carried(x) :
              \/ f \in uploads + 1 .. uploads'
              \/ f \in Carried(req[p]) /\ x.id = req[p].id
              \/ x.id \in IssueIds /\ f \in RowFiles(x.id),
           WellBegun(x)',
           x.id \in IssueIds \ troubled' => UpToDate(x)',
           req[p].id \in IssueIds \ troubled' =>
              \/ x.pc \in LockSteps /\ x.id = req[p].id
              \/ /\ req[p].pc \notin LockSteps
                 /\ \A f \in disk \ disk' : f \notin RowFiles(req[p].id)
    PROVE  CalmInv'
  <1>1. TypeOK /\ TypeOK' /\ FilesApart /\ ReferencedFileExists
    BY DEF PublishInv, CalmInv
  <1>2. uploads \in Nat /\ uploads' \in Nat /\ inserted \in Nat
    BY <1>1, BoundsAssumption DEF TypeOK
  <1>3. FilesApart'
    BY <1>1, <1>2, ApartStep DEF Noted
  <1>4. PICK id : id = req[p].id
    OBVIOUS
  <1>5. ASSUME id \in IssueIds \ troubled', Exists(id)', issues'[id].file # Null, ~Locked(id)'
        PROVE  issues'[id].file \in disk'
    <2>1. ~(x.pc \in LockSteps /\ x.id = id)
      BY <1>1, <1>5 DEF Locked, LockSteps, Noted, TypeOK
    <2>2. req[p].pc \notin LockSteps /\ \A f \in disk \ disk' : f \notin RowFiles(id)
      BY <1>4, <1>5, <2>1
    <2>3. ~Locked(id)
      <3>1. ASSUME NEW q \in Procs, req[q].id = id PROVE q = p
        BY <1>4, <1>5, <3>1 DEF CalmInv, Noted
      <3> QED
        BY <2>2, <3>1 DEF Locked, LockSteps
    <2>4. Exists(id) /\ issues[id] = issues'[id]
      BY <1>5 DEF Exists
    <2>5. issues[id].file \in disk
      BY <1>1, <1>5, <2>3, <2>4 DEF ReferencedFileExists, Calm, Noted
    <2>6. issues[id].file \in RowFiles(id)
      BY <1>5, <2>4 DEF RowFiles
    <2> QED
      BY <2>2, <2>4, <2>5, <2>6
  <1>6. \A i \in IssueIds : Exists(i)' <=> Exists(i)
    BY DEF Exists
  <1> QED
    BY <1>2, <1>3, <1>4, <1>5, <1>6, CalmSlotStep

\* A request without an issue of its own, or whose issue has seen trouble.
LEMMA EndStep ==
    ASSUME PublishInv, PublishInv', CalmInv, NEW p \in Procs, Noted(p, Idle),
           UNCHANGED <<issues, inserted, uploads>>,
           \A f \in disk \ disk' : f \in Carried(req[p]),
           req[p].id \in IssueIds \ troubled' =>
              /\ req[p].pc \notin LockSteps
              /\ \A f \in disk \ disk' : f \notin RowFiles(req[p].id)
    PROVE  CalmInv'
  <1>1. Idle.pc = "idle" /\ Idle.id = 0 /\ Carried(Idle) = {} /\ 0 \notin IssueIds
    BY CarriedBy DEF Idle, IssueIds
  <1>2. inserted \in Nat /\ inserted' \in Nat /\ uploads \in Nat
    BY BoundsAssumption DEF PublishInv, TypeOK
  <1>3. WellBegun(Idle)'
    BY <1>1, <1>2 DEF WellBegun
  <1>x. PICK x : x = Idle
    OBVIOUS
  <1>4. /\ Noted(p, x) /\ x.id \notin IssueIds /\ Carried(x) = {} /\ WellBegun(x)'
        /\ uploads <= uploads'
    BY <1>1, <1>2, <1>3, <1>x
  <1> QED
    BY <1>4, NoRowStep

-----------------------------------------------------------------------------

LEMMA CreateCalm ==
    ASSUME PublishInv, PublishInv', CalmInv, NEW p \in Procs, Create(p) PROVE CalmInv'
  <1>1. PICK number \in Numbers, status \in Status, file \in Attached :
          /\ Goto(p, [pc |-> IF file = Null THEN "insert" ELSE "createMove", id |-> 0,
                      row |-> [number |-> number, file |-> file, status |-> status]])
          /\ Upload(file)
    BY DEF Create
  <1>r. PICK row : row = [number |-> number, file |-> file, status |-> status]
    OBVIOUS
  <1>x. PICK x : x = [pc |-> IF file = Null THEN "insert" ELSE "createMove", id |-> 0, row |-> row]
    OBVIOUS
  <1>2. /\ x.pc = (IF file = Null THEN "insert" ELSE "createMove") /\ x.id = 0 /\ x.row.file = file
        /\ 0 \notin IssueIds
    BY <1>r, <1>x DEF IssueIds
  <1>3. Noted(p, x)
    BY <1>1, <1>r, <1>x, GotoNoted
  <1>4. /\ UNCHANGED <<issues, inserted, disk>> /\ req[p].id = 0
        /\ inserted \in Nat /\ uploads \in Nat
    BY BoundsAssumption DEF Create, Idle, PublishInv, TypeOK
  <1>5. WellBegun(x)'
    BY <1>2, <1>4 DEF WellBegun
  <1>6. Carried(x) = {file} \ {Null}
    BY <1>2, CarriedBy
  <1>7. uploads <= uploads' /\ (file # Null => file \in uploads + 1 .. uploads')
    BY <1>1, <1>4 DEF Attached, Upload
  <1> QED
    BY <1>2, <1>3, <1>4, <1>5, <1>6, <1>7, NoRowStep

LEMMA CreateMoveCalm ==
    ASSUME PublishInv, PublishInv', CalmInv, NEW p \in Procs, CreateMove(p) PROVE CalmInv'
  <1>r. PICK r : r = req[p]
    OBVIOUS
  <1>1. r \in Creating /\ r.pc = "createMove" /\ r.id = 0 /\ 0 \notin IssueIds
    BY <1>r, RequestTypes DEF CreateMove, PublishInv, Creating, IssueIds
  <1>2. /\ UNCHANGED <<issues, inserted, uploads>> /\ disk' = disk \cup {r.row.file}
        /\ inserted \in Nat /\ uploads \in Nat
    BY <1>r, BoundsAssumption DEF CreateMove, PublishInv, TypeOK
  <1>3. CASE Goto(p, Idle)
    BY <1>1, <1>2, <1>3, <1>r, GotoNoted, EndStep
  <1>4. CASE Goto(p, [r EXCEPT !.pc = "insert"])
    <2>x. PICK x : x = [r EXCEPT !.pc = "insert"]
      OBVIOUS
    <2>1. x.pc = "insert" /\ x.id = 0 /\ x.row = r.row
      BY <1>1, <2>x DEF Creating
    <2>2. Noted(p, x)
      BY <1>4, <2>x, GotoNoted
    <2>3. WellBegun(x)'
      BY <1>2, <2>1 DEF WellBegun
    <2>4. Carried(x) = Carried(r)
      BY <1>1, <2>1, CarriedBy
    <2> QED
      BY <1>1, <1>2, <1>r, <2>1, <2>2, <2>3, <2>4, NoRowStep
  <1> QED
    BY <1>3, <1>4, <1>r DEF CreateMove

LEMMA CleanUpCalm ==
    ASSUME PublishInv, PublishInv', CalmInv, NEW p \in Procs, CleanUp(p) PROVE CalmInv'
  <1>r. PICK r : r = req[p]
    OBVIOUS
  <1>1. r \in CleaningUp /\ r.pc = "cleanUp" /\ r.file # Null
    BY <1>r, RequestTypes, NullIsNoFile DEF CleanUp, PublishInv, CleaningUp
  <1>2. UNCHANGED <<issues, inserted, uploads>>
    BY DEF CleanUp
  <1>3. CASE Goto(p, Idle) /\ disk' = disk \ {r.file}
    <2>1. Noted(p, Idle)
      BY <1>3, GotoNoted
    <2>2. \A f \in disk \ disk' : f = r.file /\ f \in Carried(r)
      BY <1>1, <1>3, CarriedBy
    <2>3. ASSUME r.id \in IssueIds \ troubled' PROVE r.file \notin RowFiles(r.id)
      <3>1. UpToDate(r)
        BY <1>r, <2>1, <2>3 DEF CalmInv, Noted
      <3> QED
        BY <1>1, <3>1 DEF UpToDate, RowFiles
    <2> QED
      BY <1>1, <1>2, <1>r, <2>1, <2>2, <2>3, EndStep DEF LockSteps
  <1>4. CASE Trouble(p, Idle) /\ disk' = disk
    <2>1. Noted(p, Idle) /\ (r.id \in IssueIds => r.id \in troubled')
      BY <1>4, <1>r, TroubleNoted DEF Idle
    <2> QED
      BY <1>2, <1>4, <1>r, <2>1, EndStep
  <1> QED
    BY <1>3, <1>4, <1>r DEF CleanUp

-----------------------------------------------------------------------------

LEMMA UpdateCalm ==
    ASSUME PublishInv, PublishInv', CalmInv, NEW p \in Procs, Update(p) PROVE CalmInv'
  <1>1. PICK i \in IssueIds, patch \in [number : Numbers \cup {Null}, file : Attached,
                                        status : Status \cup {Null}] :
          /\ Exists(i)
          /\ Goto(p, [pc |-> "number", id |-> i, old |-> issues[i], patch |-> patch])
          /\ Upload(patch.file)
    BY DEF Update
  <1>x. PICK x : x = [pc |-> "number", id |-> i, old |-> issues[i], patch |-> patch]
    OBVIOUS
  <1>2. /\ x.pc = "number" /\ x.id = i /\ x.old = issues[i] /\ x.patch = patch
    BY <1>x
  <1>3. Noted(p, x)
    BY <1>1, <1>x, GotoNoted
  <1>4. /\ UNCHANGED <<issues, inserted, disk>> /\ req[p].id \notin IssueIds
        /\ inserted \in Nat /\ uploads \in Nat /\ i <= inserted
    BY <1>1, BoundsAssumption DEF Update, Idle, IssueIds, PublishInv, TypeOK, Numbered
  <1>5. uploads <= uploads' /\ (patch.file # Null => patch.file \in uploads + 1 .. uploads')
    BY <1>1, <1>4 DEF Attached, Upload
  <1>6. issues[i].file # Null => issues[i].file \in RowFiles(i) /\ issues[i].file \in 1..uploads
    BY <1>1 DEF RowFiles, CalmInv, FilesApart
  <1>7. WellBegun(x)'
    <2>1. patch.file # Null => patch.file # issues[i].file
      BY <1>4, <1>5, <1>6
    <2> QED
      BY <1>2, <1>4, <2>1 DEF WellBegun
  <1>8. UpToDate(x)'
    BY <1>2, <1>4 DEF UpToDate
  <1>9. Carried(x) = {issues[i].file, patch.file} \ {Null}
    BY <1>2, CarriedBy DEF UpdateSteps
  <1>10. \A f \in Carried(x) : f \in uploads + 1 .. uploads' \/ f \in RowFiles(i)
    BY <1>5, <1>6, <1>9
  <1> QED
    BY <1>2, <1>3, <1>4, <1>5, <1>7, <1>8, <1>10, NoRowStep

\* An update goes on: only what it learns on the way is new.
LEMMA UpdateOnCalm ==
    ASSUME PublishInv, PublishInv', CalmInv, NEW p \in Procs, req[p].pc \in UpdateSteps,
           NEW c \in UpdateSteps, Goto(p, [req[p] EXCEPT !.pc = c]),
           UNCHANGED <<issues, inserted, uploads>>, disk \subseteq disk',
           \/ /\ c \in {"updateMove", "write"} /\ req[p].pc \in {"number", "updateMove"}
              /\ c = "write" /\ req[p].patch.file # Null
                   /\ ~IsArchiving(req[p].old, req[p].patch) => req[p].patch.file \in disk'
           \/ c = "oldUnlink" /\ req[p].pc = "oldExists"
    PROVE  CalmInv'
  <1>r. PICK r : r = req[p]
    OBVIOUS
  <1>x. PICK x : x = [r EXCEPT !.pc = c]
    OBVIOUS
  <1>1. r \in Updating
    BY <1>r, RequestTypes DEF PublishInv
  <1>2. x.pc = c /\ x.id = r.id /\ x.old = r.old /\ x.patch = r.patch
    BY <1>1, <1>x, UpdateGoesOn
  <1>3. Noted(p, x) /\ WellBegun(r) /\ inserted \in Nat /\ uploads \in Nat
    BY <1>r, <1>x, GotoNoted, BoundsAssumption DEF CalmInv, PublishInv, TypeOK
  <1>4. Carried(x) = Carried(r)
    BY <1>2, <1>r, CarriedBy
  <1>5. WellBegun(x)'
    BY <1>2, <1>3, <1>r DEF WellBegun, UpdateSteps
  <1>6. ASSUME r.id \in IssueIds \ troubled' PROVE UpToDate(x)'
    <2>1. UpToDate(r)
      BY <1>3, <1>6, <1>r DEF CalmInv, Noted
    <2> QED
      BY <1>2, <1>r, <2>1 DEF UpToDate, Exists, UpdateSteps
  <1>7. r.pc \notin LockSteps
    BY <1>r DEF LockSteps, UpdateSteps
  <1> QED
    BY <1>2, <1>3, <1>4, <1>5, <1>6, <1>7, <1>r, NoRowStep

LEMMA UpdateNumberCalm ==
    ASSUME PublishInv, PublishInv', CalmInv, NEW p \in Procs, UpdateNumber(p) PROVE CalmInv'
  <1> DEFINE r == req[p]
             move == r.patch.file # Null /\ ~IsArchiving(r.old, r.patch)
             c == IF move THEN "updateMove" ELSE "write"
  <1>1. r.pc = "number" /\ UNCHANGED <<issues, inserted, uploads, disk>>
    BY DEF UpdateNumber
  <1>2. Goto(p, Idle) \/ Goto(p, [r EXCEPT !.pc = c])
    BY DEF UpdateNumber
  <1>3. c \in {"updateMove", "write"} /\ (c = "write" => ~move)
    OBVIOUS
  <1>4. CASE Goto(p, Idle)
    BY <1>1, <1>4, GotoNoted, EndStep DEF LockSteps
  <1> HIDE DEF c
  <1>5. CASE Goto(p, [r EXCEPT !.pc = c])
    BY <1>1, <1>3, <1>5, UpdateOnCalm DEF UpdateSteps
  <1> QED
    BY <1>2, <1>4, <1>5

LEMMA UpdateMoveCalm ==
    ASSUME PublishInv, PublishInv', CalmInv, NEW p \in Procs, UpdateMove(p) PROVE CalmInv'
  BY UpdateOnCalm DEF UpdateMove, UpdateSteps

LEMMA OldExistsCalm ==
    ASSUME PublishInv, PublishInv', CalmInv, NEW p \in Procs, OldExists(p) PROVE CalmInv'
  <1>1. req[p].pc = "oldExists" /\ UNCHANGED <<issues, inserted, uploads, disk>>
    BY DEF OldExists
  <1>2. CASE Goto(p, Idle)
    BY <1>1, <1>2, GotoNoted, EndStep DEF LockSteps
  <1>3. CASE Goto(p, [req[p] EXCEPT !.pc = "oldUnlink"])
    BY <1>1, <1>3, UpdateOnCalm DEF UpdateSteps
  <1> QED
    BY <1>2, <1>3 DEF OldExists

\* A request that ends by cleaning up carries nothing else any more.
LEMMA CleanUpStep ==
    ASSUME PublishInv, PublishInv', CalmInv, NEW p \in Procs, NEW file \in Files \cup {Null},
           Noted(p, CleanUpOf(req[p].id, file)), file # Null => file \in Carried(req[p]),
           UNCHANGED <<issues, inserted, uploads, disk>>,
           req[p].id \in IssueIds \ troubled' =>
              /\ req[p].pc \notin LockSteps
              /\ Exists(req[p].id) => issues[req[p].id].file # file
    PROVE  CalmInv'
  <1>1. CASE file = Null
    BY <1>1, EndStep DEF CleanUpOf
  <1>2. CASE file # Null
    <2>r. PICK r : r = req[p]
      OBVIOUS
    <2>x. PICK x : x = [pc |-> "cleanUp", id |-> r.id, file |-> file]
      OBVIOUS
    <2>1. Noted(p, x) /\ x.pc = "cleanUp" /\ x.id = r.id /\ x.file = file
      BY <1>2, <2>r, <2>x DEF CleanUpOf
    <2>2. WellBegun(r) /\ inserted \in Nat /\ uploads \in Nat
      BY <2>r, BoundsAssumption DEF CalmInv, PublishInv, TypeOK
    <2>3. WellBegun(x)'
      BY <2>1, <2>2 DEF WellBegun
    <2>4. r.id \in IssueIds \ troubled' => UpToDate(x)'
      BY <2>1, <2>r DEF UpToDate, Exists
    <2>5. Carried(x) = {file}
      BY <1>2, <2>1, CarriedBy
    <2> QED
      BY <1>2, <2>1, <2>2, <2>3, <2>4, <2>5, <2>r, NoRowStep
  <1> QED
    BY <1>1, <1>2

LEMMA OldUnlinkCalm ==
    ASSUME PublishInv, PublishInv', CalmInv, NEW p \in Procs, OldUnlink(p) PROVE CalmInv'
  <1>r. PICK r : r = req[p]
    OBVIOUS
  <1>1. /\ r \in Updating /\ r.pc = "oldUnlink" /\ UNCHANGED <<issues, inserted, uploads>>
        /\ r.patch.file \in Files \cup {Null} /\ WellBegun(r)
    BY <1>r, RequestTypes DEF OldUnlink, PublishInv, UpdateSteps, Updating, Patch, CalmInv
  <1>2. Carried(r) = {r.old.file, r.patch.file} \ {Null}
    BY <1>1, CarriedBy DEF UpdateSteps
  <1>3. CASE r.old.file \in disk /\ disk' = disk \ {r.old.file} /\ Goto(p, Idle)
    <2>1. Noted(p, Idle)
      BY <1>3, GotoNoted
    <2>2. Null \notin disk
      <3>1. disk \subseteq Nat
        BY DEF PublishInv, TypeOK
      <3> QED
        BY <3>1, NullAssumption
    <2>3. \A f \in disk \ disk' : f = r.old.file /\ f \in Carried(r)
      BY <1>2, <1>3, <2>2
    <2>4. ASSUME r.id \in IssueIds \ troubled' PROVE r.old.file \notin RowFiles(r.id)
      <3>1. UpToDate(r)
        BY <1>r, <2>1, <2>4 DEF CalmInv, Noted
      <3>2. RowFiles(r.id) = {r.patch.file} \ {Null}
        BY <1>1, <3>1 DEF UpToDate, RowFiles
      <3> QED
        BY <1>1, <3>2 DEF WellBegun
    <2> QED
      BY <1>1, <1>r, <2>1, <2>3, <2>4, EndStep DEF LockSteps
  <1>4. CASE Trouble(p, CleanUpOf(r.id, r.patch.file)) /\ UNCHANGED disk
    <2>1. CleanUpOf(r.id, r.patch.file).id \in {0, r.id}
      BY DEF CleanUpOf, Idle
    <2>x. PICK x : x = CleanUpOf(r.id, r.patch.file)
      OBVIOUS
    <2>2. Noted(p, x) /\ (r.id \in IssueIds => r.id \in troubled')
      BY <1>4, <1>r, <2>1, <2>x, TroubleNoted
    <2>3. r.patch.file # Null => r.patch.file \in Carried(r)
      BY <1>2
    <2>4. Noted(p, CleanUpOf(req[p].id, r.patch.file))
      BY <1>r, <2>2, <2>x
    <2> QED
      BY <1>1, <1>4, <1>r, <2>2, <2>3, <2>4, CleanUpStep
  <1> QED
    BY <1>3, <1>4, <1>r DEF OldUnlink

-----------------------------------------------------------------------------

LEMMA DeleteCalm ==
    ASSUME PublishInv, PublishInv', CalmInv, NEW p \in Procs, Delete(p) PROVE CalmInv'
  <1>1. PICK i \in IssueIds :
          /\ Exists(i) /\ issues[i].status = "Draft"
          /\ Goto(p, [pc |-> "count", id |-> i, old |-> issues[i]])
    BY DEF Delete
  <1>x. PICK x : x = [pc |-> "count", id |-> i, old |-> issues[i]]
    OBVIOUS
  <1>2. x.pc = "count" /\ x.id = i /\ x.old = issues[i] /\ Noted(p, x)
    BY <1>1, <1>x, GotoNoted
  <1>3. /\ UNCHANGED <<issues, inserted, disk, uploads>> /\ req[p].id \notin IssueIds
        /\ uploads \in Nat /\ i <= inserted
    BY <1>1, BoundsAssumption DEF Delete, Idle, IssueIds, PublishInv, TypeOK, Numbered
  <1>4. WellBegun(x)' /\ UpToDate(x)'
    BY <1>1, <1>2, <1>3 DEF WellBegun, UpToDate
  <1>5. \A f \in Carried(x) : f \in RowFiles(i)
    BY <1>1, <1>2, CarriedBy DEF DeleteSteps, RowFiles
  <1> QED
    BY <1>2, <1>3, <1>4, <1>5, NoRowStep

\* A deletion goes on.
LEMMA DeleteOnCalm ==
    ASSUME PublishInv, PublishInv', CalmInv, NEW p \in Procs, req[p].pc \in DeleteSteps,
           NEW c \in DeleteSteps, Goto(p, [req[p] EXCEPT !.pc = c]),
           UNCHANGED <<issues, inserted, uploads>>,
           \A f \in disk \ disk' : f \in Carried(req[p]),
           \/ c \in LockSteps
           \/ req[p].pc \notin LockSteps /\ disk' = disk
    PROVE  CalmInv'
  <1>r. PICK r : r = req[p]
    OBVIOUS
  <1>x. PICK x : x = [r EXCEPT !.pc = c]
    OBVIOUS
  <1>1. r \in Deleting
    BY <1>r, RequestTypes DEF PublishInv
  <1>2. x.pc = c /\ x.id = r.id /\ x.old = r.old
    BY <1>1, <1>x, DeleteGoesOn DEF Deleting
  <1>3. Noted(p, x) /\ WellBegun(r) /\ inserted \in Nat /\ uploads \in Nat
    BY <1>r, <1>x, GotoNoted, BoundsAssumption DEF CalmInv, PublishInv, TypeOK
  <1>4. Carried(x) = Carried(r)
    BY <1>2, <1>r, CarriedBy
  <1>5. WellBegun(x)'
    BY <1>2, <1>3, <1>r DEF WellBegun, DeleteSteps
  <1>6. ASSUME r.id \in IssueIds \ troubled' PROVE UpToDate(x)'
    <2>1. UpToDate(r)
      BY <1>3, <1>6, <1>r DEF CalmInv, Noted
    <2> QED
      BY <1>2, <1>r, <2>1 DEF UpToDate, DeleteSteps
  <1> QED
    BY <1>2, <1>3, <1>4, <1>5, <1>6, <1>r, NoRowStep

LEMMA DeleteCountCalm ==
    ASSUME PublishInv, PublishInv', CalmInv, NEW p \in Procs, DeleteCount(p) PROVE CalmInv'
  <1>1. req[p].pc = "count" /\ UNCHANGED <<issues, inserted, uploads, disk>>
    BY DEF DeleteCount
  <1>2. CASE Goto(p, Idle)
    BY <1>1, <1>2, GotoNoted, EndStep DEF LockSteps
  <1>3. CASE Goto(p, [req[p] EXCEPT !.pc = "deleteRow"])
    BY <1>1, <1>3, DeleteOnCalm DEF DeleteSteps, LockSteps
  <1> QED
    BY <1>2, <1>3 DEF DeleteCount

LEMMA DeleteRowCalm ==
    ASSUME PublishInv, PublishInv', CalmInv, NEW p \in Procs, DeleteRow(p) PROVE CalmInv'
  <1> DEFINE c == IF req[p].old.file = Null THEN "commit" ELSE "fileExists"
  <1>1. req[p].pc = "deleteRow" /\ UNCHANGED <<issues, inserted, uploads, disk>>
    BY DEF DeleteRow
  <1>2. CASE Goto(p, Idle)
    BY <1>1, <1>2, GotoNoted, EndStep DEF LockSteps
  <1>3. CASE Goto(p, [req[p] EXCEPT !.pc = c])
    <2>1. c \in DeleteSteps /\ c \in LockSteps
      BY DEF DeleteSteps, LockSteps
    <2> HIDE DEF c
    <2> QED
      BY <1>1, <1>3, <2>1, DeleteOnCalm DEF DeleteSteps
  <1> QED
    BY <1>2, <1>3 DEF DeleteRow

LEMMA FileExistsCalm ==
    ASSUME PublishInv, PublishInv', CalmInv, NEW p \in Procs, FileExists(p) PROVE CalmInv'
  <1> DEFINE c == IF req[p].old.file \in disk THEN "fileUnlink" ELSE "commit"
  <1>1. req[p].pc = "fileExists" /\ UNCHANGED <<issues, inserted, uploads, disk>>
    BY DEF FileExists
  <1>2. c \in DeleteSteps /\ c \in LockSteps
    BY DEF DeleteSteps, LockSteps
  <1>3. Goto(p, [req[p] EXCEPT !.pc = c])
    BY DEF FileExists
  <1> HIDE DEF c
  <1> QED
    BY <1>1, <1>2, <1>3, DeleteOnCalm DEF DeleteSteps

\* A lost request.
LEMMA TroubleCalm ==
    ASSUME PublishInv, PublishInv', CalmInv, NEW p \in Procs, Trouble(p, Idle),
           UNCHANGED <<issues, inserted, uploads, disk>>
    PROVE  CalmInv'
  <1>1. Noted(p, Idle) /\ (req[p].id \in IssueIds => req[p].id \in troubled')
    BY TroubleNoted DEF Idle
  <1> QED
    BY <1>1, EndStep

LEMMA FileUnlinkCalm ==
    ASSUME PublishInv, PublishInv', CalmInv, NEW p \in Procs, FileUnlink(p) PROVE CalmInv'
  <1>1. req[p].pc = "fileUnlink" /\ UNCHANGED <<issues, inserted, uploads>>
    BY DEF FileUnlink
  <1>2. CASE Trouble(p, Idle) /\ UNCHANGED disk
    BY <1>1, <1>2, TroubleCalm
  <1>3. CASE disk' = disk \ {req[p].old.file} /\ Goto(p, [req[p] EXCEPT !.pc = "commit"])
    <2>1. Null \notin disk
      <3>1. disk \subseteq Nat
        BY DEF PublishInv, TypeOK
      <3> QED
        BY <3>1, NullAssumption
    <2>2. \A f \in disk \ disk' : f \in Carried(req[p])
      BY <1>1, <1>3, <2>1, CarriedBy DEF DeleteSteps
    <2> QED
      BY <1>1, <1>3, <2>2, DeleteOnCalm DEF DeleteSteps, LockSteps
  <1> QED
    BY <1>2, <1>3 DEF FileUnlink

-----------------------------------------------------------------------------
(* Issues whose requests run one at a time: the writes *)

\* The new row's file is in its place, and nobody knows the new id.
LEMMA InsertCalm ==
    ASSUME PublishInv, PublishInv', CalmInv, NEW p \in Procs, Insert(p) PROVE CalmInv'
  <1>r. PICK r : r = req[p]
    OBVIOUS
  <1>1. /\ TypeOK /\ FilesApart /\ Numbered /\ WellBegun(r)
        /\ r \in Creating /\ r.pc = "insert" /\ r.id = 0 /\ 0 \notin IssueIds
    BY <1>r, RequestTypes DEF Insert, PublishInv, CalmInv, Creating, IssueIds
  <1>2. /\ inserted \in Nat /\ UNCHANGED <<disk, uploads>>
        /\ r.row \in Row /\ r.row.file \in Files \cup {Null}
    BY <1>1, BoundsAssumption DEF Insert, TypeOK, Creating, Row
  <1>3. Carried(r) = {r.row.file} \ {Null}
    BY <1>1, CarriedBy
  <1>4. CASE /\ inserted < MaxIssues /\ inserted' = inserted + 1
             /\ issues' = [issues EXCEPT ![inserted'] = r.row] /\ Goto(p, Idle)
    <2>n. PICK n : n = inserted + 1
      OBVIOUS
    <2>1. n \in IssueIds /\ inserted' = n /\ ~Exists(n)
      BY <1>1, <1>2, <1>4, <2>n, BoundsAssumption DEF IssueIds, Numbered
    <2>2. /\ issues'[n] = r.row /\ r.row # Null
          /\ \A i \in IssueIds \ {n} : issues'[i] = issues[i]
      BY <1>1, <1>2, <1>4, <2>1, NullAssumption DEF TypeOK
    <2>3. /\ \A i \in IssueIds \ {n} : RowFiles(i)' = RowFiles(i)
          /\ RowFiles(n)' \subseteq Carried(r)
      BY <1>3, <2>2 DEF RowFiles, Exists
    <2>x. PICK x : x = Idle
      OBVIOUS
    <2>4. x.pc = "idle" /\ x.id = 0 /\ Carried(x) = {}
      BY <2>x, CarriedBy DEF Idle
    <2>5. Noted(p, x)
      BY <1>4, <2>x, GotoNoted
    <2>6. FilesApart'
      BY <1>1, <1>2, <1>r, <2>1, <2>3, <2>4, <2>5, ApartWrite DEF Noted
    <2>7. WellBegun(x)'
      BY <1>2, <2>1, <2>4, <2>n DEF WellBegun
    <2>8. \A i \in IssueIds : Exists(i) => issues'[i] = issues[i]
      BY <2>1, <2>2 DEF Exists
    <2>9. \A i \in IssueIds : ~Exists(i) /\ Exists(i)' =>
             i > inserted /\ (issues'[i].file # Null => issues'[i].file \in disk')
      <3>1. ASSUME NEW i \in IssueIds, ~Exists(i), Exists(i)' PROVE i = n
        BY <2>2, <3>1 DEF Exists
      <3>2. n > inserted
        BY <1>2, <2>n
      <3>3. issues'[n].file # Null => issues'[n].file \in disk'
        BY <1>1, <1>2, <2>2 DEF WellBegun
      <3> QED
        BY <3>1, <3>2, <3>3
    <2>10. inserted <= inserted'
      BY <1>2, <2>1, <2>n
    <2> QED
      BY <1>1, <1>2, <1>r, <2>4, <2>5, <2>6, <2>7, <2>8, <2>9, <2>10, CalmSlotStep
  <1>5. CASE Goto(p, CleanUpOf(0, r.row.file)) /\ UNCHANGED <<issues, inserted>>
    <2>1. Noted(p, CleanUpOf(req[p].id, r.row.file))
      <3>x. PICK x : x = CleanUpOf(0, r.row.file)
        OBVIOUS
      <3>1. Noted(p, x)
        BY <1>5, <3>x, GotoNoted
      <3> QED
        BY <1>1, <1>r, <3>1, <3>x
    <2> QED
      BY <1>1, <1>2, <1>3, <1>5, <1>r, <2>1, CleanUpStep
  <1> QED
    BY <1>4, <1>5, <1>r DEF Insert

\* What an update of a row takes from the patch.
LEMMA PatchedFields ==
    ASSUME NEW row \in Row, NEW patch
    PROVE  /\ Patched(row, patch).file = IF patch.file = Null THEN row.file ELSE patch.file
           /\ (patch = [number |-> Null, file |-> Null, status |-> Null] => Patched(row, patch) = row)
  <1>1. DOMAIN row = {"number", "file", "status"}
    BY DEF Row
  <1>2. Patched(row, patch) = [f \in {"number", "file", "status"} |->
                                 IF patch[f] = Null THEN row[f] ELSE patch[f]]
    BY <1>1 DEF Patched
  <1>3. ASSUME patch = [number |-> Null, file |-> Null, status |-> Null]
        PROVE  Patched(row, patch) = row
    <2>1. \A f \in {"number", "file", "status"} : patch[f] = Null
      BY <1>3
    <2>2. row = [f \in {"number", "file", "status"} |-> row[f]]
      BY DEF Row
    <2> QED
      BY <1>2, <2>1, <2>2
  <1> QED
    BY <1>2, <1>3

\* A row that stays or is archived.
Unfrozen(row, new) ==
    \/ row.status = "Draft"
    \/ new = row
    \/ row.status = "Published" /\ new = [row EXCEPT !.status = "Archived"]

\* The row takes the file that is already in its place; a row that is no
\* draft is at most archived.
LEMMA UpdateWriteCalm ==
    ASSUME PublishInv, PublishInv', CalmInv, NEW p \in Procs, UpdateWrite(p)
    PROVE  CalmInv' /\ Frozen
  <1>r. PICK r : r = req[p]
    OBVIOUS
  <1>id. PICK id : id = r.id
    OBVIOUS
  <1>1. /\ TypeOK /\ FilesApart /\ WellBegun(r) /\ RequestSound(r) /\ ReferencedFileExists
        /\ r \in Updating /\ r.pc = "write" /\ id \in IssueIds
    BY <1>id, <1>r, RequestTypes DEF UpdateWrite, PublishInv, CalmInv, Updating, UpdateSteps
  <1>2. /\ UNCHANGED <<inserted, disk, uploads>> /\ ~Locked(id) /\ inserted \in Nat
        /\ r.old \in Row /\ r.patch \in Patch /\ Editable(r.old, r.patch)
        /\ r.patch.file \in Files \cup {Null}
    BY <1>1, <1>id, <1>r, BoundsAssumption DEF UpdateWrite, TypeOK, Updating, RequestSound, Patch
  <1>3. Carried(r) = {r.old.file, r.patch.file} \ {Null}
    BY <1>1, CarriedBy DEF UpdateSteps
  <1> DEFINE archive == IsArchiving(r.old, r.patch)
             newFile == IF archive THEN Null ELSE r.patch.file
             written == IF archive THEN [issues[id] EXCEPT !.status = "Archived"]
                        ELSE Patched(issues[id], r.patch)
  <1>4. \/ /\ Exists(id) /\ issues' = [issues EXCEPT ![id] = written]
           /\ Goto(p, IF newFile = Null \/ r.old.file = Null THEN Idle
                      ELSE [r EXCEPT !.pc = "oldExists"])
        \/ Goto(p, CleanUpOf(id, newFile)) /\ UNCHANGED issues
    BY <1>id, <1>r DEF UpdateWrite
  <1>5. newFile \in Files \cup {Null} /\ (newFile # Null => newFile \in Carried(r))
    BY <1>2, <1>3
  <1>6. ASSUME id \in IssueIds \ troubled PROVE UpToDate(r)
    BY <1>6, <1>id, <1>r DEF CalmInv
  <1>7. CASE /\ Exists(id) /\ issues' = [issues EXCEPT ![id] = written]
             /\ Goto(p, IF newFile = Null \/ r.old.file = Null THEN Idle
                        ELSE [r EXCEPT !.pc = "oldExists"])
    <2>w. PICK w : w = written
      OBVIOUS
    <2>1. issues[id] \in Row
      BY <1>1, <1>7 DEF TypeOK, Exists
    <2>2. /\ issues'[id] = w /\ \A i \in IssueIds \ {id} : issues'[i] = issues[i]
      BY <1>1, <1>7, <2>w DEF TypeOK
    <2>3. w.file = IF newFile = Null THEN issues[id].file ELSE newFile
      <3>1. CASE archive
        <4>1. w = [issues[id] EXCEPT !.status = "Archived"]
          BY <2>w, <3>1
        <4>2. w.file = issues[id].file
          BY <2>1, <4>1 DEF Row
        <4> QED
          BY <3>1, <4>2
      <3>2. CASE ~archive
        <4>1. w = Patched(issues[id], r.patch)
          BY <2>w, <3>2
        <4> QED
          BY <2>1, <3>2, <4>1, PatchedFields
      <3> QED
        BY <3>1, <3>2
    <2>x. PICK x : x = IF newFile = Null \/ r.old.file = Null THEN Idle
                       ELSE [r EXCEPT !.pc = "oldExists"]
      OBVIOUS
    <2>4. Noted(p, x)
      BY <1>7, <2>x, GotoNoted
    <2>5. \/ x = Idle
          \/ /\ x.pc = "oldExists" /\ x.id = id /\ x.old = r.old /\ x.patch = r.patch
             /\ newFile # Null
      BY <1>1, <1>id, <2>x, UpdateGoesOn DEF UpdateSteps
    <2>6. x = Idle => x.pc = "idle" /\ x.id = 0 /\ x.id \notin IssueIds
      BY DEF Idle, IssueIds
    <2>7. Carried(x) \subseteq Carried(r) /\ (Carried(x) # {} => x.id = id)
      BY <1>3, <2>5, <2>6, CarriedBy DEF UpdateSteps
    <2>8. /\ \A i \in IssueIds \ {id} : RowFiles(i)' = RowFiles(i)
          /\ RowFiles(id)' \subseteq RowFiles(id) \cup Carried(r)
      <3>1. \A i \in IssueIds \ {id} : RowFiles(i)' = RowFiles(i)
        BY <2>2 DEF RowFiles, Exists
      <3>2. RowFiles(id)' \subseteq {w.file} \ {Null}
        BY <2>2 DEF RowFiles, Exists
      <3>3. {issues[id].file} \ {Null} = RowFiles(id)
        BY <1>7 DEF RowFiles
      <3> QED
        BY <1>5, <2>3, <3>1, <3>2, <3>3
    <2>9. FilesApart'
      BY <1>1, <1>2, <1>id, <1>r, <2>4, <2>7, <2>8, ApartWrite DEF Noted
    <2>10. WellBegun(x)'
      <3>1. CASE x = Idle
        BY <1>2, <2>6, <3>1 DEF WellBegun
      <3>2. CASE x.pc = "oldExists" /\ x.id = id /\ x.old = r.old /\ x.patch = r.patch
        BY <1>1, <1>2, <1>id, <3>2 DEF WellBegun
      <3> QED
        BY <2>5, <3>1, <3>2
    <2>11. Exists(id)'
      <3>1. issues'[id] \in Row
        <4>1. issues'[id] \in Row \/ issues'[id] = issues[id]
          BY <1>1, <1>7, UpdateWritePreserves DEF Advances
        <4> QED
          BY <2>1, <4>1
      <3> QED
        BY <3>1, NullAssumption DEF Exists
    <2>12. x.id \in IssueIds \ troubled' => UpToDate(x)'
      <3>1. ASSUME x # Idle PROVE issues'[id].file = x.patch.file
        BY <2>2, <2>3, <2>5, <3>1
      <3> QED
        BY <2>5, <2>6, <2>11, <3>1 DEF UpToDate, Exists
    <2>13. ASSUME id \in IssueIds \ troubled', issues'[id].file # Null
           PROVE  issues'[id].file \in disk'
      <3>1. id \in IssueIds \ troubled
        BY <2>4, <2>13 DEF Noted
      <3>2. CASE newFile # Null
        <4>1. newFile \in disk
          BY <1>1, <1>6, <3>1, <3>2 DEF UpToDate
        <4> QED
          BY <1>2, <2>2, <2>3, <3>2, <4>1
      <3>3. CASE newFile = Null
        <4>1. issues'[id].file = issues[id].file
          BY <2>2, <2>3, <3>3
        <4>2. issues[id].file \in disk
          BY <1>1, <1>2, <1>7, <2>13, <3>1, <4>1 DEF ReferencedFileExists, Calm
        <4> QED
          BY <1>2, <4>1, <4>2
      <3> QED
        BY <3>2, <3>3
    <2>14. \A i \in IssueIds \ {id} : ~(~Exists(i) /\ Exists(i)')
      BY <2>2 DEF Exists
    <2>15. inserted <= inserted' /\ disk \ disk' = {}
      BY <1>2
    <2>16. CalmInv'
      BY <1>id, <1>r, <2>2, <2>4, <2>9, <2>10, <2>12, <2>13, <2>14, <2>15, CalmSlotStep
    <2>17. ASSUME id \notin troubled PROVE Unfrozen(issues[id], w)
      <3>1. issues[id] = r.old
        BY <1>1, <1>6, <1>id, <2>17 DEF UpToDate
      <3>2. CASE r.old.status = "Draft"
        BY <3>1, <3>2 DEF Unfrozen
      <3>3. CASE r.old.status = "Archived"
        BY <1>2, <3>3 DEF Editable
      <3>4. CASE r.old.status = "Published"
        <4>1. CASE archive
          <5>1. w = [issues[id] EXCEPT !.status = "Archived"]
            BY <2>w, <4>1
          <5> QED
            BY <3>1, <3>4, <5>1 DEF Unfrozen
        <4>2. CASE ~archive
          <5>1. r.patch = [number |-> Null, file |-> Null, status |-> Null]
            BY <1>2, <3>4, <4>2 DEF Editable, IsArchiving
          <5>2. w = Patched(issues[id], r.patch)
            BY <2>w, <4>2
          <5> QED
            BY <2>1, <5>1, <5>2, PatchedFields DEF Unfrozen
        <4> QED
          BY <4>1, <4>2
      <3>5. r.old.status \in Status
        BY <1>2 DEF Row
      <3> QED
        BY <3>2, <3>3, <3>4, <3>5 DEF Status
    <2>18. Frozen
      BY <2>2, <2>17 DEF Frozen, Calm, Unfrozen
    <2> QED
      BY <2>16, <2>18
  <1>8. CASE Goto(p, CleanUpOf(id, newFile)) /\ UNCHANGED issues
    <2>1. Noted(p, CleanUpOf(req[p].id, newFile))
      <3>x. PICK x : x = CleanUpOf(id, newFile)
        OBVIOUS
      <3>1. Noted(p, x)
        BY <1>8, <3>x, GotoNoted
      <3> QED
        BY <1>id, <1>r, <3>1, <3>x
    <2>2. ASSUME id \in IssueIds \ troubled' PROVE issues[id].file # newFile \/ newFile = Null
      <3>1. id \in IssueIds \ troubled
        BY <2>1, <2>2 DEF Noted
      <3>2. issues[id] = r.old
        BY <1>1, <1>6, <1>id, <3>1 DEF UpToDate
      <3> QED
        BY <1>1, <3>2 DEF WellBegun
    <2>f. PICK file : file = newFile
      OBVIOUS
    <2>3. CalmInv'
      <3>1. CASE file = Null
        <4>1. Noted(p, Idle)
          BY <2>1, <2>f, <3>1 DEF CleanUpOf
        <4> QED
          BY <1>1, <1>2, <1>8, <1>r, <4>1, EndStep DEF LockSteps
      <3>2. CASE file # Null
        <4>1. Noted(p, CleanUpOf(req[p].id, file))
          BY <2>1, <2>f
        <4>2. r.pc \notin LockSteps
          BY <1>1 DEF LockSteps
        <4>3. id \in IssueIds \ troubled' => issues[id].file # file
          BY <2>2, <2>f, <3>2
        <4>4. file \in Files \cup {Null} /\ file \in Carried(r)
          BY <1>5, <2>f, <3>2
        <4> QED
          BY <1>2, <1>8, <1>id, <1>r, <4>1, <4>2, <4>3, <4>4, CleanUpStep
      <3> QED
        BY <3>1, <3>2
    <2> QED
      BY <1>8, <2>3 DEF Frozen
  <1> QED
    BY <1>4, <1>7, <1>8

\* The row goes: it was a draft.
LEMMA CommitCalm ==
    ASSUME PublishInv, PublishInv', CalmInv, NEW p \in Procs, Commit(p)
    PROVE  CalmInv' /\ Frozen
  <1>r. PICK r : r = req[p]
    OBVIOUS
  <1>id. PICK id : id = r.id
    OBVIOUS
  <1>1. /\ TypeOK /\ FilesApart /\ WellBegun(r) /\ r \in Deleting /\ r.pc = "commit" /\ id \in IssueIds
    BY <1>id, <1>r, RequestTypes DEF Commit, PublishInv, CalmInv, Deleting, DeleteSteps
  <1>2. UNCHANGED <<inserted, disk, uploads>> /\ inserted \in Nat
    BY <1>1, BoundsAssumption DEF Commit, TypeOK
  <1>3. CASE issues' = [issues EXCEPT ![id] = Null] /\ Goto(p, Idle)
    <2>1. issues'[id] = Null /\ \A i \in IssueIds \ {id} : issues'[i] = issues[i]
      BY <1>1, <1>3 DEF TypeOK
    <2>x. PICK x : x = Idle
      OBVIOUS
    <2>2. x.pc = "idle" /\ x.id = 0 /\ Carried(x) = {} /\ 0 \notin IssueIds
      BY <2>x, CarriedBy DEF Idle, IssueIds
    <2>3. Noted(p, x)
      BY <1>3, <2>x, GotoNoted
    <2>4. \A i \in IssueIds \ {id} : RowFiles(i)' = RowFiles(i)
      BY <2>1 DEF RowFiles, Exists
    <2>5. RowFiles(id)' = {} /\ ~Exists(id)'
      BY <2>1 DEF RowFiles, Exists
    <2>6. FilesApart'
      BY <1>1, <1>2, <1>id, <1>r, <2>2, <2>3, <2>4, <2>5, ApartWrite DEF Noted
    <2>7. WellBegun(x)'
      BY <1>2, <2>2 DEF WellBegun
    <2>8. \A i \in IssueIds \ {id} : ~(~Exists(i) /\ Exists(i)')
      BY <2>1 DEF Exists
    <2>9. inserted <= inserted' /\ disk \ disk' = {}
      BY <1>2
    <2>10. CalmInv'
      BY <1>id, <1>r, <2>1, <2>2, <2>3, <2>5, <2>6, <2>7, <2>8, <2>9, CalmSlotStep
    <2>11. id \notin troubled => issues[id].status = "Draft"
      BY <1>1, <1>id, <1>r DEF CalmInv, UpToDate, WellBegun
    <2> QED
      BY <2>1, <2>10, <2>11 DEF Frozen, Calm
  <1>4. CASE Trouble(p, Idle) /\ UNCHANGED issues
    BY <1>2, <1>4, TroubleCalm DEF Frozen
  <1> QED
    BY <1>3, <1>4, <1>id, <1>r DEF Commit

-----------------------------------------------------------------------------

LEMMA CalmStep ==
    ASSUME PublishInv, PublishInv', CalmInv, [Next]_vars
    PROVE  CalmInv' /\ Frozen
  <1>1. ASSUME NEW p \in Procs, UpdateWrite(p) \/ Commit(p)
        PROVE  CalmInv' /\ Frozen
    BY <1>1, UpdateWriteCalm, CommitCalm
  <1>2. ASSUME NEW p \in Procs, Insert(p)
        PROVE  CalmInv' /\ Frozen
    BY <1>2, InsertCalm, InsertPreserves DEF Frozen, Calm
  <1>3. ASSUME NEW p \in Procs,
               \/ Create(p) \/ CreateMove(p) \/ CleanUp(p)
               \/ Update(p) \/ UpdateNumber(p) \/ UpdateMove(p)
               \/ OldExists(p) \/ OldUnlink(p)
               \/ Delete(p) \/ DeleteCount(p) \/ DeleteRow(p) \/ FileExists(p) \/ FileUnlink(p)
               \/ Crash(p)
        PROVE  CalmInv' /\ Frozen
    <2>1. CalmInv'
      <3>1. Crash(p) => CalmInv'
        BY TroubleCalm DEF Crash
      <3> QED
        BY <1>3, <3>1, CreateCalm, CreateMoveCalm, CleanUpCalm, UpdateCalm, UpdateNumberCalm,
           UpdateMoveCalm, OldExistsCalm, OldUnlinkCalm, DeleteCalm, DeleteCountCalm,
           DeleteRowCalm, FileExistsCalm, FileUnlinkCalm
    <2>2. issues' = issues
      BY <1>3, OtherStepsPreserve
    <2> QED
      BY <2>1, <2>2 DEF Frozen
  <1>4. ASSUME UNCHANGED <<issues, inserted, disk, uploads, req, troubled>>
        PROVE  CalmInv' /\ Frozen
    BY <1>4 DEF CalmInv, FilesApart, WellBegun, UpToDate, ReferencedFileExists, Calm, Exists,
                RowFiles, Carried, Locked, Frozen
  <1>5. ASSUME NEW i \in IssueIds, Dispatch(i)
        PROVE  CalmInv' /\ Frozen
    BY <1>4, <1>5 DEF Dispatch
  <1>6. CASE UNCHANGED vars
    BY <1>4, <1>6 DEF vars
  <1> QED
    BY <1>1, <1>2, <1>3, <1>5, <1>6 DEF Next

\* However requests on other issues interleave and fail: a request that is
\* alone with its issue knows the row, and no file has two owners.
THEOREM CalmInvariant == Spec => []CalmInv
  <1>1. Init => CalmInv
    <2> SUFFICES ASSUME Init PROVE CalmInv
      OBVIOUS
    <2>1. /\ \A p \in Procs : req[p] = Idle /\ Carried(req[p]) = {}
          /\ \A i \in IssueIds : ~Exists(i) /\ RowFiles(i) = {}
      BY CarriedBy DEF Init, Idle, Exists, RowFiles
    <2>2. Idle.id = 0 /\ Idle.pc = "idle" /\ 0 \notin IssueIds /\ inserted = 0
      BY DEF Idle, IssueIds, Init
    <2>3. FilesApart
      BY <2>1 DEF FilesApart
    <2>4. \A p \in Procs : WellBegun(req[p])
      BY <2>1, <2>2 DEF WellBegun
    <2>5. ReferencedFileExists
      BY <2>1 DEF ReferencedFileExists, Calm
    <2> QED
      BY <2>1, <2>2, <2>3, <2>4, <2>5 DEF CalmInv
  <1>2. PublishInv /\ PublishInv' /\ CalmInv /\ [Next]_vars => CalmInv'
    BY CalmStep
  <1> QED
    BY <1>1, <1>2, PublishInvariant, PTL DEF Spec

\* An issue whose requests ran one at a time and did not fail never loses the
\* file its row refers to.
THEOREM ReferencedFilesStay == Spec => []ReferencedFileExists
  <1>1. CalmInv => ReferencedFileExists
    BY DEF CalmInv
  <1> QED
    BY <1>1, CalmInvariant, PTL

\* Such an issue, once published, is frozen: it can only be archived.
THEOREM PublishedStaysFrozen == Spec => PublishedIsFrozen
  <1>1. PublishInv /\ PublishInv' /\ CalmInv /\ [Next]_vars => [Frozen]_vars
    BY CalmStep
  <1> QED
    BY <1>1, PublishInvariant, CalmInvariant, PTL DEF Spec, PublishedIsFrozen

=============================================================================
