---------------------------- MODULE PublishIssues ----------------------------
(***************************************************************************)
(* PublishIssuesService and the part of StorageService it uses: an issue's *)
(* row moves from Draft to Published to Archived while its file moves into *)
(* and out of the issues/ directory.  The database and the disk have no    *)
(* common transaction: every await is a point where another request, a     *)
(* failed call or a crash of the worker can come in.                       *)
(*                                                                         *)
(* issueNo stands for all the metadata: the service treats title,          *)
(* publishDate and totalCopies like it, but for its uniqueness.  Uploads   *)
(* are numbered in the order they arrive: multer gives each a fresh name.  *)
(***************************************************************************)
EXTENDS Integers, FiniteSets

CONSTANTS
    Procs,        \* request slots
    Numbers,      \* values of issueNo
    Folded,       \* issueNo without case: what the service's own check compares
    Null,         \* SQL null, and a field left out of a request
    Faults,       \* which of "db", "unlink" and "crash" may happen
    MaxIssues,    \* bound on the rows ever inserted
    MaxUploads    \* bound on the files ever uploaded

ASSUME FoldedAssumption == Numbers \subseteq DOMAIN Folded
ASSUME BoundsAssumption == MaxIssues \in Nat /\ MaxUploads \in Nat

VARIABLES
    issues,       \* publish_issue rows by id; Null where there is none
    inserted,     \* the last id given out
    dispatched,   \* ids with a dispatch_entry row (foreign key, on delete restrict)
    disk,         \* files in issues/
    uploads,      \* the last upload
    req,          \* what each slot's request knows between two awaits
    troubled      \* history: ids with overlapping requests, or a failed or
                  \* crashed one

vars == <<issues, inserted, dispatched, disk, uploads, req, troubled>>

Status == {"Draft", "Published", "Archived"}
IssueIds == 1..MaxIssues
Files == 1..MaxUploads

Row == [number : Numbers, file : Files \cup {Null}, status : Status]

ASSUME NullAssumption == Null \notin Numbers \cup Nat \cup Row \cup Status

\* A patch names the columns an update sets; Null leaves the column alone.
Patch == [number : Numbers \cup {Null}, file : Files \cup {Null}, status : Status \cup {Null}]

Idle == [pc |-> "idle", id |-> 0]

Request ==
    {Idle}
    \cup [pc : {"createMove", "insert"}, id : {0}, row : Row]
    \cup [pc : {"number", "updateMove", "write", "oldExists", "oldUnlink"},
          id : IssueIds, old : Row, patch : Patch]
    \cup [pc : {"cleanUp"}, id : IssueIds \cup {0}, file : Files]
    \cup [pc : {"count", "deleteRow", "fileExists", "fileUnlink", "commit"},
          id : IssueIds, old : Row]

\* The tables and every request in flight keep their shape, and no file is on
\* disk that was never uploaded.
TypeOK ==
    /\ issues \in [IssueIds -> Row \cup {Null}]
    /\ inserted \in 0..MaxIssues
    /\ dispatched \subseteq IssueIds
    /\ disk \subseteq 1..uploads
    /\ uploads \in 0..MaxUploads
    /\ req \in [Procs -> Request]
    /\ troubled \subseteq IssueIds

Init ==
    /\ issues = [i \in IssueIds |-> Null]
    /\ inserted = 0
    /\ dispatched = {}
    /\ disk = {}
    /\ uploads = 0
    /\ req = [p \in Procs |-> Idle]
    /\ troubled = {}

-----------------------------------------------------------------------------

Exists(i) == issues[i] # Null

\* Ids another request than p is working on.
InUse(p) == {req[q].id : q \in Procs \ {p}}

\* p's request goes on as r.
Goto(p, r) ==
    /\ req' = [req EXCEPT ![p] = r]
    /\ troubled' = troubled \cup ({r.id} \cap InUse(p) \cap IssueIds)

\* The request fails at an I/O step its code does not expect to fail.
Trouble(p, r) ==
    /\ req' = [req EXCEPT ![p] = r]
    /\ troubled' = troubled \cup ({req[p].id} \cap IssueIds)

Upload(file) == uploads' = IF file = Null THEN uploads ELSE file

\* A file that comes with the request, or none.
Attached == {Null} \cup {u \in Files : u = uploads + 1}

FoldedClash(number, id) ==
    \E i \in IssueIds \ {id} : Exists(i) /\ Folded[issues[i].number] = Folded[number]

\* The unique index on issue_no compares case-sensitively.
IndexClash(number, id) == \E i \in IssueIds \ {id} : Exists(i) /\ issues[i].number = number

\* A transaction that has deleted the row but not committed holds its lock.
Locked(i) == \E q \in Procs : req[q].pc \in {"fileExists", "fileUnlink", "commit"}
                              /\ req[q].id = i

CleanUpOf(id, file) == IF file = Null THEN Idle
                       ELSE [pc |-> "cleanUp", id |-> id, file |-> file]

-----------------------------------------------------------------------------
(* create *)

Create(p) ==
    /\ req[p] = Idle
    /\ inserted < MaxIssues
    /\ \E number \in Numbers, status \in Status, file \in Attached :
        LET row == [number |-> number, file |-> file, status |-> status]
        IN /\ ~FoldedClash(number, 0)
           /\ file = Null => status # "Archived"
           /\ Goto(p, [pc |-> IF file = Null THEN "insert" ELSE "createMove",
                       id |-> 0, row |-> row])
           /\ Upload(file)
    /\ UNCHANGED <<issues, inserted, dispatched, disk>>

\* The status is looked at only after the file has been moved.
CreateMove(p) ==
    /\ req[p].pc = "createMove"
    /\ disk' = disk \cup {req[p].row.file}
    /\ Goto(p, IF req[p].row.status = "Archived" THEN Idle
               ELSE [req[p] EXCEPT !.pc = "insert"])
    /\ UNCHANGED <<issues, inserted, dispatched, uploads>>

Insert(p) ==
    /\ req[p].pc = "insert"
    /\ \/ /\ ~IndexClash(req[p].row.number, 0)
          /\ inserted < MaxIssues
          /\ inserted' = inserted + 1
          /\ issues' = [issues EXCEPT ![inserted'] = req[p].row]
          /\ Goto(p, Idle)
       \/ /\ IndexClash(req[p].row.number, 0) \/ "db" \in Faults
          /\ Goto(p, CleanUpOf(0, req[p].row.file))
          /\ UNCHANGED <<issues, inserted>>
    /\ UNCHANGED <<dispatched, disk, uploads>>

\* removeFile in the catch blocks of create and update.
CleanUp(p) ==
    /\ req[p].pc = "cleanUp"
    /\ \/ disk' = disk \ {req[p].file} /\ Goto(p, Idle)
       \/ "unlink" \in Faults /\ disk' = disk /\ Trouble(p, Idle)
    /\ UNCHANGED <<issues, inserted, dispatched, uploads>>

-----------------------------------------------------------------------------
(* update *)

\* Mutant: archiving with other fields in the request is an ordinary update.
IsArchivingAlone(old, patch) ==
    /\ old.status = "Published"
    /\ patch = [number |-> Null, file |-> Null, status |-> "Archived"]

IsArchiving(old, patch) == old.status = "Published" /\ patch.status = "Archived"

\* Mutant: publishing does not ask for a file.
EditableUnchecked(old, patch) ==
    CASE old.status = "Archived"  -> FALSE
      [] old.status = "Published" ->
            \/ patch.status = "Archived"
            \/ patch = [number |-> Null, file |-> Null, status |-> Null]
      [] old.status = "Draft"     -> patch.status \in {Null, "Published"}

\* The lifecycle checks on the row as findOne returned it.
Editable(old, patch) ==
    CASE old.status = "Archived"  -> FALSE
      [] old.status = "Published" ->
            \/ patch.status = "Archived"
            \/ patch = [number |-> Null, file |-> Null, status |-> Null]
      [] old.status = "Draft" ->
            /\ patch.status \in {Null, "Published"}
            /\ patch.status = "Published" => patch.file # Null \/ old.file # Null

Update(p) ==
    /\ req[p] = Idle
    /\ \E i \in IssueIds, patch \in [number : Numbers \cup {Null}, file : Attached,
                                     status : Status \cup {Null}] :
        /\ Exists(i)
        /\ Editable(issues[i], patch)
        /\ Goto(p, [pc |-> "number", id |-> i, old |-> issues[i], patch |-> patch])
        /\ Upload(patch.file)
    /\ UNCHANGED <<issues, inserted, dispatched, disk>>

UpdateNumber(p) ==
    /\ req[p].pc = "number"
    /\ LET r == req[p]
           clash == /\ r.patch.number \notin {Null, r.old.number}
                    /\ FoldedClash(r.patch.number, r.id)
           move == r.patch.file # Null /\ ~IsArchiving(r.old, r.patch)
       IN Goto(p, IF clash THEN Idle
                  ELSE [r EXCEPT !.pc = IF move THEN "updateMove" ELSE "write"])
    /\ UNCHANGED <<issues, inserted, dispatched, disk, uploads>>

\* Mutant: the old file goes as soon as the new one is there.
UpdateMoveSwap(p) ==
    /\ req[p].pc = "updateMove"
    /\ disk' = (disk \ {req[p].old.file}) \cup {req[p].patch.file}
    /\ Goto(p, [req[p] EXCEPT !.pc = "write"])
    /\ UNCHANGED <<issues, inserted, dispatched, uploads>>

UpdateMove(p) ==
    /\ req[p].pc = "updateMove"
    /\ disk' = disk \cup {req[p].patch.file}
    /\ Goto(p, [req[p] EXCEPT !.pc = "write"])
    /\ UNCHANGED <<issues, inserted, dispatched, uploads>>

\* Mutant: a field left out of the request overwrites the column.
PatchedBlindly(row, patch) == [f \in DOMAIN row |-> patch[f]]

Patched(row, patch) ==
    [f \in DOMAIN row |-> IF patch[f] = Null THEN row[f] ELSE patch[f]]

\* An archiving request sets nothing but the status.
UpdateWrite(p) ==
    /\ req[p].pc = "write"
    /\ ~Locked(req[p].id)
    /\ LET r == req[p]
           archive == IsArchiving(r.old, r.patch)
           newFile == IF archive THEN Null ELSE r.patch.file
           row == IF archive THEN [issues[r.id] EXCEPT !.status = "Archived"]
                  ELSE Patched(issues[r.id], r.patch)
           clash == /\ ~archive /\ r.patch.number # Null
                    /\ IndexClash(r.patch.number, r.id)
       IN \/ /\ Exists(r.id) /\ ~clash
             /\ issues' = [issues EXCEPT ![r.id] = row]
             /\ Goto(p, IF newFile = Null \/ r.old.file = Null THEN Idle
                        ELSE [r EXCEPT !.pc = "oldExists"])
          \/ /\ ~Exists(r.id) \/ clash \/ "db" \in Faults
             /\ Goto(p, CleanUpOf(r.id, newFile))
             /\ UNCHANGED issues
    /\ UNCHANGED <<inserted, dispatched, disk, uploads>>

\* removeFile(existing.filePath): exist, then unlink.
OldExists(p) ==
    /\ req[p].pc = "oldExists"
    /\ Goto(p, IF req[p].old.file \in disk THEN [req[p] EXCEPT !.pc = "oldUnlink"] ELSE Idle)
    /\ UNCHANGED <<issues, inserted, dispatched, disk, uploads>>

\* An unlink that fails, or finds the file gone, throws into the catch block,
\* which removes the new file.
OldUnlink(p) ==
    /\ req[p].pc = "oldUnlink"
    /\ \/ /\ req[p].old.file \in disk
          /\ disk' = disk \ {req[p].old.file}
          /\ Goto(p, Idle)
       \/ /\ req[p].old.file \notin disk \/ "unlink" \in Faults
          /\ Trouble(p, CleanUpOf(req[p].id, req[p].patch.file))
          /\ UNCHANGED disk
    /\ UNCHANGED <<issues, inserted, dispatched, uploads>>

-----------------------------------------------------------------------------
(* delete *)

Delete(p) ==
    /\ req[p] = Idle
    /\ \E i \in IssueIds :
        /\ Exists(i) /\ issues[i].status = "Draft"
        /\ Goto(p, [pc |-> "count", id |-> i, old |-> issues[i]])
    /\ UNCHANGED <<issues, inserted, dispatched, disk, uploads>>

DeleteCount(p) ==
    /\ req[p].pc = "count"
    /\ Goto(p, IF req[p].id \in dispatched THEN Idle ELSE [req[p] EXCEPT !.pc = "deleteRow"])
    /\ UNCHANGED <<issues, inserted, dispatched, disk, uploads>>

\* Mutant: no foreign key, the count has to do.
DeleteRowUnrestricted(p) ==
    /\ req[p].pc = "deleteRow"
    /\ ~Locked(req[p].id)
    /\ LET r == req[p]
       IN Goto(p, IF ~Exists(r.id) THEN Idle
                  ELSE [r EXCEPT !.pc = IF r.old.file = Null THEN "commit" ELSE "fileExists"])
    /\ UNCHANGED <<issues, inserted, dispatched, disk, uploads>>

\* Opens the transaction; fails if the row is gone or dispatch entries refer
\* to it.  Nobody sees the deletion before the commit.
DeleteRow(p) ==
    /\ req[p].pc = "deleteRow"
    /\ ~Locked(req[p].id)
    /\ LET r == req[p]
           fails == ~Exists(r.id) \/ r.id \in dispatched
       IN Goto(p, IF fails THEN Idle
                  ELSE [r EXCEPT !.pc = IF r.old.file = Null THEN "commit" ELSE "fileExists"])
    /\ UNCHANGED <<issues, inserted, dispatched, disk, uploads>>

FileExists(p) ==
    /\ req[p].pc = "fileExists"
    /\ Goto(p, [req[p] EXCEPT !.pc = IF req[p].old.file \in disk THEN "fileUnlink" ELSE "commit"])
    /\ UNCHANGED <<issues, inserted, dispatched, disk, uploads>>

\* A failed unlink rolls the deletion back.
FileUnlink(p) ==
    /\ req[p].pc = "fileUnlink"
    /\ \/ /\ req[p].old.file \in disk
          /\ disk' = disk \ {req[p].old.file}
          /\ Goto(p, [req[p] EXCEPT !.pc = "commit"])
       \/ /\ req[p].old.file \notin disk \/ "unlink" \in Faults
          /\ Trouble(p, Idle)
          /\ UNCHANGED disk
    /\ UNCHANGED <<issues, inserted, dispatched, uploads>>

Commit(p) ==
    /\ req[p].pc = "commit"
    /\ \/ issues' = [issues EXCEPT ![req[p].id] = Null] /\ Goto(p, Idle)
       \/ "db" \in Faults /\ Trouble(p, Idle) /\ UNCHANGED issues
    /\ UNCHANGED <<inserted, dispatched, disk, uploads>>

-----------------------------------------------------------------------------
(* Around the service *)

\* The worker dies: its request is lost, an open transaction rolls back.
Crash(p) ==
    /\ "crash" \in Faults
    /\ req[p] # Idle
    /\ Trouble(p, Idle)
    /\ UNCHANGED <<issues, inserted, dispatched, disk, uploads>>

\* DispatchesService.create inserts an entry some time after it read the
\* issue as Published; the foreign key makes the insert wait for a deletion.
Dispatch(i) ==
    /\ Exists(i) /\ issues[i].status # "Draft"
    /\ ~Locked(i)
    /\ dispatched' = dispatched \cup {i}
    /\ UNCHANGED <<issues, inserted, disk, uploads, req, troubled>>

Next ==
    \/ \E p \in Procs :
        \/ Create(p) \/ CreateMove(p) \/ Insert(p) \/ CleanUp(p)
        \/ Update(p) \/ UpdateNumber(p) \/ UpdateMove(p) \/ UpdateWrite(p)
        \/ OldExists(p) \/ OldUnlink(p)
        \/ Delete(p) \/ DeleteCount(p) \/ DeleteRow(p) \/ FileExists(p) \/ FileUnlink(p)
        \/ Commit(p)
        \/ Crash(p)
    \/ \E i \in IssueIds : Dispatch(i)

Spec == Init /\ [][Next]_vars

-----------------------------------------------------------------------------
(* However requests interleave and fail *)

\* Entries of the dispatch book never lose their issue: delete reads the
\* status and counts the entries before it deletes, and an entry may appear
\* in between.
DispatchedIssueExists == \A i \in dispatched : Exists(i)

OneWay ==
    \A i \in IssueIds :
        Exists(i) /\ issues'[i] # Null =>
           /\ issues[i].status # "Draft" => issues'[i].status # "Draft"
           /\ issues[i].status = "Draft" /\ issues'[i].status # "Draft"
                 => issues'[i].file # Null

\* An issue never returns to Draft, and one that update publishes has a
\* file: stale writes may do much, but not this.
PublishingIsOneWay == [][OneWay]_vars

-----------------------------------------------------------------------------
(* For an issue whose requests ran one at a time and did not fail *)

Calm(i) == Exists(i) /\ i \notin troubled

\* The file an issue refers to is on disk, except while the transaction that
\* deletes the issue has removed it.
ReferencedFileExists ==
    \A i \in IssueIds : Calm(i) /\ issues[i].file # Null /\ ~Locked(i) => issues[i].file \in disk

Frozen ==
    \A i \in IssueIds :
        Calm(i) /\ i \notin troubled' /\ issues[i].status # "Draft" =>
           \/ issues'[i] = issues[i]
           \/ /\ issues[i].status = "Published"
              /\ issues'[i] = [issues[i] EXCEPT !.status = "Archived"]

\* A published issue is frozen: only its status changes, and only to
\* Archived; it is never deleted.
PublishedIsFrozen == [][Frozen]_vars

-----------------------------------------------------------------------------
(* What the comments of update promise without that condition *)

\* "If database update fails, clean up the newly moved file so we avoid
\* orphan files": the cleanup is for a file no row refers to, but for one
\* that is being deleted.
CleanUpOnlyOrphans ==
    \A p \in Procs : req[p].pc = "cleanUp" =>
        \A i \in IssueIds : Exists(i) /\ ~Locked(i) => issues[i].file # req[p].file

-----------------------------------------------------------------------------
(* The inductive invariant *)

\* What an issue that was found as old can have become.
Follows(row, old) ==
    /\ old.status # "Draft" => row.status # "Draft"
    /\ old.file # Null => row.file # Null

Arrived(file) == file # Null => file \in 1..uploads

\* Stale as a request's row may be, the issue has not moved back since; and
\* nobody has dispatched an issue whose row a transaction holds.
RequestSound(r) ==
    /\ r.pc = "createMove" => r.row.file # Null /\ Arrived(r.row.file)
    /\ r.pc \in {"number", "updateMove", "write"} =>
          /\ r.id <= inserted
          /\ Editable(r.old, r.patch)
          /\ Exists(r.id) => Follows(issues[r.id], r.old)
          /\ Arrived(r.patch.file)
    /\ r.pc = "updateMove" => r.patch.file # Null
    /\ r.pc \in {"fileExists", "fileUnlink", "commit"} => r.id \notin dispatched

\* Ids are given out in order.
Numbered == \A i \in IssueIds : Exists(i) => i <= inserted

PublishInv ==
    /\ TypeOK
    /\ DispatchedIssueExists
    /\ Numbered
    /\ \A p \in Procs : RequestSound(req[p])

-----------------------------------------------------------------------------
(* Why a request that is alone with its issue loses no file *)

\* The files a request may yet move or remove.
Carried(r) ==
    (CASE r.pc \in {"createMove", "insert"} -> {r.row.file}
       [] r.pc \in {"number", "updateMove", "write", "oldExists", "oldUnlink"} ->
             {r.old.file, r.patch.file}
       [] r.pc = "cleanUp" -> {r.file}
       [] r.pc \in {"count", "deleteRow", "fileExists", "fileUnlink", "commit"} -> {r.old.file}
       [] OTHER -> {}) \ {Null}

RowFiles(i) == IF Exists(i) THEN {issues[i].file} \ {Null} ELSE {}

\* However requests interleave, a file belongs to one issue or to one request
\* that creates an issue.
FilesApart ==
    /\ \A i, j \in IssueIds, f \in Files : f \in RowFiles(i) /\ f \in RowFiles(j) => i = j
    /\ \A p \in Procs, i \in IssueIds, f \in Files :
          f \in Carried(req[p]) /\ f \in RowFiles(i) => req[p].id = i
    /\ \A p, q \in Procs, f \in Files :
          f \in Carried(req[p]) /\ f \in Carried(req[q]) =>
             p = q \/ (req[p].id = req[q].id /\ req[p].id # 0)
    /\ \A p \in Procs : Carried(req[p]) \subseteq 1..uploads
    /\ \A i \in IssueIds : RowFiles(i) \subseteq 1..uploads

\* What every request holds to from its start.
WellBegun(r) ==
    /\ r.id <= inserted
    /\ r.pc = "insert" /\ r.row.file # Null => r.row.file \in disk
    /\ /\ r.pc \in {"number", "updateMove", "write", "oldExists", "oldUnlink"}
       /\ r.patch.file # Null
       => r.patch.file # r.old.file
    /\ r.pc \in {"count", "deleteRow", "fileExists", "fileUnlink", "commit"} =>
          r.old.status = "Draft"

\* What a request knows of its issue while no other works on it.
UpToDate(r) ==
    /\ r.pc \in {"number", "updateMove", "write",
                 "count", "deleteRow", "fileExists", "fileUnlink", "commit"} =>
          issues[r.id] = r.old
    /\ r.pc = "write" /\ r.patch.file # Null /\ ~IsArchiving(r.old, r.patch) =>
          r.patch.file \in disk
    /\ r.pc \in {"oldExists", "oldUnlink"} =>
          Exists(r.id) /\ issues[r.id].file = r.patch.file
    /\ r.pc = "cleanUp" /\ Exists(r.id) => issues[r.id].file # r.file

CalmInv ==
    /\ FilesApart
    /\ \A p \in Procs : WellBegun(req[p])
    /\ \A p, q \in Procs :
          req[p].id \in IssueIds \ troubled /\ req[q].id = req[p].id => p = q
    /\ \A p \in Procs : req[p].id \in IssueIds \ troubled => UpToDate(req[p])
    /\ ReferencedFileExists
=============================================================================
