-------------------------------- MODULE Roles ---------------------------------
(***************************************************************************)
(* Roles, the privilege keys they carry and the administrators they are    *)
(* given to (RolesService, and AdminService.create as far as it deals with *)
(* the role).  Every handler reads, awaits and writes; in between others   *)
(* do.  updateRole's transaction is two statements under Read Committed:   *)
(* the delete of the role's keys, and the update that links the new ones.  *)
(***************************************************************************)
EXTENDS RequestSlots, Naturals

CONSTANTS
    Roles,      \* ids of roles
    Names,      \* role names, in capitals as the DTOs make them
    Keys,       \* keys of the privilege catalog
    Bodies,     \* what createRole and updateRole are called with
    Admins,     \* e-mail addresses of administrators
    Seeds,      \* the roles that seeding leaves behind
    Staff,      \* the role of each administrator it leaves behind
    Null

Status == {"Active", "InActive"}

\* The DTOs ask for one key at least.
KeySet == (SUBSET Keys) \ {{}}

Role == [name : Names, status : Status, protected : BOOLEAN, keys : KeySet]

ASSUME NullAssumption == Null \notin Role /\ Null \notin Roles /\ Null \notin Names
ASSUME SeedsAssumption ==
    /\ Seeds \in [Roles -> Role \cup {Null}]
    /\ \A r, s \in Roles : r # s /\ Seeds[r] # Null /\ Seeds[s] # Null
                              => Seeds[r].name # Seeds[s].name
ASSUME StaffAssumption ==
    /\ Staff \in [Admins -> Roles \cup {Null}]
    /\ \A a \in Admins : Staff[a] # Null => Seeds[Staff[a]] # Null

VARIABLES
    roles,      \* table role with role_privilege, by id
    admins,     \* table admin: the role of each
    issued,     \* the ids that the sequence has given out
    asked,      \* history: the keys last asked for, by the create or the replace
                \* that was last to commit
    mixed       \* history: roles whose last replace met another one

vars == <<roles, admins, issued, req, asked, mixed>>

\* Without a name Null, without keys {}.
Body == [name : Names \cup {Null}, keys : SUBSET Keys]

ASSUME BodiesAssumption == Bodies \subseteq Body

Update ==
    [pc : {"name", "delete", "write"}, role : Roles, name : Names \cup {Null},
     keys : SUBSET Keys, drop : SUBSET Keys, met : BOOLEAN]

Request ==
    {Idle}
    \cup [pc : {"insert"}, name : Names, keys : KeySet]
    \cup Update
    \cup [pc : {"status"}, role : Roles, status : Status]
    \cup [pc : {"count", "remove"}, role : Roles]
    \cup [pc : {"hire"}, admin : Admins, role : Roles, changed : BOOLEAN]

\* No two roles share a name, and every administrator's role exists.
TypeOK ==
    /\ roles \in [Roles -> Role \cup {Null}]
    /\ admins \in [Admins -> Roles \cup {Null}]
    /\ issued \subseteq Roles
    /\ req \in [Procs -> Request]
    /\ asked \in [Roles -> SUBSET Keys]
    /\ mixed \subseteq Roles
    /\ \A r, s \in Roles : r # s /\ roles[r] # Null /\ roles[s] # Null
                              => roles[r].name # roles[s].name
    /\ \A a \in Admins : admins[a] # Null => roles[admins[a]] # Null

Init ==
    /\ roles = Seeds
    /\ admins = Staff
    /\ issued = {r \in Roles : Seeds[r] # Null}
    /\ req = [p \in Procs |-> Idle]
    /\ asked = [r \in Roles |-> IF Seeds[r] = Null THEN {} ELSE Seeds[r].keys]
    /\ mixed = {}

-----------------------------------------------------------------------------

\* The request ends, whether it fails or answers.
End(p) == Goto(p, Idle)

Unchanged == UNCHANGED <<roles, admins, issued, asked, mixed>>

\* Some role other than r bears the name.
Named(n, r) == \E s \in Roles \ {r} : roles[s] # Null /\ roles[s].name = n

-----------------------------------------------------------------------------
(* createRole *)

Create(p) ==
    /\ req[p] = Idle
    /\ \E b \in Bodies :
        /\ b.name # Null /\ b.keys # {}
        /\ ~Named(b.name, Null)
        /\ Goto(p, [pc |-> "insert", name |-> b.name, keys |-> b.keys])
    /\ Unchanged

\* The role and its links are one statement; the unique index on the name has
\* the last word.
Insert(p) ==
    /\ req[p].pc = "insert"
    /\ ~Named(req[p].name, Null)
    /\ \E r \in Roles \ issued :
        /\ issued' = issued \cup {r}
        /\ roles' = [roles EXCEPT ![r] = [name |-> req[p].name, status |-> "Active",
                                          protected |-> FALSE, keys |-> req[p].keys]]
        /\ asked' = [asked EXCEPT ![r] = req[p].keys]
    /\ End(p)
    /\ UNCHANGED <<admins, mixed>>

-----------------------------------------------------------------------------
(* updateRole *)

Begin(p) ==
    /\ req[p] = Idle
    /\ \E r \in Roles, b \in Bodies :
        /\ roles[r] # Null
        /\ roles[r].protected => b.name \in {Null, roles[r].name}
        /\ Goto(p, [pc |-> IF b.name \notin {Null, roles[r].name} THEN "name"
                           ELSE IF b.keys = {} THEN "write" ELSE "delete",
                    role |-> r, name |-> b.name, keys |-> b.keys, drop |-> {}, met |-> FALSE])
    /\ Unchanged

CheckName(p) ==
    /\ req[p].pc = "name"
    /\ ~Named(req[p].name, req[p].role)
    /\ Goto(p, [req[p] EXCEPT !.pc = IF req[p].keys = {} THEN "write" ELSE "delete"])
    /\ Unchanged

\* The transaction's delete sees the links that are committed when it begins.
Delete(p) ==
    /\ req[p].pc = "delete"
    /\ LET r == req[p].role
       IN Goto(p, [req[p] EXCEPT !.pc = "write",
                                 !.drop = IF roles[r] = Null THEN {} ELSE roles[r].keys])
    /\ Unchanged

\* Mutant: the old links are left where they are.
AllLeft(r, drop) == roles[r].keys

\* The links of r that are none of those a delete saw.
Left(r, drop) == roles[r].keys \ drop

\* The request is between its delete and its update of r's links.
Replaces(q, r) ==
    /\ req[q].pc = "write"
    /\ req[q].role = r
    /\ req[q].keys # {}

\* Another transaction has linked K anew: these links are not those q's delete
\* saw, even if the keys are the same.
Overtaken(q, r, K) ==
    IF Replaces(q, r) THEN [req[q] EXCEPT !.drop = @ \ K, !.met = TRUE] ELSE req[q]

\* Name and description only.
Rename(p) ==
    /\ req[p].pc = "write"
    /\ req[p].keys = {}
    /\ LET r == req[p].role
       IN /\ roles[r] # Null
          /\ req[p].name # Null => ~Named(req[p].name, r)
          /\ roles' = [roles EXCEPT ![r].name = IF req[p].name = Null THEN @ ELSE req[p].name]
    /\ End(p)
    /\ UNCHANGED <<admins, issued, asked, mixed>>

\* A delete waits for the rows another transaction has deleted, so of two that
\* meet one commits after the other; which is left open.  A link that is
\* already there violates the primary key.
Write(p) ==
    /\ req[p].pc = "write"
    /\ req[p].keys # {}
    /\ LET r == req[p].role
           K == req[p].keys
       IN /\ roles[r] # Null
          /\ req[p].name # Null => ~Named(req[p].name, r)
          /\ K \cap Left(r, req[p].drop) = {}
          /\ roles' = [roles EXCEPT ![r].name = IF req[p].name = Null THEN @ ELSE req[p].name,
                                    ![r].keys = Left(r, req[p].drop) \cup K]
          /\ asked' = [asked EXCEPT ![r] = K]
          /\ mixed' = IF req[p].met THEN mixed \cup {r} ELSE mixed \ {r}
          /\ req' = [q \in Procs |-> IF q = p THEN Idle ELSE Overtaken(q, r, K)]
    /\ UNCHANGED <<admins, issued>>

-----------------------------------------------------------------------------
(* setStatus *)

Switch(p) ==
    /\ req[p] = Idle
    /\ \E r \in Roles, s \in Status :
        /\ roles[r] # Null
        /\ ~roles[r].protected
        /\ Goto(p, [pc |-> "status", role |-> r, status |-> s])
    /\ Unchanged

SetStatus(p) ==
    /\ req[p].pc = "status"
    /\ LET r == req[p].role
       IN /\ roles[r] # Null
          /\ roles' = [roles EXCEPT ![r].status = req[p].status]
          /\ req' = [q \in Procs |-> IF q = p THEN Idle
                                     ELSE IF req[q].pc = "hire" /\ req[q].role = r
                                     THEN [req[q] EXCEPT !.changed = TRUE]
                                     ELSE req[q]]
    /\ UNCHANGED <<admins, issued, asked, mixed>>

-----------------------------------------------------------------------------
(* deleteRole *)

Remove(p) ==
    /\ req[p] = Idle
    /\ \E r \in Roles :
        /\ roles[r] # Null
        /\ ~roles[r].protected
        /\ Goto(p, [pc |-> "count", role |-> r])
    /\ Unchanged

RemoveCount(p) ==
    /\ req[p].pc = "count"
    /\ \A a \in Admins : admins[a] # req[p].role
    /\ Goto(p, [req[p] EXCEPT !.pc = "remove"])
    /\ Unchanged

\* Mutant: the foreign key lets the role go.
UnreferencedAlways(r) == TRUE

\* The foreign key of administrators restricts.
Unreferenced(r) == \A a \in Admins : admins[a] # r

RemoveWrite(p) ==
    /\ req[p].pc = "remove"
    /\ LET r == req[p].role
       IN /\ roles[r] # Null
          /\ Unreferenced(r)
          /\ roles' = [roles EXCEPT ![r] = Null]
          /\ asked' = [asked EXCEPT ![r] = {}]
          /\ mixed' = mixed \ {r}
    /\ End(p)
    /\ UNCHANGED <<admins, issued>>

-----------------------------------------------------------------------------
(* create-user: the role is checked long before the administrator exists *)

\* Mutant: any role that exists will do.
AnyRole(r) == roles[r] # Null

Assignable(r) == roles[r] # Null /\ roles[r].status = "Active"

CheckRole(p) ==
    /\ req[p] = Idle
    /\ \E a \in Admins, r \in Roles :
        /\ admins[a] = Null
        /\ Assignable(r)
        /\ Goto(p, [pc |-> "hire", admin |-> a, role |-> r, changed |-> FALSE])
    /\ Unchanged

Hire(p) ==
    /\ req[p].pc = "hire"
    /\ admins[req[p].admin] = Null
    /\ roles[req[p].role] # Null
    /\ admins' = [admins EXCEPT ![req[p].admin] = req[p].role]
    /\ End(p)
    /\ UNCHANGED <<roles, issued, asked, mixed>>

-----------------------------------------------------------------------------

\* A check or a constraint refuses, a query fails, or the worker dies: a
\* transaction that has not committed leaves nothing behind.
Crash(p) ==
    /\ req[p] # Idle
    /\ End(p)
    /\ Unchanged

Next ==
    \E p \in Procs :
        \/ Create(p) \/ Insert(p)
        \/ Begin(p) \/ CheckName(p) \/ Delete(p) \/ Rename(p) \/ Write(p)
        \/ Switch(p) \/ SetStatus(p)
        \/ Remove(p) \/ RemoveCount(p) \/ RemoveWrite(p)
        \/ CheckRole(p) \/ Hire(p)
        \/ Crash(p)

Spec == Init /\ [][Next]_vars

-----------------------------------------------------------------------------

\* A role carries the keys it was last given, all of them and no others, unless
\* between the delete and the update of the replace that gave them another
\* replace of the role committed: then links of both may be left.
KeysAsAsked ==
    \A r \in Roles : roles[r] # Null /\ r \notin mixed => roles[r].keys = asked[r]

\* Whoever becomes an administrator gets an active role, or its request was
\* overtaken by a switch of that role.
Given ==
    \A a \in Admins : admins[a] = Null /\ admins'[a] # Null =>
        \/ roles[admins'[a]].status = "Active"
        \/ \E p \in Procs : req[p].pc = "hire" /\ req[p].admin = a /\ req[p].changed

\* create-user gives out active roles only, unless somebody switched the role
\* between its check and the insert.
ActiveRoleGiven == [][Given]_vars

-----------------------------------------------------------------------------
(* The inductive invariant *)

\* A transaction that nobody has overtaken would replace all that is there.
DeletesAll ==
    \A p \in Procs : \A r \in Roles :
        Replaces(p, r) /\ ~req[p].met /\ roles[r] # Null => req[p].drop = roles[r].keys

\* Ids are never given out twice, so no update is about a role to come.
Issued ==
    /\ \A r \in Roles : roles[r] # Null => r \in issued
    /\ \A p \in Procs : req[p].pc \in {"name", "delete", "write"} => req[p].role \in issued

\* The role create-user has checked is still active.
StillActive ==
    \A p \in Procs :
        req[p].pc = "hire" /\ ~req[p].changed /\ roles[req[p].role] # Null
            => roles[req[p].role].status = "Active"

RolesInv ==
    /\ TypeOK
    /\ Issued
    /\ KeysAsAsked
    /\ DeletesAll
    /\ StillActive
=============================================================================
