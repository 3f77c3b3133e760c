----------------------------- MODULE RolesProofs -----------------------------
(***************************************************************************)
(* Roles, for any number of requests, roles, keys and administrators.      *)
(***************************************************************************)
EXTENDS Roles, TLAPS

\* What each kind of request carries.
LEMMA RequestTypes ==
    ASSUME TypeOK, NEW p \in Procs
    PROVE  /\ req[p] = Idle \/ req[p].pc \in {"insert", "name", "delete", "write", "status",
                                              "count", "remove", "hire"}
           /\ req[p].pc = "insert" => req[p].name \in Names /\ req[p].keys \in KeySet
           /\ req[p].pc \in {"name", "delete", "write"} => req[p] \in Update
           /\ req[p].pc = "status" => req[p].role \in Roles /\ req[p].status \in Status
           /\ req[p].pc \in {"count", "remove"} => req[p].role \in Roles
           /\ req[p].pc = "hire" =>
                req[p] \in [pc : {"hire"}, admin : Admins, role : Roles, changed : BOOLEAN]
  <1>1. req[p] \in Request
    BY DEF TypeOK
  <1> QED
    BY <1>1 DEF Request, Update, Idle

LEMMA IdleIsNothing == Idle \in Request /\ Idle.pc = "idle"
  BY DEF Idle, Request

\* One slot goes on and the tables stay.
LEMMA SlotStep ==
    ASSUME RolesInv, NEW p \in Procs, NEW x \in Request, Goto(p, x), Unchanged,
           x.pc = "write" /\ x.keys # {} /\ ~x.met /\ roles[x.role] # Null
               => x.drop = roles[x.role].keys,
           x.pc = "hire" /\ ~x.changed /\ roles[x.role] # Null
               => roles[x.role].status = "Active",
           x.pc \in {"name", "delete", "write"} => x.role \in issued
    PROVE  RolesInv'
  <1>1. TypeOK /\ Issued /\ KeysAsAsked /\ DeletesAll /\ StillActive
    BY DEF RolesInv
  <1>2. req' \in [Procs -> Request] /\ \A q \in Procs : req'[q] = IF q = p THEN x ELSE req[q]
    BY <1>1 DEF Goto, TypeOK
  <1>3. /\ roles' = roles /\ admins' = admins /\ issued' = issued /\ asked' = asked
        /\ mixed' = mixed
    BY DEF Unchanged
  <1>4. TypeOK'
    BY <1>1, <1>2, <1>3 DEF TypeOK
  <1>5. Issued' /\ KeysAsAsked'
    BY <1>1, <1>2, <1>3 DEF Issued, KeysAsAsked
  <1>6. DeletesAll'
    BY <1>1, <1>2, <1>3 DEF DeletesAll, Replaces
  <1>7. StillActive'
    BY <1>1, <1>2, <1>3 DEF StillActive
  <1> QED
    BY <1>4, <1>5, <1>6, <1>7 DEF RolesInv

LEMMA CreatePreserves ==
    ASSUME RolesInv, NEW p \in Procs, Create(p) PROVE RolesInv'
  <1>1. PICK b \in Bodies :
          /\ b.name # Null /\ b.keys # {}
          /\ Goto(p, [pc |-> "insert", name |-> b.name, keys |-> b.keys])
    BY DEF Create
  <1>2. b.name \in Names /\ b.keys \in KeySet
    <2>1. b \in Body
      BY BodiesAssumption
    <2>2. b.name \in Names \cup {Null} /\ b.keys \in SUBSET Keys
      BY <2>1 DEF Body
    <2>3. b.name # Null /\ b.keys # {}
      BY <1>1
    <2> QED
      BY <2>2, <2>3 DEF KeySet
  <1>3. [pc |-> "insert", name |-> b.name, keys |-> b.keys] \in Request
    BY <1>2 DEF Request
  <1> QED
    BY <1>1, <1>3, SlotStep DEF Create

LEMMA BeginPreserves ==
    ASSUME RolesInv, NEW p \in Procs, Begin(p) PROVE RolesInv'
  <1>1. PICK r \in Roles, b \in Bodies :
          /\ roles[r] # Null
          /\ Goto(p, [pc |-> IF b.name \notin {Null, roles[r].name} THEN "name"
                             ELSE IF b.keys = {} THEN "write" ELSE "delete",
                      role |-> r, name |-> b.name, keys |-> b.keys, drop |-> {}, met |-> FALSE])
    BY DEF Begin
  <1> DEFINE c == IF b.name \notin {Null, roles[r].name} THEN "name"
                  ELSE IF b.keys = {} THEN "write" ELSE "delete"
             x == [pc |-> c, role |-> r, name |-> b.name, keys |-> b.keys, drop |-> {},
                   met |-> FALSE]
  <1>2. c \in {"name", "delete", "write"} /\ (c = "write" => b.keys = {})
    OBVIOUS
  <1>3. b.name \in Names \cup {Null} /\ b.keys \in SUBSET Keys
    BY BodiesAssumption DEF Body
  <1> HIDE DEF c
  <1>4. x \in Request /\ x.pc = c /\ x.keys = b.keys /\ x.role = r /\ r \in issued
    BY <1>1, <1>2, <1>3 DEF Request, Update, RolesInv, Issued
  <1>5. Goto(p, x) /\ Unchanged
    BY <1>1 DEF Begin, c
  <1> HIDE DEF x
  <1> QED
    BY <1>2, <1>4, <1>5, SlotStep

\* An update keeps what it asks for while it goes on.
LEMMA UpdateGoesOn ==
    \A x \in Update, c \in {"name", "delete", "write"} :
        /\ [x EXCEPT !.pc = c] \in Update
        /\ [x EXCEPT !.pc = c].pc = c
        /\ [x EXCEPT !.pc = c].keys = x.keys
        /\ [x EXCEPT !.pc = c].role = x.role
  BY DEF Update

LEMMA UpdateDrops ==
    \A x \in Update : \A d \in SUBSET Keys :
        /\ [x EXCEPT !.pc = "write", !.drop = d] \in Update
        /\ [x EXCEPT !.pc = "write", !.drop = d].pc = "write"
        /\ [x EXCEPT !.pc = "write", !.drop = d].role = x.role
        /\ [x EXCEPT !.pc = "write", !.drop = d].drop = d
  BY DEF Update

LEMMA UpdateMeets ==
    \A x \in Update : \A d \in SUBSET Keys :
        /\ [x EXCEPT !.drop = d, !.met = TRUE] \in Update
        /\ [x EXCEPT !.drop = d, !.met = TRUE].pc = x.pc
        /\ [x EXCEPT !.drop = d, !.met = TRUE].role = x.role
        /\ [x EXCEPT !.drop = d, !.met = TRUE].met
  BY DEF Update

LEMMA CheckNamePreserves ==
    ASSUME RolesInv, NEW p \in Procs, CheckName(p) PROVE RolesInv'
  <1> DEFINE c == IF req[p].keys = {} THEN "write" ELSE "delete"
             x == [req[p] EXCEPT !.pc = c]
  <1>1. req[p] \in Update
    BY RequestTypes DEF RolesInv, CheckName
  <1>2. c \in {"delete", "write"} /\ (c = "write" => req[p].keys = {})
    OBVIOUS
  <1>3. Goto(p, x) /\ Unchanged
    BY DEF CheckName
  <1> HIDE DEF c
  <1>4. x \in Update /\ x.pc = c /\ x.keys = req[p].keys /\ x.role = req[p].role
    <2>1. c \in {"name", "delete", "write"}
      BY <1>2
    <2> QED
      BY <1>1, <2>1, UpdateGoesOn
  <1> HIDE DEF x
  <1>5. x \in Request /\ x.role \in issued
    BY <1>4 DEF Request, CheckName, RolesInv, Issued
  <1> QED
    BY <1>2, <1>3, <1>4, <1>5, SlotStep

LEMMA DeletePreserves ==
    ASSUME RolesInv, NEW p \in Procs, Delete(p) PROVE RolesInv'
  <1> DEFINE r == req[p].role
             d == IF roles[r] = Null THEN {} ELSE roles[r].keys
             x == [req[p] EXCEPT !.pc = "write", !.drop = d]
  <1>1. req[p] \in Update /\ TypeOK
    BY RequestTypes DEF RolesInv, Delete
  <1>2. r \in Roles
    BY <1>1 DEF Update
  <1>3. d \in SUBSET Keys /\ (roles[r] # Null => d = roles[r].keys)
    BY <1>1, <1>2 DEF TypeOK, Role, KeySet
  <1>4. Goto(p, x) /\ Unchanged
    BY DEF Delete
  <1> HIDE DEF d
  <1>5. x \in Update /\ x.pc = "write" /\ x.role = r /\ x.drop = d
    BY <1>1, <1>3, UpdateDrops
  <1> HIDE DEF x
  <1>6. x \in Request /\ x.role \in issued
    BY <1>5 DEF Request, Delete, RolesInv, Issued
  <1> QED
    BY <1>3, <1>4, <1>5, <1>6, SlotStep

LEMMA SwitchPreserves ==
    ASSUME RolesInv, NEW p \in Procs, Switch(p) PROVE RolesInv'
  <1>1. PICK r \in Roles, s \in Status : Goto(p, [pc |-> "status", role |-> r, status |-> s])
    BY DEF Switch
  <1>2. [pc |-> "status", role |-> r, status |-> s] \in Request
    BY DEF Request
  <1> QED
    BY <1>1, <1>2, SlotStep DEF Switch

LEMMA RemovePreserves ==
    ASSUME RolesInv, NEW p \in Procs, Remove(p) PROVE RolesInv'
  <1>1. PICK r \in Roles : Goto(p, [pc |-> "count", role |-> r])
    BY DEF Remove
  <1>2. [pc |-> "count", role |-> r] \in Request
    BY DEF Request
  <1> QED
    BY <1>1, <1>2, SlotStep DEF Remove

LEMMA RemoveCountPreserves ==
    ASSUME RolesInv, NEW p \in Procs, RemoveCount(p) PROVE RolesInv'
  <1> DEFINE x == [req[p] EXCEPT !.pc = "remove"]
  <1>1. req[p] \in [pc : {"count", "remove"}, role : Roles]
    BY DEF RolesInv, TypeOK, Request, Update, Idle, RemoveCount
  <1>2. x \in Request /\ x.pc = "remove"
    BY <1>1 DEF Request
  <1>3. Goto(p, x) /\ Unchanged
    BY DEF RemoveCount
  <1> HIDE DEF x
  <1> QED
    BY <1>2, <1>3, SlotStep

LEMMA CheckRolePreserves ==
    ASSUME RolesInv, NEW p \in Procs, CheckRole(p) PROVE RolesInv'
  <1>1. PICK a \in Admins, r \in Roles :
          /\ Assignable(r)
          /\ Goto(p, [pc |-> "hire", admin |-> a, role |-> r, changed |-> FALSE])
    BY DEF CheckRole
  <1>2. [pc |-> "hire", admin |-> a, role |-> r, changed |-> FALSE] \in Request
    BY DEF Request
  <1> QED
    BY <1>1, <1>2, SlotStep DEF CheckRole, Assignable

LEMMA CrashPreserves ==
    ASSUME RolesInv, NEW p \in Procs, Crash(p) PROVE RolesInv'
  BY SlotStep, IdleIsNothing DEF Crash, End

\* A new role has an id nobody knew, so no request and no administrator is
\* about it.
LEMMA InsertPreserves ==
    ASSUME RolesInv, NEW p \in Procs, Insert(p) PROVE RolesInv'
  <1>1. TypeOK /\ Issued /\ KeysAsAsked /\ DeletesAll /\ StillActive
    BY DEF RolesInv
  <1>2. req[p].pc = "insert" /\ req[p].name \in Names /\ req[p].keys \in KeySet
    BY <1>1, RequestTypes DEF Insert
  <1>3. PICK r \in Roles \ issued :
          /\ issued' = issued \cup {r}
          /\ roles' = [roles EXCEPT ![r] = [name |-> req[p].name, status |-> "Active",
                                            protected |-> FALSE, keys |-> req[p].keys]]
          /\ asked' = [asked EXCEPT ![r] = req[p].keys]
    BY DEF Insert
  <1> DEFINE n == [name |-> req[p].name, status |-> "Active", protected |-> FALSE,
                   keys |-> req[p].keys]
  <1>4. /\ n \in Role /\ n # Null /\ n.name = req[p].name /\ n.status = "Active"
        /\ n.keys = req[p].keys
    <2>1. "Active" \in Status
      BY DEF Status
    <2>2. n \in Role
      BY <1>2, <2>1 DEF Role
    <2> QED
      BY <2>2, NullAssumption
  <1>5. /\ roles' \in [Roles -> Role \cup {Null}]
        /\ \A s \in Roles : roles'[s] = IF s = r THEN n ELSE roles[s]
        /\ asked' \in [Roles -> SUBSET Keys]
        /\ \A s \in Roles : asked'[s] = IF s = r THEN req[p].keys ELSE asked[s]
    BY <1>1, <1>2, <1>3, <1>4 DEF TypeOK, KeySet
  <1>6. /\ req' \in [Procs -> Request] /\ \A q \in Procs : req'[q] = IF q = p THEN Idle ELSE req[q]
        /\ admins' = admins /\ mixed' = mixed
    BY <1>1, IdleIsNothing DEF Insert, End, Goto, TypeOK
  <1> HIDE DEF n
  <1>7. roles[r] = Null
    BY <1>1, <1>3 DEF Issued
  <1>8. TypeOK'
    <2>1. \A s, t \in Roles : s # t /\ roles'[s] # Null /\ roles'[t] # Null
                                => roles'[s].name # roles'[t].name
      <3>1. \A s \in Roles : roles[s] # Null => roles[s].name # req[p].name
        BY <1>2, NullAssumption DEF Insert, Named
      <3> QED
        BY <1>1, <1>4, <1>5, <3>1 DEF TypeOK
    <2>2. \A a \in Admins : admins'[a] # Null => roles'[admins'[a]] # Null
      BY <1>1, <1>4, <1>5, <1>6 DEF TypeOK
    <2> QED
      BY <1>1, <1>3, <1>5, <1>6, <2>1, <2>2 DEF TypeOK
  <1>9. Issued'
    BY <1>1, <1>3, <1>5, <1>6, IdleIsNothing DEF Issued
  <1>10. KeysAsAsked'
    BY <1>1, <1>4, <1>5, <1>6 DEF KeysAsAsked
  <1>11. DeletesAll'
    <2>1. ASSUME NEW q \in Procs, NEW s \in Roles, Replaces(q, s)', ~req'[q].met, roles'[s] # Null
          PROVE  req'[q].drop = roles'[s].keys
      <3>1. Replaces(q, s) /\ req'[q] = req[q] /\ s \in issued
        BY <1>1, <1>6, <2>1, IdleIsNothing DEF Replaces, Issued
      <3>2. roles'[s] = roles[s]
        BY <1>3, <1>5, <3>1
      <3> QED
        BY <1>1, <2>1, <3>1, <3>2 DEF DeletesAll
    <2> QED
      BY <2>1 DEF DeletesAll
  <1>12. StillActive'
    BY <1>1, <1>4, <1>5, <1>6, <1>7, IdleIsNothing, RequestTypes DEF StillActive
  <1> QED
    BY <1>8, <1>9, <1>10, <1>11, <1>12 DEF RolesInv

\* A committed replace takes away all that was there unless it was overtaken,
\* and the transactions it overtakes lose sight of the links it made.
LEMMA OvertakenKeeps ==
    ASSUME NEW q \in Procs, NEW r \in Roles, NEW K \in SUBSET Keys, TypeOK
    PROVE  /\ Overtaken(q, r, K) \in Request
           /\ Overtaken(q, r, K).pc = req[q].pc
           /\ ~Replaces(q, r) => Overtaken(q, r, K) = req[q]
           /\ Replaces(q, r) => /\ Overtaken(q, r, K).role = r
                                /\ Overtaken(q, r, K).met
  <1>1. CASE Replaces(q, r)
    <2>1. req[q] \in Update /\ req[q].pc = "write" /\ req[q].role = r
      BY <1>1, RequestTypes DEF Replaces
    <2>2. Overtaken(q, r, K) = [req[q] EXCEPT !.drop = req[q].drop \ K, !.met = TRUE]
      BY <1>1 DEF Overtaken
    <2>3. PICK d \in SUBSET Keys : d = req[q].drop \ K
      BY <2>1 DEF Update
    <2>4. /\ Overtaken(q, r, K) \in Update
          /\ Overtaken(q, r, K).pc = "write" /\ Overtaken(q, r, K).role = r
          /\ Overtaken(q, r, K).met
      <3>1. Overtaken(q, r, K) = [req[q] EXCEPT !.drop = d, !.met = TRUE]
        BY <2>2, <2>3
      <3>2. PICK z \in Update : z = req[q]
        BY <2>1
      <3>3. /\ [z EXCEPT !.drop = d, !.met = TRUE] \in Update
            /\ [z EXCEPT !.drop = d, !.met = TRUE].pc = z.pc
            /\ [z EXCEPT !.drop = d, !.met = TRUE].role = z.role
            /\ [z EXCEPT !.drop = d, !.met = TRUE].met
        BY UpdateMeets
      <3> QED
        BY <2>1, <3>1, <3>2, <3>3
    <2> QED
      BY <1>1, <2>1, <2>4 DEF Request
  <1>2. CASE ~Replaces(q, r)
    BY <1>2 DEF Overtaken, TypeOK
  <1> QED
    BY <1>1, <1>2

\* One role is written anew, under a name no other bears; it keeps its status.
LEMMA WrittenTypes ==
    ASSUME TypeOK, NEW r \in Roles, roles[r] # Null, NEW x \in Role,
           roles' = [roles EXCEPT ![r] = x], x.name # roles[r].name => ~Named(x.name, r),
           admins' = admins, issued' = issued, req' \in [Procs -> Request],
           asked' \in [Roles -> SUBSET Keys], mixed' \subseteq Roles
    PROVE  TypeOK' /\ \A s \in Roles : roles'[s] = IF s = r THEN x ELSE roles[s]
  <1>1. /\ roles' \in [Roles -> Role \cup {Null}]
        /\ \A s \in Roles : roles'[s] = IF s = r THEN x ELSE roles[s]
    BY DEF TypeOK
  <1>2. x # Null
    BY NullAssumption
  <1>3. \A s \in Roles : s # r /\ roles[s] # Null => roles[s].name # x.name
    BY DEF TypeOK, Named
  <1>4. \A s, t \in Roles : s # t /\ roles'[s] # Null /\ roles'[t] # Null
                              => roles'[s].name # roles'[t].name
    BY <1>1, <1>3 DEF TypeOK
  <1>5. \A a \in Admins : admins'[a] # Null => roles'[admins'[a]] # Null
    BY <1>1, <1>2 DEF TypeOK
  <1> QED
    BY <1>1, <1>4, <1>5 DEF TypeOK

LEMMA RenamePreserves ==
    ASSUME RolesInv, NEW p \in Procs, Rename(p) PROVE RolesInv'
  <1> DEFINE r == req[p].role
             n == IF req[p].name = Null THEN roles[r].name ELSE req[p].name
             x == [roles[r] EXCEPT !.name = n]
  <1>1. TypeOK /\ Issued /\ KeysAsAsked /\ DeletesAll /\ StillActive
    BY DEF RolesInv
  <1>2. req[p] \in Update /\ r \in Roles /\ roles[r] # Null /\ roles[r] \in Role
    <2>1. req[p] \in Update
      BY <1>1, RequestTypes DEF Rename
    <2> QED
      BY <1>1, <2>1 DEF Rename, Update, TypeOK
  <1>3. n \in Names /\ (n # roles[r].name => ~Named(n, r))
    BY <1>2 DEF Rename, Update, Role
  <1>4. /\ roles' = [roles EXCEPT ![r] = x]
        /\ admins' = admins /\ issued' = issued /\ asked' = asked /\ mixed' = mixed
    BY <1>1, <1>2 DEF Rename, TypeOK
  <1>5. /\ req' \in [Procs -> Request]
        /\ \A q \in Procs : req'[q] = IF q = p THEN Idle ELSE req[q]
    BY <1>1, IdleIsNothing DEF Rename, End, Goto, TypeOK
  <1> HIDE DEF n
  <1>6. /\ x \in Role /\ x.name = n /\ x.keys = roles[r].keys /\ x.status = roles[r].status
    BY <1>2, <1>3 DEF Role
  <1> HIDE DEF x
  <1>7. TypeOK' /\ \A s \in Roles : roles'[s] = IF s = r THEN x ELSE roles[s]
    BY <1>1, <1>2, <1>3, <1>4, <1>5, <1>6, WrittenTypes DEF TypeOK
  <1>8. Issued'
    BY <1>1, <1>2, <1>4, <1>5, <1>7, IdleIsNothing DEF Issued
  <1>9. KeysAsAsked'
    BY <1>1, <1>2, <1>4, <1>6, <1>7 DEF KeysAsAsked
  <1>10. DeletesAll'
    BY <1>1, <1>2, <1>5, <1>6, <1>7, IdleIsNothing DEF DeletesAll, Replaces
  <1>11. StillActive'
    <2>1. ASSUME NEW q \in Procs, req'[q].pc = "hire", ~req'[q].changed, roles'[req'[q].role] # Null
          PROVE  roles'[req'[q].role].status = "Active"
      <3>1. q # p /\ req'[q] = req[q]
        BY <1>5, <2>1, IdleIsNothing
      <3>2. req[q].role \in Roles
        BY <1>1, <2>1, <3>1, RequestTypes
      <3> QED
        BY <1>1, <1>2, <1>6, <1>7, <2>1, <3>1, <3>2 DEF StillActive
    <2> QED
      BY <2>1 DEF StillActive
  <1> QED
    BY <1>7, <1>8, <1>9, <1>10, <1>11 DEF RolesInv

LEMMA WritePreserves ==
    ASSUME RolesInv, NEW p \in Procs, Write(p) PROVE RolesInv'
  <1> DEFINE r == req[p].role
             K == req[p].keys
             n == IF req[p].name = Null THEN roles[r].name ELSE req[p].name
             L == Left(r, req[p].drop) \cup K
             x == [roles[r] EXCEPT !.name = n, !.keys = L]
  <1>1. TypeOK /\ Issued /\ KeysAsAsked /\ DeletesAll /\ StillActive
    BY DEF RolesInv
  <1>2. req[p] \in Update /\ r \in Roles /\ roles[r] # Null /\ roles[r] \in Role
    <2>1. req[p] \in Update
      BY <1>1, RequestTypes DEF Write
    <2> QED
      BY <1>1, <2>1 DEF Write, Update, TypeOK
  <1>3. n \in Names /\ (n # roles[r].name => ~Named(n, r))
    BY <1>2 DEF Write, Update, Role
  <1>4. K \in SUBSET Keys /\ K # {} /\ L \in KeySet
    BY <1>2 DEF Write, Update, Role, KeySet, Left
  <1>5. /\ roles' = [roles EXCEPT ![r] = x]
        /\ asked' = [asked EXCEPT ![r] = K]
        /\ mixed' = IF req[p].met THEN mixed \cup {r} ELSE mixed \ {r}
        /\ admins' = admins /\ issued' = issued
        /\ req' = [q \in Procs |-> IF q = p THEN Idle ELSE Overtaken(q, r, K)]
    BY <1>1, <1>2 DEF Write, TypeOK
  <1>6. ~req[p].met => L = K
    <2>1. Replaces(p, r)
      BY <1>4 DEF Replaces, Write
    <2> QED
      BY <1>1, <1>2, <2>1 DEF DeletesAll, Left
  <1> HIDE DEF n, L
  <1>7. x \in Role /\ x.keys = L /\ x.name = n /\ x.status = roles[r].status
    BY <1>2, <1>3, <1>4 DEF Role
  <1> HIDE DEF x
  <1>8. req' \in [Procs -> Request]
    BY <1>1, <1>2, <1>4, <1>5, OvertakenKeeps, IdleIsNothing
  <1>9. \A q \in Procs : req'[q] = IF q = p THEN Idle ELSE Overtaken(q, r, K)
    BY <1>5
  <1>10. /\ asked' \in [Roles -> SUBSET Keys] /\ mixed' \subseteq Roles
         /\ \A s \in Roles : asked'[s] = IF s = r THEN K ELSE asked[s]
    BY <1>1, <1>2, <1>4, <1>5 DEF TypeOK
  <1>11. TypeOK' /\ \A s \in Roles : roles'[s] = IF s = r THEN x ELSE roles[s]
    <2>1. /\ roles' = [roles EXCEPT ![r] = x] /\ admins' = admins /\ issued' = issued
          /\ x.name # roles[r].name => ~Named(x.name, r)
      BY <1>3, <1>5, <1>7
    <2> QED
      BY <1>1, <1>2, <1>7, <1>8, <1>10, <2>1, WrittenTypes
  <1>12. ASSUME NEW q \in Procs, q # p
         PROVE  /\ req'[q].pc = req[q].pc
                /\ ~Replaces(q, r) => req'[q] = req[q]
                /\ Replaces(q, r) => req'[q].role = r /\ req'[q].met
    <2>1. req'[q] = Overtaken(q, r, K)
      BY <1>9, <1>12
    <2> HIDE DEF r, K
    <2> QED
      BY <1>1, <1>2, <1>4, <2>1, OvertakenKeeps
  <1>13. Issued'
    <2>1. ASSUME NEW q \in Procs, req'[q].pc \in {"name", "delete", "write"}
          PROVE  req'[q].role \in issued
      <3>1. q # p
        BY <1>9, <2>1, IdleIsNothing
      <3> QED
        BY <1>1, <1>2, <1>12, <2>1, <3>1 DEF Issued
    <2> QED
      BY <1>1, <1>2, <1>5, <1>11, <2>1 DEF Issued
  <1>14. KeysAsAsked'
    <2>1. ASSUME NEW s \in Roles, roles'[s] # Null, s \notin mixed' PROVE roles'[s].keys = asked'[s]
      <3>1. CASE s = r
        BY <1>5, <1>6, <1>7, <1>10, <1>11, <2>1, <3>1
      <3>2. CASE s # r
        BY <1>1, <1>5, <1>10, <1>11, <2>1, <3>2 DEF KeysAsAsked
      <3> QED
        BY <3>1, <3>2
    <2> QED
      BY <2>1 DEF KeysAsAsked
  <1>15. DeletesAll'
    <2>1. ASSUME NEW q \in Procs, NEW s \in Roles, Replaces(q, s)', ~req'[q].met, roles'[s] # Null
          PROVE  req'[q].drop = roles'[s].keys
      <3>1. q # p
        BY <1>9, <2>1, IdleIsNothing DEF Replaces
      <3>2. ~Replaces(q, r) /\ req'[q] = req[q]
        BY <1>12, <2>1, <3>1
      <3>3. Replaces(q, s) /\ s # r /\ roles'[s] = roles[s]
        BY <1>11, <2>1, <3>2 DEF Replaces
      <3> QED
        BY <1>1, <2>1, <3>2, <3>3 DEF DeletesAll
    <2> QED
      BY <2>1 DEF DeletesAll
  <1>16. StillActive'
    <2>1. ASSUME NEW q \in Procs, req'[q].pc = "hire", ~req'[q].changed, roles'[req'[q].role] # Null
          PROVE  roles'[req'[q].role].status = "Active"
      <3>1. q # p /\ req'[q] = req[q]
        BY <1>9, <1>12, <2>1, IdleIsNothing DEF Replaces
      <3>2. req[q].role \in Roles
        BY <1>1, <2>1, <3>1, RequestTypes
      <3> QED
        BY <1>1, <1>2, <1>7, <1>11, <2>1, <3>1, <3>2 DEF StillActive
    <2> QED
      BY <2>1 DEF StillActive
  <1> QED
    BY <1>11, <1>13, <1>14, <1>15, <1>16 DEF RolesInv

\* A switch is noticed by every create-user that has checked the role.
LEMMA SetStatusPreserves ==
    ASSUME RolesInv, NEW p \in Procs, SetStatus(p) PROVE RolesInv'
  <1> DEFINE r == req[p].role
             v == req[p].status
             x == [roles[r] EXCEPT !.status = v]
             Told(q) == [req[q] EXCEPT !.changed = TRUE]
  <1>1. TypeOK /\ Issued /\ KeysAsAsked /\ DeletesAll /\ StillActive
    BY DEF RolesInv
  <1>2. r \in Roles /\ v \in Status /\ roles[r] # Null /\ roles[r] \in Role
    BY <1>1, RequestTypes DEF SetStatus, TypeOK
  <1>3. /\ roles' = [roles EXCEPT ![r] = x]
        /\ admins' = admins /\ issued' = issued /\ asked' = asked /\ mixed' = mixed
    BY <1>1, <1>2 DEF SetStatus, TypeOK
  <1>4. \A q \in Procs : req'[q] = IF q = p THEN Idle
                                   ELSE IF req[q].pc = "hire" /\ req[q].role = r THEN Told(q)
                                   ELSE req[q]
    BY DEF SetStatus
  <1>5. ASSUME NEW q \in Procs, req[q].pc = "hire"
        PROVE  Told(q) \in Request /\ Told(q).pc = "hire" /\ Told(q).changed
    BY <1>1, <1>5, RequestTypes DEF Request
  <1>6. req' \in [Procs -> Request]
    <2>1. \A q \in Procs : req'[q] \in Request
      BY <1>1, <1>4, <1>5, IdleIsNothing DEF TypeOK
    <2> QED
      BY <2>1 DEF SetStatus
  <1>7. x \in Role /\ x.name = roles[r].name /\ x.keys = roles[r].keys
    BY <1>2 DEF Role
  <1> HIDE DEF x, Told
  <1>8. TypeOK' /\ \A s \in Roles : roles'[s] = IF s = r THEN x ELSE roles[s]
    BY <1>1, <1>2, <1>3, <1>6, <1>7, WrittenTypes DEF TypeOK
  <1>9. \A q \in Procs : \/ req'[q].pc = "idle"
                         \/ req'[q].pc = "hire" /\ req'[q].changed
                         \/ req'[q] = req[q] /\ ~(req[q].pc = "hire" /\ req[q].role = r)
    BY <1>4, <1>5, IdleIsNothing
  <1>10. Issued'
    BY <1>1, <1>2, <1>3, <1>8, <1>9 DEF Issued
  <1>11. KeysAsAsked'
    BY <1>1, <1>2, <1>3, <1>7, <1>8 DEF KeysAsAsked
  <1>12. DeletesAll'
    <2>1. ASSUME NEW q \in Procs, NEW s \in Roles, Replaces(q, s)', ~req'[q].met, roles'[s] # Null
          PROVE  req'[q].drop = roles'[s].keys
      <3>1. req'[q] = req[q] /\ Replaces(q, s)
        BY <1>9, <2>1 DEF Replaces
      <3>2. roles[s] # Null /\ roles'[s].keys = roles[s].keys
        BY <1>2, <1>7, <1>8, <2>1
      <3> QED
        BY <1>1, <2>1, <3>1, <3>2 DEF DeletesAll
    <2> QED
      BY <2>1 DEF DeletesAll
  <1>13. StillActive'
    <2>1. ASSUME NEW q \in Procs, req'[q].pc = "hire", ~req'[q].changed, roles'[req'[q].role] # Null
          PROVE  roles'[req'[q].role].status = "Active"
      <3>1. req'[q] = req[q] /\ req[q].role # r
        BY <1>9, <2>1
      <3>2. req[q].role \in Roles
        BY <1>1, <2>1, <3>1, RequestTypes
      <3> QED
        BY <1>1, <1>8, <2>1, <3>1, <3>2 DEF StillActive
    <2> QED
      BY <2>1 DEF StillActive
  <1> QED
    BY <1>8, <1>10, <1>11, <1>12, <1>13 DEF RolesInv

\* The foreign key keeps a role that somebody has.
LEMMA RemoveWritePreserves ==
    ASSUME RolesInv, NEW p \in Procs, RemoveWrite(p) PROVE RolesInv'
  <1> DEFINE r == req[p].role
  <1>1. TypeOK /\ Issued /\ KeysAsAsked /\ DeletesAll /\ StillActive
    BY DEF RolesInv
  <1>2. r \in Roles /\ Unreferenced(r)
    BY <1>1, RequestTypes DEF RemoveWrite
  <1>3. /\ roles' = [roles EXCEPT ![r] = Null] /\ asked' = [asked EXCEPT ![r] = {}]
        /\ mixed' = mixed \ {r} /\ admins' = admins /\ issued' = issued
    BY DEF RemoveWrite
  <1>4. /\ req' \in [Procs -> Request]
        /\ \A q \in Procs : req'[q] = IF q = p THEN Idle ELSE req[q]
    BY <1>1, IdleIsNothing DEF RemoveWrite, End, Goto, TypeOK
  <1>5. /\ roles' \in [Roles -> Role \cup {Null}]
        /\ \A s \in Roles : roles'[s] = IF s = r THEN Null ELSE roles[s]
        /\ asked' \in [Roles -> SUBSET Keys]
        /\ \A s \in Roles : s # r => asked'[s] = asked[s]
    BY <1>1, <1>2, <1>3 DEF TypeOK
  <1>6. TypeOK'
    <2>1. \A a \in Admins : admins'[a] # Null => roles'[admins'[a]] # Null
      BY <1>1, <1>2, <1>3, <1>5 DEF TypeOK, Unreferenced
    <2> QED
      BY <1>1, <1>3, <1>4, <1>5, <2>1 DEF TypeOK
  <1>7. Issued' /\ KeysAsAsked'
    BY <1>1, <1>3, <1>4, <1>5, IdleIsNothing DEF Issued, KeysAsAsked
  <1>8. DeletesAll'
    BY <1>1, <1>4, <1>5, IdleIsNothing DEF DeletesAll, Replaces
  <1>9. StillActive'
    <2>1. ASSUME NEW q \in Procs, req'[q].pc = "hire", ~req'[q].changed, roles'[req'[q].role] # Null
          PROVE  roles'[req'[q].role].status = "Active"
      <3>1. req'[q] = req[q]
        BY <1>4, <2>1, IdleIsNothing
      <3>2. req[q].role \in Roles
        BY <1>1, <2>1, <3>1, RequestTypes
      <3> QED
        BY <1>1, <1>5, <2>1, <3>1, <3>2 DEF StillActive
    <2> QED
      BY <2>1 DEF StillActive
  <1> QED
    BY <1>6, <1>7, <1>8, <1>9 DEF RolesInv

LEMMA HirePreserves ==
    ASSUME RolesInv, NEW p \in Procs, Hire(p) PROVE RolesInv'
  <1>1. TypeOK /\ Issued /\ KeysAsAsked /\ DeletesAll /\ StillActive
    BY DEF RolesInv
  <1>2. req[p].admin \in Admins /\ req[p].role \in Roles /\ roles[req[p].role] # Null
    BY <1>1, RequestTypes DEF Hire
  <1>3. /\ admins' = [admins EXCEPT ![req[p].admin] = req[p].role]
        /\ roles' = roles /\ issued' = issued /\ asked' = asked /\ mixed' = mixed
    BY DEF Hire
  <1>4. /\ req' \in [Procs -> Request]
        /\ \A q \in Procs : req'[q] = IF q = p THEN Idle ELSE req[q]
    BY <1>1, IdleIsNothing DEF Hire, End, Goto, TypeOK
  <1>5. TypeOK'
    BY <1>1, <1>2, <1>3, <1>4 DEF TypeOK
  <1>6. Issued' /\ KeysAsAsked' /\ DeletesAll'
    BY <1>1, <1>3, <1>4, IdleIsNothing DEF Issued, KeysAsAsked, DeletesAll, Replaces
  <1>7. StillActive'
    BY <1>1, <1>3, <1>4, IdleIsNothing DEF StillActive
  <1> QED
    BY <1>5, <1>6, <1>7 DEF RolesInv

LEMMA InitRoles == Init => RolesInv
  <1> SUFFICES ASSUME Init PROVE RolesInv
    OBVIOUS
  <1>1. TypeOK
    <2>1. \A r \in Roles : Seeds[r] # Null => Seeds[r].keys \in SUBSET Keys
      BY SeedsAssumption DEF Role, KeySet
    <2>2. asked \in [Roles -> SUBSET Keys]
      BY <2>1 DEF Init
    <2> QED
      BY <2>2, SeedsAssumption, StaffAssumption, IdleIsNothing DEF Init, TypeOK
  <1>2. Issued /\ KeysAsAsked
    BY IdleIsNothing DEF Init, Issued, KeysAsAsked
  <1>3. DeletesAll /\ StillActive
    BY IdleIsNothing DEF Init, DeletesAll, Replaces, StillActive
  <1> QED
    BY <1>1, <1>2, <1>3 DEF RolesInv

LEMMA NextRoles == RolesInv /\ [Next]_vars => RolesInv'
  <1> SUFFICES ASSUME RolesInv, [Next]_vars PROVE RolesInv'
    OBVIOUS
  <1>1. ASSUME NEW p \in Procs, Create(p) \/ Insert(p) PROVE RolesInv'
    BY <1>1, CreatePreserves, InsertPreserves
  <1>2. ASSUME NEW p \in Procs, Begin(p) \/ CheckName(p) \/ Delete(p) PROVE RolesInv'
    BY <1>2, BeginPreserves, CheckNamePreserves, DeletePreserves
  <1>3. ASSUME NEW p \in Procs, Rename(p) \/ Write(p) PROVE RolesInv'
    BY <1>3, RenamePreserves, WritePreserves
  <1>4. ASSUME NEW p \in Procs, Switch(p) \/ SetStatus(p) PROVE RolesInv'
    BY <1>4, SwitchPreserves, SetStatusPreserves
  <1>5. ASSUME NEW p \in Procs, Remove(p) \/ RemoveCount(p) \/ RemoveWrite(p) PROVE RolesInv'
    BY <1>5, RemovePreserves, RemoveCountPreserves, RemoveWritePreserves
  <1>6. ASSUME NEW p \in Procs, CheckRole(p) \/ Hire(p) \/ Crash(p) PROVE RolesInv'
    BY <1>6, CheckRolePreserves, HirePreserves, CrashPreserves
  <1>7. CASE UNCHANGED vars
    BY <1>7 DEF vars, RolesInv, TypeOK, Issued, KeysAsAsked, DeletesAll, Replaces, StillActive
  <1> QED
    BY <1>1, <1>2, <1>3, <1>4, <1>5, <1>6, <1>7 DEF Next

\* The inductive invariant holds of every behaviour.
THEOREM RolesInvariant == Spec => []RolesInv
  BY InitRoles, NextRoles, PTL DEF Spec

\* Type correctness, with distinct names and administrators whose role exists.
THEOREM TypeCorrect == Spec => []TypeOK
  <1>1. RolesInv => TypeOK
    BY DEF RolesInv
  <1> QED
    BY RolesInvariant, <1>1, PTL

\* A role carries what was last asked for, unless two replaces met.
THEOREM KeysAreAsAsked == Spec => []KeysAsAsked
  <1>1. RolesInv => KeysAsAsked
    BY DEF RolesInv
  <1> QED
    BY RolesInvariant, <1>1, PTL

\* Whoever is given a role while it is not active was checked before a switch.
LEMMA HiredActive ==
    ASSUME RolesInv, [Next]_vars, NEW a \in Admins, admins[a] = Null, admins'[a] # Null
    PROVE  \/ roles[admins'[a]].status = "Active"
           \/ \E p \in Procs : req[p].pc = "hire" /\ req[p].admin = a /\ req[p].changed
  <1>1. PICK p \in Procs : Hire(p)
    BY DEF Next, vars, Unchanged, Create, Insert, Begin, CheckName, Delete, Rename, Write, Switch,
           SetStatus, Remove, RemoveCount, RemoveWrite, CheckRole, Crash
  <1>2. TypeOK /\ StillActive
    BY DEF RolesInv
  <1>3. /\ req[p].pc = "hire" /\ req[p].admin \in Admins /\ roles[req[p].role] # Null
        /\ admins' = [admins EXCEPT ![req[p].admin] = req[p].role]
    BY <1>1, <1>2, RequestTypes DEF Hire
  <1>4. req[p].admin = a /\ admins'[a] = req[p].role
    BY <1>2, <1>3 DEF TypeOK
  <1> QED
    BY <1>2, <1>3, <1>4 DEF StillActive

\* No interleaving gives out an inactive role unless it was switched meanwhile.
THEOREM ActiveRolesAreGiven == Spec => ActiveRoleGiven
  <1>1. RolesInv /\ [Next]_vars => [Given]_vars
    BY HiredActive DEF Given
  <1>2. [][Given]_vars => ActiveRoleGiven
    BY DEF ActiveRoleGiven
  <1> QED
    BY RolesInvariant, <1>1, <1>2, PTL DEF Spec
=============================================================================
