------------------------------- MODULE Accounts -------------------------------
(***************************************************************************)
(* The accounts of users: registration, profile, profile image and         *)
(* password (UsersService, and AuthService as far as it calls it).  The    *)
(* handlers of AdminService for an administrator's own profile, image and  *)
(* password have the same shape and work on tables of their own.  Every    *)
(* handler reads, awaits and writes; only the image and the update by an   *)
(* administrator run in a transaction, and files are in none.              *)
(*                                                                         *)
(* What a code is worth is OtpService's affair (see Otp): here a verdict   *)
(* is any BOOLEAN.                                                         *)
(***************************************************************************)
EXTENDS RequestSlots

CONSTANTS
    Users,      \* ids of accounts
    Addresses,  \* e-mail addresses and user names, in lower case, and numbers
    Contacts,   \* the contacts that requests come with
    Passwords,  \* passwords; the salt and the hash tell them apart
    Images,     \* the file names that uploads are given
    Uploader,   \* the account that uploads each
    None        \* SQL null, and what a request does not name

\* What is unique.
Kinds == {"email", "username", "mobile"}

Contact == [Kinds -> Addresses \cup {None}]

ASSUME ContactsAssumption == Contacts \subseteq Contact
ASSUME UploaderAssumption == Uploader \in [Images -> Users]
ASSUME NoneAssumption ==
    None \notin Users \cup Addresses \cup Passwords \cup Images

VARIABLES
    users,      \* table user with user_meta, by id
    files,      \* where each image is
    hurt        \* history: accounts whose image was removed by an update that
                \* has not committed, and none has since

accountsVars == <<users, files, req, hurt>>

User ==
    [contact : Contact, password : Passwords, image : Images \cup {None}]

ASSUME NoneIsNoRow == None \notin User

\* A claim is a registration (user = None) or an update of the contact, by an
\* administrator perhaps with a new password; left is what is yet to be
\* checked.  A reset's left are the addresses yet to be looked up or verified;
\* it has missed if the first of two was nobody's.
AccountsRequest ==
    {Idle}
    \cup [pc : {"claim"}, user : Users \cup {None}, contact : Contact,
          password : Passwords \cup {None}, left : SUBSET Kinds]
    \cup [pc : {"change"}, user : Users, old : Passwords, new : Passwords,
          stale : BOOLEAN]
    \cup [pc : {"find", "verify", "reset"}, user : Users \cup {None}, contact : Contact,
          new : Passwords, left : SUBSET {"email", "mobile"}, missed : BOOLEAN,
          stale : BOOLEAN]
    \cup [pc : {"image", "remove", "move", "commit"}, user : Users, image : Images,
          old : Images \cup {None}]

\* No two accounts share an e-mail address, a user name or a number.
AccountsTypeOK ==
    /\ users \in [Users -> User \cup {None}]
    /\ files \in [Images -> {"none", "uploads", "profile", "removed"}]
    /\ req \in [Procs -> AccountsRequest]
    /\ hurt \subseteq Users
    /\ \A u, v \in Users : u # v /\ users[u] # None /\ users[v] # None =>
          \A k \in Kinds :
             users[u].contact[k] # None => users[u].contact[k] # users[v].contact[k]

AccountsInit ==
    /\ users = [u \in Users |-> None]
    /\ files = [i \in Images |-> "none"]
    /\ req = [p \in Procs |-> Idle]
    /\ hurt = {}

-----------------------------------------------------------------------------

Exists(u) == users[u] # None

\* The request ends, whether it fails or answers.
End(p) == Goto(p, Idle)

Unchanged == UNCHANGED <<users, files, hurt>>

\* What the contact c names.
Given(c) == {k \in Kinds : c[k] # None}

\* E-mail address, user name, number: the order in which they are looked at.
First(ks) ==
    IF "email" \in ks THEN "email" ELSE IF "username" \in ks THEN "username" ELSE "mobile"

\* Some account other than u has the address.
Taken(k, address, u) ==
    \E v \in Users \ {u} : Exists(v) /\ users[v].contact[k] = address

\* Mutant: the columns have no unique index.
NoClash(c, u) == FALSE

\* The unique indexes refuse the contact.
Clash(c, u) == \E k \in Given(c) : Taken(k, c[k], u)

\* The account has the address in its contact.
Has(u, k, address) == users[u].contact[k] = address

\* A transaction of updateProfileImage has written the row and not ended.
Holds(r, u) == r.pc \in {"remove", "move", "commit"} /\ r.user = u

Locked(u) == \E q \in Procs : Holds(req[q], u)

-----------------------------------------------------------------------------
(* registerUser, updateProfileDetails and the update by an administrator *)

Claim(p, u, c, password) ==
    Goto(p, [pc |-> "claim", user |-> u, contact |-> c, password |-> password,
             left |-> Given(c)])

\* Both codes are right: a registration names an e-mail address, a country and
\* perhaps a number.
Register(p) ==
    /\ req[p] = Idle
    /\ \E c \in Contacts, password \in Passwords :
        /\ c["email"] # None /\ c["username"] = None
        /\ Claim(p, None, c, password)
    /\ Unchanged

UpdateProfileDetails(p) ==
    /\ req[p] = Idle
    /\ \E u \in Users, c \in Contacts : Exists(u) /\ Claim(p, u, c, None)
    /\ Unchanged

UpdateByAdministrator(p) ==
    /\ req[p] = Idle
    /\ \E u \in Users, c \in Contacts, password \in Passwords :
          Exists(u) /\ Claim(p, u, c, password)
    /\ Unchanged

\* isEmailExist, isUsernameExist, isMobileExist.
CheckTaken(p) ==
    /\ req[p].pc = "claim"
    /\ req[p].left # {}
    /\ LET k == First(req[p].left)
       IN /\ ~Taken(k, req[p].contact[k], req[p].user)
          /\ Goto(p, [req[p] EXCEPT !.left = @ \ {k}])
    /\ Unchanged

InsertUser(p) ==
    /\ req[p].pc = "claim"
    /\ req[p].left = {}
    /\ req[p].user = None
    /\ ~Clash(req[p].contact, None)
    /\ \E u \in Users :
        /\ ~Exists(u)
        /\ users' = [users EXCEPT ![u] = [contact |-> req[p].contact,
                                          password |-> req[p].password, image |-> None]]
    /\ End(p)
    /\ UNCHANGED <<files, hurt>>

\* What of a contact is given replaces what was there.
Updated(old, c) == [k \in Kinds |-> IF c[k] = None THEN old[k] ELSE c[k]]

\* The requests that decide on the password, and on the contact, they have read.
PasswordReaders == {"change"}
ContactReaders == {"verify", "reset"}

\* p has written u: what the others in pcs have read of u is stale.
Overtake(p, u, pcs) ==
    req' = [q \in Procs |->
              IF q = p THEN Idle
              ELSE IF req[q].pc \in pcs /\ req[q].user = u
              THEN [req[q] EXCEPT !.stale = TRUE]
              ELSE req[q]]

\* The update of the row waits for a transaction that has written it.
UpdateUser(p) ==
    /\ req[p].pc = "claim"
    /\ req[p].left = {}
    /\ req[p].user # None
    /\ LET u == req[p].user
           password == req[p].password
       IN /\ ~Locked(u)
          /\ ~Clash(req[p].contact, u)
          /\ users' = [users EXCEPT ![u].contact = Updated(@, req[p].contact),
                                    ![u].password = IF password = None THEN @ ELSE password]
          /\ Overtake(p, u, ContactReaders \cup IF password = None THEN {} ELSE PasswordReaders)
    /\ UNCHANGED <<files, hurt>>

-----------------------------------------------------------------------------
(* changePassword *)

\* Mutant: any old password will do.
AnyPassword(u, old) == TRUE

Matches(u, old) == users[u].password = old

ChangePassword(p) ==
    /\ req[p] = Idle
    /\ \E u \in Users, old, new \in Passwords :
        /\ Exists(u)
        /\ old # new
        /\ Matches(u, old)
        /\ Goto(p, [pc |-> "change", user |-> u, old |-> old, new |-> new, stale |-> FALSE])
    /\ Unchanged

SetPassword(p) ==
    /\ req[p].pc \in {"change", "reset"}
    /\ users' = [users EXCEPT ![req[p].user].password = req[p].new]
    /\ Overtake(p, req[p].user, PasswordReaders)
    /\ UNCHANGED <<files, hurt>>

-----------------------------------------------------------------------------
(* resetPassword *)

Reset(p) ==
    /\ req[p] = Idle
    /\ \E c \in Contacts, new \in Passwords :
        /\ c["username"] = None
        /\ Given(c) # {}
        /\ Goto(p, [pc |-> "find", user |-> None, contact |-> c, new |-> new,
                    left |-> Given(c), missed |-> FALSE, stale |-> FALSE])
    /\ Unchanged

\* The account is looked for by e-mail address, and by number if nobody has it.
Find(p) ==
    /\ req[p].pc = "find"
    /\ LET c == req[p].contact
           k == First(req[p].left)
           rest == req[p].left \ {k}
       IN \/ \E u \in Users :
              /\ Exists(u) /\ Has(u, k, c[k])
              /\ Goto(p, [req[p] EXCEPT !.pc = "verify", !.user = u,
                                        !.left = Given(c)])
          \/ /\ ~Taken(k, c[k], None)
             /\ rest # {}
             /\ Goto(p, [req[p] EXCEPT !.left = rest, !.missed = TRUE])
    /\ Unchanged

\* The number's verdict, if there is one, gives way to the e-mail address's;
\* the last one was "right" if the request goes on.
Verify(p) ==
    /\ req[p].pc = "verify"
    /\ LET rest == req[p].left \ {IF "mobile" \in req[p].left THEN "mobile" ELSE "email"}
       IN Goto(p, [req[p] EXCEPT !.pc = IF rest = {} THEN "reset" ELSE "verify",
                                 !.left = rest])
    /\ Unchanged

-----------------------------------------------------------------------------
(* updateProfileImage *)

\* The upload's name is new.
Upload(i) ==
    /\ Exists(Uploader[i])
    /\ files[i] = "none"
    /\ files' = [files EXCEPT ![i] = "uploads"]
    /\ UNCHANGED <<users, req, hurt>>

\* The request may be a repeated one.
UpdateProfileImage(p) ==
    /\ req[p] = Idle
    /\ \E i \in Images :
        /\ files[i] # "none"
        /\ Goto(p, [pc |-> "image", user |-> Uploader[i], image |-> i,
                    old |-> users[Uploader[i]].image])
    /\ Unchanged

\* Others see the row once the transaction commits, and wait for it before
\* they write it.
WriteImage(p) ==
    /\ req[p].pc = "image"
    /\ ~Locked(req[p].user)
    /\ Goto(p, [req[p] EXCEPT !.pc = "remove"])
    /\ Unchanged

\* The old image need not be there.
RemoveImage(p) ==
    /\ req[p].pc = "remove"
    /\ LET u == req[p].user
           old == req[p].old
       IN /\ files' = [i \in Images |-> IF i = old /\ files[i] = "profile"
                                        THEN "removed" ELSE files[i]]
          /\ hurt' = IF old # None /\ old = users[u].image THEN hurt \cup {u} ELSE hurt
    /\ Goto(p, [req[p] EXCEPT !.pc = "move"])
    /\ UNCHANGED users

\* Mutant: an image that is gone does not stop the update.
MovableAlways(i) == TRUE

\* move accepts an image that has been moved, but its rename does not.
Movable(i) == files[i] = "uploads"

MoveImage(p) ==
    /\ req[p].pc = "move"
    /\ Movable(req[p].image)
    /\ files' = [files EXCEPT ![req[p].image] = IF @ = "uploads" THEN "profile" ELSE @]
    /\ Goto(p, [req[p] EXCEPT !.pc = "commit"])
    /\ UNCHANGED <<users, hurt>>

CommitImage(p) ==
    /\ req[p].pc = "commit"
    /\ users' = [users EXCEPT ![req[p].user].image = req[p].image]
    /\ hurt' = hurt \ {req[p].user}
    /\ End(p)
    /\ UNCHANGED files

-----------------------------------------------------------------------------

\* A check or an index refuses, a code is wrong, a call fails, the transaction
\* takes too long or the worker dies: its row is rolled back, its files stay.
Fail(p) ==
    /\ req[p] # Idle
    /\ End(p)
    /\ Unchanged

AccountsNext ==
    \/ \E p \in Procs :
        \/ Register(p) \/ UpdateProfileDetails(p) \/ UpdateByAdministrator(p)
        \/ CheckTaken(p) \/ InsertUser(p) \/ UpdateUser(p)
        \/ ChangePassword(p) \/ SetPassword(p)
        \/ Reset(p) \/ Find(p) \/ Verify(p)
        \/ UpdateProfileImage(p) \/ WriteImage(p) \/ RemoveImage(p)
        \/ MoveImage(p) \/ CommitImage(p)
        \/ Fail(p)
    \/ \E i \in Images : Upload(i)

AccountsSpec == AccountsInit /\ [][AccountsNext]_accountsVars

-----------------------------------------------------------------------------

\* The image of an account is in the directory of profile images, unless an
\* update has removed it and then failed, or is still at work.
ImageKept ==
    \A u \in Users : Exists(u) /\ users[u].image # None /\ u \notin hurt
                        => files[users[u].image] = "profile"

\* The account has the address whose verdict counts in a reset with contact c:
\* the e-mail address's, if one is given.
Answers(c, u) == Has(u, First(Given(c)), c[First(Given(c))])

Entitled(p, u) ==
    \/ req[p].pc = "claim" /\ req[p].password # None
    \/ req[p].pc = "change" /\ (req[p].stale \/ users[u].password = req[p].old)
    \/ req[p].pc = "reset" /\ (req[p].stale \/ req[p].missed \/ Answers(req[p].contact, u))

PasswordGiven ==
    \A u \in Users : Exists(u) /\ users'[u].password # users[u].password =>
        \E p \in Procs : req[p].pc # "idle" /\ req[p].user = u /\ req'[p] = Idle /\ Entitled(p, u)

\* A password changes only on the word of somebody who still has a say when it
\* is written: one that knew the password it replaces, or answered the code that
\* was sent to an address the account has, unless the account was written in
\* between; or an administrator.  (A reset that has missed found the account by
\* its number and counts the verdict of an e-mail address nobody had.)
PasswordHandedOn == [][PasswordGiven]_accountsVars

-----------------------------------------------------------------------------
(* The inductive invariant: the above, and what requests in flight rely on *)

\* Images are uploaded by accounts, and an account shows one of its own.
ImagesOwned ==
    /\ \A i \in Images : files[i] # "none" => Exists(Uploader[i])
    /\ \A u \in Users : Exists(u) /\ users[u].image # None => Uploader[users[u].image] = u

\* Two updates of one account's image never hold its row together.
OneHolder ==
    \A p, q \in Procs, u \in Users : Holds(req[p], u) /\ Holds(req[q], u) => p = q

\* Whom a request is about, and what it is yet to look up, is there.
Founded(r) ==
    /\ r.pc \notin {"idle", "find"} =>
           (r.pc = "claim" /\ r.user = None) \/ (r.user \in Users /\ Exists(r.user))
    /\ r.pc = "claim" /\ r.user = None => r.password # None
    /\ r.pc = "find" => /\ r.left # {} /\ r.left \subseteq Given(r.contact)
                        /\ r.missed \/ r.left = Given(r.contact)
                        /\ Given(r.contact) \subseteq {"email", "mobile"}

\* The images a request works on are its account's, and the one it is to
\* commit has been moved.
ImagesAtHand(r) ==
    r.pc \in {"image", "remove", "move", "commit"} =>
        /\ Uploader[r.image] = r.user
        /\ r.old # None => Uploader[r.old] = r.user
        /\ r.pc = "commit" => files[r.image] = "profile"

\* What gave a request its say still does, unless the account was written.
SayKept(r) ==
    /\ r.pc = "change" => r.stale \/ Matches(r.user, r.old)
    /\ r.pc \in {"verify", "reset"} =>
           r.stale \/ r.missed \/ Answers(r.contact, r.user)

AccountsInv ==
    /\ AccountsTypeOK
    /\ ImageKept
    /\ ImagesOwned
    /\ OneHolder
    /\ \A p \in Procs : Founded(req[p]) /\ ImagesAtHand(req[p]) /\ SayKept(req[p])
=============================================================================
