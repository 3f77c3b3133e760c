# Verification of the Jagrut Malwa server

The server distributes a newspaper: issues are published, their copies travel
down a geographic hierarchy of six levels (Prant, Vibhag, Jila, Khand, Mandal,
Gram), and people hold designations at its nodes. It is a NestJS application
over PostgreSQL (through Prisma) and Redis. This directory holds TLA+ models of
its core services, the TLC runs that check them and proofs that TLAPS checks.

Run `tlc -workers 2 -config X.cfg M` for a run of `PROJECT.json`, `tlapm
M.tla` for a proof module.

## How the code behaves, and how the models say it

A request handler is a sequence of awaited queries. It reads, checks what it
has read, and ends in an unconditional write by id. Nothing is locked: at every
`await` another request of the same worker, or of another worker of the cluster
(`main.ts`, 127-169), can run. Only the database's own rules (foreign keys,
unique indexes, the few `updateMany` with a condition, the few transactions)
hold across requests. PostgreSQL runs at Read Committed, so one statement sees
what is committed, and a later one of the same request may see something else.
There are practically no tests, and none of two overlapping requests.

The models follow this shape:

- `Procs` are request slots. A slot carries one request at a time; `req[p]` is
  what the handler knows between two queries (its local variables) and `pc`
  names the query that comes next. One slot: requests run one after the other.
  Two slots: they overlap.
- One action per query. The first query of a handler is the action named after
  it; a check that rejects either disables that action (first query: nothing
  has happened) or sends the slot back to `Idle` (later ones).
- A transaction that only writes is one action; one that touches the disk
  between its statements (`PublishIssuesService.delete`) is several, with the
  row locked until the commit.
- Variables whose comment says *history* exist for the properties only. They
  record what overlapped (`contended`), was disturbed by a status change
  (`disturbed`), failed or overlapped (`troubled`), so that what the code
  guarantees without overlap can be stated in a run where overlaps occur. What
  such a property leaves out it says nothing about: the note of a hazard in
  `PROJECT.json` tells when the code does go wrong there.
- Constants called `Max...` bound what TLC enumerates; they are guards of the
  actions that insert. A definition called a *mutant* is not part of the
  specification: it is a plausible bug that the property it is written for must
  catch (`PROJECT.json`, "mutants").

## Components

| Component | State | Operations | Hard part | Correct means | Model |
|---|---|---|---|---|---|
| Dispatches (`dispatches/`) | `dispatch_entry` rows: route, quantity, receipt, status | create, forward, setInTransit, receive, cancel, complete, update | up to five awaited queries before a write; stale status written back | copies come from somebody who has them; receipts agree with statuses and stay; received is never cancelled | `Dispatches`, `CustodyLedger`, `HierarchyTree` |
| Publish issues (`publish-issues/`) with file storage (`common/providers/storage.service.ts`) | `publish_issue` rows, the directory `issues/` | create, update, delete | database and disk share no transaction; unlinks fail; lifecycle decided on a stale row | referenced files exist; publishing is one way; published issues are frozen; dispatched issues stay | `PublishIssues` |
| Hierarchy (`hierarchy/`) | `hierarchy_node` rows | create, update, setStatus, remove | counts before a delete, checks before an insert; the unique index does not bind roots and minds case | a levelled tree with one root, distinct siblings, no dangling reference | `Hierarchy` |
| Designations and assignments (`designations/`, `admin.service.ts` create) | `hierarchy_designation`, `user_hierarchy_designation` | create, setStatus, remove; assignUser, reassign, unassign; create-user | four checks before an insert, no unique index; a handover in a transaction; unawaited validation | one successor per position, history kept, levels match, only active ones assigned | `Assignments` |
| One-time passwords (`otp/`) | one `otp` row per target: code, attempt, retries, blocked, verified | send, verify | read-modify-write counters, three timers on one timestamp | counters within their limits and true; a block lasts as long as it should and then ends | `Otp` |
| Guards (`common/guards/`, `app-cache.interceptor.ts`, `app.module.ts`) with setStatus of users and administrators | in each worker's memory: who is active, what a role grants, what a page answered | a miss reads and stores; setStatus clears and writes; entries age, workers die | every worker has its own cache; cleared before the database write; filled after a stale read; roles clear nothing | a wrong entry lives for a bounded time; a blocked account loses access | `Access` |
| Roles (`roles/`, `admin.service.ts` create) | `role`, `role_privilege`, the role of each `admin` | createRole, updateRole, setStatus, deleteRole; create-user | count before delete; keys replaced by two statements; role checked long before it is given | an administrator keeps its role, a role has the keys last asked for, only active roles are given | `Roles` |
| Consumers (`consumers/`) | `consumer` rows with four node ids | create, update, setStatus | partial updates validated against what was read | the four nodes are a chain; numbers are distinct | `Consumers` |
| Users (`users/`), with registration and reset (`auth/`) and an administrator's own profile (`admin.service.ts`) | `user`, `user_meta`, uploads and profile images | registerUser, updateProfileDetails (also by an administrator), updateProfileImage, changePassword, resetPassword | checks before an insert; files moved inside a transaction; a password compared, then overwritten | contacts are unique, images are kept, a password changes on the word of somebody who has a say | `Accounts` |
| Authentication: login, tokens, cookies | none | log in, log out | | | not modelled: keeps no state |
| Settings and system (`settings/`, `system/`) | setting rows | upserts | | | not modelled: no module that `AppModule` reaches imports them |
| Utilities (`utils.service.ts`) | none | rerunnable, retryable, occrunnable, timeout, batchable; hashing, formatting | | | not modelled: the first four have no caller, the last maps rows in memory |
| Mail, SMS, queue | BullMQ jobs | send | a job fails once and is dropped | | not modelled: third-party delivery |
| main, Prisma, Redis, metrics, logging, configuration | | | | | wiring and observation; of `main.ts`, the death and replacement of workers is in `Access` |

Interactions. Dispatches reads issues and nodes and writes only its own table;
publish issues counts dispatch entries before a delete, and the foreign key
repeats the count; hierarchy counts children, active assignments and dispatches
before a delete, and foreign keys restrict the rest (ended assignments,
consumers); assignments read users, nodes and designations and refer to
administrators; consumers refer to nodes and check none of the levels;
administrators refer to a role, whose keys PrivilegeGuard remembers;
registration and reset rest on the verdict of the one-time passwords. Each model
contains the actions of the others that matter to it (`PublishIssue`,
`ArchiveIssue` in Dispatches; `Dispatch` in PublishIssues; `Refer`,
`EndAssignment` in Hierarchy; `SetStatus` in Assignments; `RemoveNode` in
Consumers; `Hire` in Roles; `Rewrite` in Access), as permissive as the other
service is. `HierarchyTree` takes the tree as constants for Dispatches; what it
assumes of them is a theorem of Hierarchy at every moment (`TableIsTree`), and
`PlaceFixed` says that a node keeps its place. A node may be removed while a dispatch to it is created: the foreign key then
refuses the insert, which for the dispatch book is a request that ends without a
write.

## Modules

**RequestSlots** - `Procs`, `req`, `Idle` and `Goto` of Otp, Access, Roles,
Consumers and Accounts. (Dispatches, PublishIssues, Hierarchy and Assignments
keep more with a slot and declare theirs.)

**HierarchyTree** - nodes, parents and ranks as constants, `isDescendantOf` as
the recursive function `Ancestors`.

**TreeQueries** - the read-only handlers that walk the tree, as pure operators:
the destinations that `getMyDispatchContext` offers (a walk down through active
nodes) and the authority that `getReportingCandidates` prefers. `MCHierarchy`
evaluates them as assumptions, against definitions of what they mean: for every
set of active nodes of a tree with two branches and two roots, and for every two
assignments in it. What is offered is what create accepts, less what lies behind
an inactive node (for every tree this is theorem `OfferedDestinations`); the
preferred authority is the first in office at the parent
or else, but for ids that coincide, the first in office at all, and need not be
the nearest (finding 11).

**CustodyLedger** - the abstract specification of the dispatch book: every
operation one atomic step on a sequence of consignments. It has no requests, no
queries and no status names of the code. Its steps are stated over the book
before and after (the new line is the last one of `book'`), so that a proof of
the refinement has nothing to choose.

**Dispatches** - `DispatchesService`, query by query. `available` is the sum a
request has computed between the two queries of
`validateUpstreamReceiptAndStock`. As in the code, forward does not ask for the
issue's status (an archived issue can still be forwarded), a create from a root
is exempt from the stock check and a forward from a root is not, and nodes need
not be active. `TotalCopies` is a constant: a published issue's copies cannot
be edited unless requests overlap, which is PublishIssues' subject. The sums of
`validateUpstreamReceiptAndStock` are taken over `QuantityOf` and `ReceiptOf`,
which give every row its number. The refinement mapping `Ledger` turns rows
(`Line`) into consignments (`Book`). The module ends with the two inductive
invariants of its proofs: `CustodyInv` and, with the routes, `RoutesInv` for any
number of requests, `SerialInv` for one at a time.

**PublishIssues** - `PublishIssuesService` with `StorageService.move`, `exist`
and `removeFile`. `issueNo` stands for all metadata. `Faults` says what may
fail: a query (`db`), an unlink, the worker (`crash`). `exist` and `unlink` are
two steps, as they are two system calls.

**Hierarchy** - `HierarchyService`. A level is its rank, `Depth` levels in all.
Names compare exactly in the index and through `Folded` in the service's own
checks (`mode: 'insensitive'`). Status and description are left out. `refs`
says which kinds of rows of other tables refer to a node; `remove` counts two of
the three kinds.

**Assignments** - `DesignationsService` and the assignment part of
`AdminService.create`. `active` holds the users, nodes and designations with
status active; a user id without a row and a blocked user look the same to the
checks. assignUser looks its user up in table `user`, while the row's foreign
key refers to table `admin` (`Referable`): the two are different people with
the same id, which the model keeps apart. Prisma's read with `include` counts
as one query. Nodes stay: removing one is Hierarchy's subject, and an assigned
node cannot be removed. `validateAssignmentRefs` is called without `await` at
`admin.service.ts:413`, its rejection only logged, so it guards nothing and has
no action.

**Otp** - `OtpService`, which nothing but registration and password reset call.
Finding the row, deciding on the copy and writing are three steps. A date is
modelled by its age in the row and in every copy; `Tick` advances all of them,
up to one beyond `BlockTimeout`, from where on both timeouts have passed and
nothing distinguishes later moments. `told` is what the owner of the target has
seen: the code that arrived, the codes since the last quiet period or right
answer, the wrong answers to this one. It is Null once two requests on the
target overlapped or one was lost, and the properties that compare the row with
it hold until then; `Unseen` is an owner who has seen nothing. Outside production every code is `000000` and nothing is
sent; `Codes` with one element is that case.

**Consumers** - `ConsumersService`, query by query. Four node ids per consumer;
an update names some of them and is validated together with those it read
(`Merged`), but writes only the ones named. `validateHierarchy` compares parents
and never levels, and so does `IsChain` (finding 10). `mixed` records consumers
that two updates of places overlapped on. The tree is that of `HierarchyTree`,
of which `present` are the nodes not yet removed. Foreign keys keep nodes that are
referred to, the unique index keeps numbers apart. Names, addresses,
registrar and `registeredById` are left out (see finding 13). The names that
this module and Accounts would both use carry a prefix (`ConsumersInit`,
`AccountsInit`), so that PeopleProofs can extend the two.

**Access** - AccessGuard, PrivilegeGuard and AppCacheInterceptor are three
read-through caches of the same form, so an entry is about a *subject* of one of
three kinds, and `truth` is what the tables say about it. The cache is
registered without a store: each worker has one, and `setStatus` clears the one
of the worker that serves it, before it writes. AccessGuard stores `false` for a
blocked account and later reads it as a miss: the entry might as well not be
there (`Remembered`). A dying worker loses its cache and its requests
(`Respawn`). Time is the age of each entry; `steady` counts the ticks since the
tables last changed or somebody was about to store something else than they say.
`blocked` are the accounts each worker has blocked without a miss that met the
setStatus: none of its own was under way on the account when it cleared, and none began
before it wrote (`met`). Pages are those that answer every
caller alike (finding 14 is one that should not, and does).

**Roles** - `RolesService` and what `AdminService.create` does with a role.
updateRole's transaction is two statements under Read Committed: the delete sees
the links committed when it runs (`drop`), and `Left` is what it did not see.
`mixed` records roles on which two replaces met. `issued` keeps ids from being
given out twice. DTOs ask for a key and write names in capitals; seeded roles
may be protected.

**Accounts** - the users' accounts, from registration to password reset; the
administrators' handlers for the own profile, image and password have the same
shape and a table of their own. A registration and an update of the profile are
one form of request, a *claim*: checks of what is given in the order e-mail,
user name, number (`First`), then the write, where the unique indexes have the
last word. An administrator's update writes contact and password in one
transaction. A code's verdict is any BOOLEAN, since module Otp says what it is
worth; a wrong last code ends the request like any refusal (`Fail`). The
image's transaction holds the row from its first statement on (`Locked`), and
its three file operations are steps of their own; `Fail` rolls the row back and
leaves the files. A repeated request for the same image is one of the inputs.
`hurt` are accounts whose image has been removed by an update that has not
committed. A reset with two addresses looks the account up by the e-mail address
and, if nobody has it (`missed`), by the number; the verdict of the e-mail
address counts either way (finding 17). The module ends with the inductive invariant of its proofs.

**MCxxx** give constants their values for TLC; **xxxProofs** hold theorems.

Several source ranges of `PROJECT.json` include messages, `include` clauses and
response shaping next to the modelled statement; these have no counterpart.

## Runs

| Run | Question | Result |
|---|---|---|
| `dispatch_serial` | With one request at a time, do the stock rules hold, is a received or cancelled consignment history, and is the service the atomic ledger? | yes |
| `dispatch_overlap` | What survives two overlapping requests? | statuses agree with receipts and onward consignments, every sender had a recorded receipt of a published issue, copies trace back to the publisher or a root, receipts stay |
| `dispatch_cancel_race` | Can a received consignment be cancelled? | yes, by a cancel that read it before |
| `publish_issues` | Two overlapping requests, failing queries and unlinks, crashes | dispatched issues stay, publishing is one way; without trouble, files exist and published issues are frozen |
| `publish_cleanup` | Does the catch block of update only remove orphans? | no: an unlink that fails after the row was written removes the file in use |
| `hierarchy` | Two overlapping requests, rows that come to refer to a node | levelled, no dangling reference; one root and distinct siblings unless siblings' requests overlap |
| `assignments` | Two overlapping requests, status changes, crashes | history kept, one successor, designations stay and fit; no duplicates unless requests met; only active ones unless a status changed meanwhile |
| `otp` | Two overlapping sends and verifies, time, lost requests | limits hold always; a block ends for an owner who keeps asking; without overlap, counters and flags tell the truth and a block lasts |
| `consumers` | Two overlapping creates and partial updates, nodes removed meanwhile | numbers distinct, nodes exist; the four are a chain unless two moves of one consumer overlap |
| `access` | Two workers' caches, two requests, time, dying workers | a lifetime after the last change nothing wrong is remembered; the worker that blocks an account shuts it out at once and until its next setStatus, unless a miss of its own met the setStatus; a blocked account loses access for good |
| `roles` | Two overlapping requests that create, re-key, switch, delete and give roles | no administrator loses its role, names distinct; keys as last asked unless another replace committed within the last one; only active roles given unless switched meanwhile |
| `accounts` | Two overlapping requests on two accounts, each failing at any await | contacts unique; an image is lost only to an update that fails after it removed it; a password changes only on the word of somebody who still has a say, or by a reset that `missed` |

Bounds. Dispatches: one branch through all six levels, of which requests name
Prant, Vibhag and Gram: a root, a middle level that must take in before it
sends, a terminal, and routes that skip levels. Two copies and quantities 1 and
2 give the exact fit, the partial and the excessive request. Three entries allow
central, root and node consignments in a chain, a cancelled and re-sent one, and
a duplicate; with two slots, two entries suffice for a create or forward that
races anything on another entry. One issue: the code never relates two.
PublishIssues: two rows with numbers that differ only in case, two uploads (a
first file and its replacement; the clean-up race needs three). Hierarchy: three
levels, three rows ever inserted: chain, two siblings, a removed parent; two
names that differ in case and one that does not; one reference that can appear,
change kind and block. Assignments: two people, one designation that may be at
the node's level or another, three rows: a row, its successor and a competing
one; create-user lists up to two. User 1's status is fixed, to save states; user
2, the node and the designation change. Symmetry is over interchangeable slots,
details and names that fold to each other; none of the properties of those runs
is a liveness property. Otp: one target, because no operation relates two; a
right and a wrong code; limits of two, so that a count can be lost and still not
be the last; timeouts 0 and 1, which give the three intervals the code
distinguishes (answer awaited, timed out, block over). No symmetry, because of
the liveness property. Consumers: a branch that splits below its Khand, so that
a place can be mixed from two chains, and a place that begins a level too high;
updates of the Gram alone and of Mandal and Gram. Access: one account and the
grants of its role (the entry of a page behaves like that of grants), lifetimes
of one tick and of none, so that an entry can be young, at its end and gone; two
workers, of which one clears and the other does not. Roles: a protected role in
use, a role that can be re-keyed and removed and an id to come; two keys, so
that two replaces can agree, overlap or be disjoint. Accounts: two accounts that
want the same addresses, two images of one of them (the old and the new, and
either repeated), three passwords: with two, a change that starts from a wrong
password would write the one that is there.

Deadlock is checked for Otp, Access, Roles and Accounts: there every request
ends. In the others bounded tables fill up, and the bound, not the code,
stops the model.

Fairness. Two modules make liveness claims. `BlockedLosesAccess` of Access
assumes, in `LiveSpec`, that requests in flight go on (the event loop serves
what it has taken) and that time passes. `BlockEnds` of Otp is stated under
`LiveSpec` too: the event loop serves every request it has taken (weak fairness
of `Step`), time passes (weak fairness of `Tick`), failures end some day (`<>[]`
without `Crash`; with a failure at every request nothing could be promised) and
the owner keeps asking for a code (strong fairness of `AskForCode`, strong
because the model has a fixed number of slots and the server has not). The other
handlers are finite sequences of queries that wait for nothing, and clients may
never return, so their specifications assume no fairness.

## What is proved

Proofs are for every value of the constants: any number of slots, nodes, rows
and people. Each follows one argument: an inductive invariant that adds, to the
table invariants, what every request in flight still relies on (`RequestSound`),
then one lemma per action or group of actions.

**DispatchesProofs** (invariant `CustodyInv`): `TypeOK`, `StatusesAreTrue`,
`CopiesHaveOrigin`, `ReceiptKept`. The table invariants alone are not inductive:
forward's insert is sound because its source, read several queries ago, has a
receipt, and receipts are never erased (`PlacingSound`); receive's write agrees
with the quantity because that never changes (`ReceiveSound`); complete's
because a downstream consignment, once there, stays (`CompleteSound`). All are
about facts that only grow, which is why they survive stale writes, and why
statuses and sums do not. Assumed: the constants' types and `HierarchyTree`'s
assumptions.

That copies can be traced (`Traceable`, a part of `CopiesHaveOrigin`) follows
from the table rather than from the steps: take an entry, then the earlier one
that delivered to its sender, and so on; entries are numbered, so this ends, and
each route leads down one branch, so all of the way lies above the destination.
It needs the routes to be right in every entry, which overlapping requests
cannot disturb either (`RoutesInv`; TLC has checked it on the instance of
`dispatch_overlap`), and that being below is transitive.

Walks of the tree. `Ancestors` and `collectDescendants` are recursive
functions over an arbitrary tree, and no induction theorem can be instantiated
here. Both inductions are stated as facts about sets of nodes, got from a node
of smallest or largest rank: a set that has every node whose parent it has is
the whole tree (`DownTheTree`), and so is one that has every node whose children
it has (`UpTheTree`). The first shows that `Ancestors` is what its equation says
(`AncestorsUnfold`), that it is transitive, and that two ancestors of a node lie
on one line; the second that the walk down through the active nodes meets what
it should (`WalkDown`). `OfferedDestinations` puts them together: for every tree
and every set of active nodes, what is offered is what create and forward take,
less what lies behind an inactive node.

The second half of DispatchesProofs is about one request at a time
(`OneAtATime`: any two slots are
the same; each theorem has the form `OneAtATime => (Spec => ...)`), because two
that overlap do break what follows (findings 1 and 2). It proves `StockKept`,
`NoDuplicateActive`, `CancelledNeverReceived`, `HistoryKept` and the refinement
`ImplementsLedger`, for any tables, quantities, issues and trees. `SerialInv`
says what a single request still knows when it writes: the stock it has computed
covers what it sends (`InStock`), the route it has found free is free, the row
it updates has the status it has read (`PlacingFresh`, `EditFresh`). Stock
remains covered because each write changes one row, and one row changes a sum by
its own number (`SumChanged`): a new row takes what was there to take, a receipt
only adds to what its destination has, a cancellation gives back. That a sum has
this property is proved from the definition of `SumFunctionOnSet`, by taking a
smallest finite set for which it fails (`SmallestSubset`), since an induction
theorem with an operator parameter cannot be instantiated. The refinement then
goes step by step: queries leave `Book` alone, an insert is `Send` or `PassOn`,
a receipt `TakeIn`, a cancellation `Void`, a completion `Close`; setInTransit
and update do not show in the ledger.

**HierarchyProofs** (`HierarchyInv`): `TypeOK`, `Levelled`,
`ReferencesResolve`, `NodesDistinct`, that places are fixed, and that the rows
there are form a tree as `HierarchyTree` assumes it (`TableIsTree`): what the
proofs about dispatches and consumers assume of the tree, the table satisfies at
every moment. The parent
that create has read either still has its level or is gone, because ids are
given out once (`Numbered`, `CreateSound`); if it is gone the foreign key
refuses the insert. What was checked about siblings stays true where no other
request works under the same parent (`CheckedSound`, `Marked`).

**AssignmentsProofs** (`AssignmentsInv`, then `ActiveSound` on top of it):
`TypeOK`, `DesignationsFit`, `HandedOverOnce`, `NoDuplicateActive`,
`AssignedWhileActive`, `HistoryKept`. A handover closes the row conditionally, so a closed row
is never closed again and has one successor; the level check of an old query
still holds at the insert because a designation's level and id never come back
different.

**OtpProofs** (`LimitsInv`, then `CalmInv` on top of it): `TypeOK`,
`LimitsHold`, `CountsAreTrue`, `BlockLasts`. Limits are tested for
equality, so the invariant needs every copy of a row in flight to be within the
limits, and every count about to be written to come from a copy that was below
them (`RequestWithin`); rows are never deleted, so an update finds its row
(`HasRow`). For a target whose requests never overlapped nor were lost, `CalmInv`
says that at most one is at work on it, that the copy it carries is the row, and
how far what the owner has seen is ahead of the row at each of its steps
(`Knows`); counters and blocks follow. Other targets may be in any disorder.
Assumed: both limits are at least one, the block outlasts the
timeout.

**PeopleProofs** is about the two tables of people, consumers and accounts; they
share no state, and the invariants are two. For consumers (`ConsumersInv`):
`ConsumersTypeOK`, `PlacesHold`, `NumbersDistinct`. What create and update have validated is still a chain when
they write: a node's parent never changes, a removed node was referred to by
nobody, and what an update has read of its consumer is still there unless
another update came between, which `mixed` records.

For accounts (`AccountsInv`): `AccountsTypeOK` (which contains that contacts are
unique), `ImageKept`, `PasswordHandedOn`; for any contacts requests may come
with, any images and uploaders. Contacts stay unique by the indexes alone, also
where an update names some of an account's addresses and keeps the others: the
checks before the write play no part in the proof. Three more facts make the
images inductive. Every image is its uploader's, in the rows and in requests
(`ImagesOwned`, `ImagesAtHand`): a removal can hurt no other account. Of one
account, two updates never hold the row together (`OneHolder`): a removal cannot
take the image another update is about to commit. And an update that is about to
commit has its image in place. Passwords need `SayKept`: what let a request in
(the old password it compared, the address whose verdict counts) still is so, or
`Overtake` has marked the request stale when it wrote the row. The address is
the first of those given (`Answers`), which a reset that finds its account at
once has looked it up by; one that `missed` is excused (finding 17).
`Founded` says that the account a request works on, and the address it is yet to
look up, are there; else the claim of a reset could be to no account. TLC has
checked `AccountsInv` on the instance of run `accounts`.

**AccessProofs** (`AccessInv`): `TypeOK`, `Settled`, `ShutOutAtOnce`. An entry
that disagrees with the tables is at least as old as `steady` says (`Dated`):
whoever stores something wrong sets `steady` back until it has stored it. As no
entry outlives its lifetime, none that is wrong is left when `steady` exceeds
it. That a blocked account is shut out at once is not inductive alone, because
guards go on filling the cache: `BlockingSound` adds that what a guard of that
worker is about to store of it is "Blocked", and that a setStatus which has
cleared and met no miss will write over an empty entry that nobody is about to
fill. Any number of workers, requests and subjects, any lifetimes.

**RolesProofs** (`RolesInv`): `TypeOK`, `KeysAsAsked`, `ActiveRoleGiven`. The
keys are not inductive alone: a replace that nobody overtook still sees every
link of its role (`DeletesAll`), and ids never return (`Issued`). A role that
create-user has checked is active unless it was switched (`StillActive`).

**PublishIssuesProofs** (`PublishInv`, then `CalmInv` on top of it): `TypeOK`,
`DispatchedIssueExists`, `PublishingIsOneWay`, `ReferencedFileExists`,
`PublishedIsFrozen`. An update decides on the row it has read, so the invariant
says what is left of that row when it writes: an issue that was not a draft is
none, and one that had a file has one (`Follows`), because ids are given out
once (`Numbered`) and writes only move forward (`WrittenFollows`). A deletion
that holds its row has seen no entry of the dispatch book, and the lock keeps
new ones out until it commits. That an untroubled issue keeps its file takes
more than its own requests, since all files lie in one directory: no file
belongs to two issues or to an issue and another one's request, however those
overlap and fail (`FilesApart`, of all issues); and a request that is alone with
its issue has read the row as it is and has its new file in place when it writes
(`UpToDate`).

Only model-checked: `BlockEnds` of Otp and `BlockedLosesAccess` of Access, which
are liveness, and the prover has no rule for fairness. Every other property of a
passing run is the subject of a theorem. Of TreeQueries, the preferred authority
(`PreferredIsFirst`) is evaluated for one tree: it selects from sequences, and
the library has no theorems about `SelectSeq`.

## Findings

1. `dispatches.service.ts:555` - cancel overwrites a receive that committed
   after cancel read the entry: a received consignment is Cancelled, against the
   message at line 547. Run `dispatch_cancel_race`.
2. `dispatches.service.ts:237` - two creates sum the central dispatches before
   either inserts and send more copies than were printed, which is why
   `StockKept` is checked with one request at a time. The same holds of a node's
   stock (line 662) and of the duplicate checks (324, 493).
3. `publish-issues.service.ts:328` - the old file is removed inside the `try`:
   if that fails, the `catch` removes the new file, which the row refers to.
   Run `publish_cleanup`.
4. `hierarchy.service.ts:128` - two overlapping creates of a Prant both
   succeed; the unique index does not bind rows without a parent.
5. `designations.service.ts:288` - the handler for a unique violation can never
   run: no such index exists, and overlapping assigns leave duplicates.
6. `admin.service.ts:413` - the validation of a new administrator's assignments
   is not awaited and guards nothing.
7. `designations.service.ts:207` - user ids are checked in table `user` but
   refer to table `admin`.
8. `otp.service.ts:361` - a failed verify that read earlier writes `blocked:
   false` over a block, and its count over another's.
9. `consumers.service.ts:157` - two overlapping partial updates are each valid
   and together leave a place that is no chain.
10. `consumers.service.ts:43` - `validateHierarchy` never looks at levels.
11. `hierarchy.service.ts:339` - a candidate's `nodeId` is a user's id, so the
    nearest superior is not found (`AuthorityNotNearest` of `MCHierarchy`).
12. `roles.service.ts:163` - of two overlapping replaces the second keeps the
    first's links.
13. `consumers.service.ts:128` - the caller's id, also an administrator's, goes
    into a column that refers to table `user`.
14. `dispatches.service.ts:707` - the answer of `my-context` is remembered under
    its url for every caller.
15. `users.service.ts:626` - updateProfileImage removes the old image before it
    moves the new one: a repeated request removes the image it names and fails.
16. `admin.controller.ts:107` - create-user is no single transaction.
17. `users.service.ts:729` - of a reset with two addresses only the e-mail
    address's verdict counts (line 737), also if nobody has that address and the
    account was found by its number (line 723).

Findings 1 and 3 have a run of their own. The others are seen in what a property
leaves out (`contended`, `mixed`, `hurt`, `missed`, one slot) or are about code a model
shows without a property.

## Not modelled

Lists with filters and paging, and handlers that only read a row, change nothing
and rest on one query each. Descriptive columns, messages and response shapes
appear in no property. Login, tokens, cookies, mail, metrics and logging keep no
state of the application or hand it to third parties. Settings and system are
not reachable. Codes and registration are two modules joined by a verdict that
may be either: nothing said of accounts depends on which codes are right, and the
product of both would not be checkable.

## Plan

Done: all components with state of their own, and for all of them proofs of
every safety and action property that a passing run checks. What is left to TLC
is left because the provers cannot do it: the two liveness properties, and the
choice of a reporting authority.
