----------------------------- MODULE Dispatches -----------------------------
(***************************************************************************)
(* DispatchesService: copies of a published issue travel from the central  *)
(* publisher down the hierarchy, one dispatch entry per consignment.       *)
(*                                                                         *)
(* A request handler is a sequence of awaited queries that ends in one     *)
(* write.  Nothing is locked and the writes are unconditional, so another  *)
(* request can run between any two queries.  Each slot of Procs carries    *)
(* one request at a time: its first query is the action named after the    *)
(* handler, later queries and the write are actions of their own.  With    *)
(* one slot requests run one after the other; with two they overlap, which *)
(* is what the event loop and the cluster's workers allow.                 *)
(*                                                                         *)
(* A query over immutable data (nodes and their parents) takes no step of  *)
(* its own.  A request that a check rejects changes nothing: it appears as *)
(* the action not being enabled or, after the first query, as the slot     *)
(* going back to Idle.                                                     *)
(***************************************************************************)
EXTENDS HierarchyTree, Sequences, FiniteSetsExt

CONSTANTS
    Procs,          \* request slots
    Issues,         \* publish_issue ids
    TotalCopies,    \* copies printed of each issue
    Points,         \* the nodes that requests of this instance name
    Quantities,     \* the quantities that requests of this instance name
    Details,        \* values of the editable metadata (tracking link, date)
    MaxDispatches   \* bound on the number of entries

ASSUME PointsAssumption == Points \subseteq Nodes
ASSUME QuantitiesAssumption == Quantities \subseteq Nat
ASSUME TotalCopiesAssumption == TotalCopies \in [Issues -> Nat]
ASSUME MaxDispatchesAssumption == MaxDispatches \in Nat

VARIABLES
    issueStatus,    \* publish_issue.status
    dispatches,     \* the dispatch_entry table; an entry's id is its index
    req,            \* what each slot's request knows between two queries
    available       \* copies at the source, as the request summed them up

vars == <<issueStatus, dispatches, req, available>>

-----------------------------------------------------------------------------
(* Data *)

Received      == {"Received", "Discrepancy", "Forwarded", "Completed"}
Active        == {"Dispatched", "InTransit"}
Status        == Active \cup Received \cup {"Cancelled"}
IssueStatus   == {"Draft", "Published", "Archived"}

NotReceived == -1   \* receivedQuantity is null

DispatchEntry ==
    [issue : Issues, from : Nodes \cup {Null}, to : Nodes, quantity : Nat \ {0},
     received : Nat \cup {NotReceived}, status : Status, details : Details]

Ids == DOMAIN dispatches

Idle == [pc |-> "idle"]

\* A create or a forward on its way to the insert.  source is 0 for a create,
\* seen is the source entry's status as the forward read it.
PlacingPc == {"central", "upstream", "downstream", "duplicate", "insert"}

Placing ==
    [pc : PlacingPc,
     source : Nat, seen : Status, entry : DispatchEntry]

Request ==
    {Idle}
    \cup [pc : {"inTransit"}, id : Nat, details : Details]
    \cup [pc : {"cancel", "complete"}, id : Nat]
    \cup [pc : {"receive"}, id : Nat, received : Nat, status : Status]
    \cup [pc : {"update"}, id : Nat, details : Details]
    \cup Placing

\* The tables and every request in flight keep their shape; what a request has
\* summed up is a number of copies.
TypeOK ==
    /\ issueStatus \in [Issues -> IssueStatus]
    /\ dispatches \in Seq(DispatchEntry)
    /\ req \in [Procs -> Request]
    /\ available \in [Procs -> Nat]

Init ==
    /\ issueStatus = [i \in Issues |-> "Draft"]
    /\ dispatches = <<>>
    /\ req = [p \in Procs |-> Idle]
    /\ available = [p \in Procs |-> 0]

-----------------------------------------------------------------------------
(* Helpers *)

Begin(p, r) == /\ req[p] = Idle
               /\ req' = [req EXCEPT ![p] = r]
               /\ UNCHANGED <<issueStatus, dispatches, available>>

\* A read-only check of a running request, which goes on at pc `next` or is
\* rejected; `sum` is what it now knows of the source's stock.
Continue(p, check, next, sum) ==
    /\ req' = [req EXCEPT ![p] = IF check THEN [@ EXCEPT !.pc = next] ELSE Idle]
    /\ available' = [available EXCEPT ![p] = IF check THEN sum ELSE 0]
    /\ UNCHANGED <<issueStatus, dispatches>>

\* The last query of a request: write the table and answer.
Commit(p, table) == /\ dispatches' = table
                    /\ req' = [req EXCEPT ![p] = Idle]
                    /\ UNCHANGED <<issueStatus, available>>

NewEntry(i, from, to, q, d) ==
    [issue |-> i, from |-> from, to |-> to, quantity |-> q,
     received |-> NotReceived, status |-> "Dispatched", details |-> d]

Sent(i, from) ==
    {d \in Ids : /\ dispatches[d].issue = i
                 /\ dispatches[d].from = from
                 /\ dispatches[d].status # "Cancelled"}

Consignments(i, n) == {d \in Ids : dispatches[d].issue = i /\ dispatches[d].to = n}

InCustody(i, n) == {d \in Consignments(i, n) : dispatches[d].status \in Received}

QuantityOf == [d \in Ids |-> dispatches[d].quantity]

ReceiptOf == [d \in Ids |-> IF dispatches[d].received = NotReceived THEN 0
                            ELSE dispatches[d].received]

QuantitySent(i, from) == SumFunctionOnSet(QuantityOf, Sent(i, from))

QuantityReceived(i, n) == SumFunctionOnSet(ReceiptOf, InCustody(i, n))

\* Mutant: a consignment in transit does not block a second one.
DispatchedDuplicate(e) ==
    \E d \in Ids : /\ dispatches[d].issue = e.issue
                   /\ dispatches[d].from = e.from
                   /\ dispatches[d].to = e.to
                   /\ dispatches[d].status = "Dispatched"

ActiveDuplicate(e) ==
    \E d \in Ids : /\ dispatches[d].issue = e.issue
                   /\ dispatches[d].from = e.from
                   /\ dispatches[d].to = e.to
                   /\ dispatches[d].status \in Active

\* The route checks create and forward share.
DownstreamRoute(from, to) ==
    /\ from # to
    /\ Rank[from] # GramRank
    /\ Rank[to] > Rank[from]
    /\ InBranch(to, from)

-----------------------------------------------------------------------------
(* create and forward: check, check, ..., insert *)

Place(pc, source, seen, e) ==
    [pc |-> pc, source |-> source, seen |-> seen, entry |-> e]

Dispatchable(i) == issueStatus[i] = "Published"

Create(p) ==
    /\ Len(dispatches) < MaxDispatches
    /\ \E i \in Issues, q \in Quantities \ {0}, to \in Points, d \in Details :
        /\ Dispatchable(i)
        /\ \/ /\ Rank[to] = PrantRank
              /\ Begin(p, Place("central", 0, "Dispatched", NewEntry(i, Null, to, q, d)))
           \/ \E from \in Points :
                /\ DownstreamRoute(from, to)
                /\ Begin(p, Place(IF IsRoot(from) THEN "duplicate" ELSE "upstream",
                                  0, "Dispatched", NewEntry(i, from, to, q, d)))

\* forward asks neither for the issue's status nor exempts the root.
Forward(p) ==
    /\ Len(dispatches) < MaxDispatches
    /\ \E s \in Ids, q \in Quantities \ {0}, to \in Points, d \in Details :
        /\ dispatches[s].status \in {"Received", "Discrepancy", "Forwarded"}
        /\ DownstreamRoute(dispatches[s].to, to)
        /\ Begin(p, Place("upstream", s, dispatches[s].status,
                          NewEntry(dispatches[s].issue, dispatches[s].to, to, q, d)))

\* Mutant: what was already sent is not subtracted.
CheckCentralPrinted(p) ==
    /\ req[p].pc = "central"
    /\ LET e == req[p].entry
       IN Continue(p, e.quantity <= TotalCopies[e.issue], "duplicate", 0)

CheckCentral(p) ==
    /\ req[p].pc = "central"
    /\ LET e == req[p].entry
       IN Continue(p, e.quantity <= TotalCopies[e.issue] - QuantitySent(e.issue, Null),
                   "duplicate", 0)

\* Mutant: copies count as soon as they are on their way.
CheckUpstreamOnTheWay(p) ==
    /\ req[p].pc = "upstream"
    /\ LET e == req[p].entry
           coming == Consignments(e.issue, e.from)
       IN Continue(p, coming # {}, "downstream",
                   SumFunctionOnSet(QuantityOf, coming))

\* The two queries of validateUpstreamReceiptAndStock.
CheckUpstream(p) ==
    /\ req[p].pc = "upstream"
    /\ LET e == req[p].entry
       IN Continue(p, InCustody(e.issue, e.from) # {},
                   "downstream", QuantityReceived(e.issue, e.from))

CheckDownstream(p) ==
    /\ req[p].pc = "downstream"
    /\ LET e == req[p].entry
       IN Continue(p, e.quantity <= available[p] - QuantitySent(e.issue, e.from),
                   "duplicate", 0)

CheckDuplicate(p) ==
    /\ req[p].pc = "duplicate"
    /\ Continue(p, ~ActiveDuplicate(req[p].entry), "insert", 0)

\* The table after the insert; a forward's transaction also marks its source,
\* deciding by the status it read at the start.
Placed(r) ==
    LET marked == IF r.source = 0 \/ r.seen = "Forwarded" THEN dispatches
                  ELSE [dispatches EXCEPT ![r.source].status = "Forwarded"]
    IN Append(marked, r.entry)

Insert(p) ==
    /\ req[p].pc = "insert"
    /\ Len(dispatches) < MaxDispatches
    /\ Commit(p, Placed(req[p]))

-----------------------------------------------------------------------------
(* The handlers that read one entry and then update it by id *)

SetInTransit(p) ==
    \E d \in Ids, v \in Details :
        /\ dispatches[d].status = "Dispatched"
        /\ Begin(p, [pc |-> "inTransit", id |-> d, details |-> v])

SetInTransitWrite(p) ==
    /\ req[p].pc = "inTransit"
    /\ Commit(p, [dispatches EXCEPT ![req[p].id].status = "InTransit",
                                    ![req[p].id].details = req[p].details])

Receive(p) ==
    \E d \in Ids, q \in Quantities \cup {0} :
        /\ dispatches[d].status \in Active
        /\ q <= dispatches[d].quantity
        /\ Begin(p, [pc |-> "receive", id |-> d, received |-> q,
                     status |-> IF q = dispatches[d].quantity THEN "Received"
                                ELSE "Discrepancy"])

ReceiveWrite(p) ==
    /\ req[p].pc = "receive"
    /\ Commit(p, [dispatches EXCEPT ![req[p].id].received = req[p].received,
                                    ![req[p].id].status = req[p].status])

Cancel(p) ==
    \E d \in Ids :
        /\ dispatches[d].status \notin Received \cup {"Cancelled"}
        /\ Begin(p, [pc |-> "cancel", id |-> d])

\* Mutants: cancelling also resets the quantity, or the receipt.
CancelWriteZero(p) ==
    /\ req[p].pc = "cancel"
    /\ Commit(p, [dispatches EXCEPT ![req[p].id].status = "Cancelled",
                                    ![req[p].id].quantity = 0])

CancelWriteClear(p) ==
    /\ req[p].pc = "cancel"
    /\ Commit(p, [dispatches EXCEPT ![req[p].id].status = "Cancelled",
                                    ![req[p].id].received = NotReceived])

CancelWrite(p) ==
    /\ req[p].pc = "cancel"
    /\ Commit(p, [dispatches EXCEPT ![req[p].id].status = "Cancelled"])

\* Mutant: every level completes what it received.
CompletableReceived(e) == e.status \in {"Received", "Discrepancy", "Forwarded"}

Completable(e) ==
    \/ e.status = "Forwarded"
    \/ Rank[e.to] = GramRank /\ e.status \in {"Received", "Discrepancy"}

Complete(p) ==
    \E d \in Ids : /\ Completable(dispatches[d])
                   /\ Begin(p, [pc |-> "complete", id |-> d])

CompleteWrite(p) ==
    /\ req[p].pc = "complete"
    /\ Commit(p, [dispatches EXCEPT ![req[p].id].status = "Completed"])

\* Mutant: received records can be edited.
UpdateReceived(p) ==
    \E d \in Ids, v \in Details :
        /\ dispatches[d].status # "Cancelled"
        /\ Begin(p, [pc |-> "update", id |-> d, details |-> v])

Update(p) ==
    \E d \in Ids, v \in Details :
        /\ dispatches[d].status \notin Received \cup {"Cancelled"}
        /\ Begin(p, [pc |-> "update", id |-> d, details |-> v])

UpdateWrite(p) ==
    /\ req[p].pc = "update"
    /\ Commit(p, [dispatches EXCEPT ![req[p].id].details = req[p].details])

-----------------------------------------------------------------------------
(* The issue's own lifecycle, run by PublishIssuesService *)

PublishIssue(i) ==
    /\ issueStatus[i] = "Draft"
    /\ issueStatus' = [issueStatus EXCEPT ![i] = "Published"]
    /\ UNCHANGED <<dispatches, req, available>>

ArchiveIssue(i) ==
    /\ issueStatus[i] = "Published"
    /\ issueStatus' = [issueStatus EXCEPT ![i] = "Archived"]
    /\ UNCHANGED <<dispatches, req, available>>

Handle(p) ==
    \/ Create(p) \/ Forward(p)
    \/ CheckCentral(p) \/ CheckUpstream(p) \/ CheckDownstream(p) \/ CheckDuplicate(p)
    \/ Insert(p)
    \/ SetInTransit(p) \/ SetInTransitWrite(p)
    \/ Receive(p) \/ ReceiveWrite(p)
    \/ Cancel(p) \/ CancelWrite(p)
    \/ Complete(p) \/ CompleteWrite(p)
    \/ Update(p) \/ UpdateWrite(p)

Next ==
    \/ \E p \in Procs : Handle(p)
    \/ \E i \in Issues : PublishIssue(i) \/ ArchiveIssue(i)

Spec == Init /\ [][Next]_vars

-----------------------------------------------------------------------------
(* Properties that hold however requests interleave *)

Recorded(e) ==
    /\ e.status \in Received => e.received # NotReceived
    /\ e.status = "Received" => e.received = e.quantity
    /\ e.status = "Discrepancy" => e.received < e.quantity
    /\ e.received <= e.quantity

\* An entry with a received status carries a receipt, and the receipt agrees
\* with the status: Received means everything arrived, Discrepancy that some
\* copies did not, and no receipt exceeds what was sent.  complete, forward
\* and cancel write the status without looking at receivedQuantity.
CustodyRecorded == \A d \in Ids : Recorded(dispatches[d])

\* Chain of custody: a node other than the root only sends an issue that an
\* earlier entry delivered to it, with a receipt on record.  The check
\* (validateUpstreamReceiptAndStock) runs three queries before the insert.
Provenance ==
    \A d \in Ids :
        LET e == dispatches[d]
        IN e.from # Null /\ ~IsRoot(e.from) =>
               \E u \in Ids : /\ u < d
                              /\ dispatches[u].issue = e.issue
                              /\ dispatches[u].to = e.from
                              /\ dispatches[u].received # NotReceived

HasDownstream(e) ==
    \E n \in Ids : dispatches[n].issue = e.issue /\ dispatches[n].from = e.to

ClaimsOnward(e) ==
    e.status = "Forwarded" \/ (e.status = "Completed" /\ Rank[e.to] # GramRank)

\* An entry marked Forwarded, or Completed above the Gram level, has a
\* consignment of the same issue leaving its destination: forward's
\* transaction and complete's check on a stale read cannot produce one
\* without the other.
ForwardedWasSent ==
    \A d \in Ids : ClaimsOnward(dispatches[d]) => HasDownstream(dispatches[d])

\* No entry is ever made for an issue that was not published: create checks
\* the status before its other queries, forward relies on its source entry.
OnlyPublishedIssues == \A d \in Ids : issueStatus[dispatches[d].issue] # "Draft"

Grows ==
    \A d \in Ids :
        LET e == dispatches[d]
            f == dispatches'[d]
        IN /\ d \in DOMAIN dispatches'
           /\ e.received # NotReceived => f.received # NotReceived
           /\ <<f.issue, f.from, f.to, f.quantity>> = <<e.issue, e.from, e.to, e.quantity>>

\* What a status says is true: of the receipt, and of the onward journey.
StatusesAreTrue == CustodyRecorded /\ ForwardedWasSent

\* From the receipt of a sender to the receipt of the one before it, the way
\* leads back to a consignment that the publisher or a root sent down this very
\* branch.
Traceable ==
    \A d \in Ids : \E o \in Ids :
        /\ o <= d
        /\ dispatches[o].issue = dispatches[d].issue
        /\ dispatches[o].from = Null \/ IsRoot(dispatches[o].from)
        /\ o # d => /\ InBranch(dispatches[d].to, dispatches[o].to)
                    /\ dispatches[o].received # NotReceived

\* Copies have an origin: every entry is about an issue that was published, its
\* sender, unless a root, had received it, and so back to the first who sent it.
CopiesHaveOrigin == Provenance /\ OnlyPublishedIssues /\ Traceable

\* A receipt is never erased and no entry disappears or changes its route or
\* quantity, whatever stale request writes to it.
ReceiptKept == [][Grows]_vars

\* What a request still relies on when it writes: the part of the inductive
\* invariant that is about requests, not about the table.
Delivered(i, n) ==
    \E u \in Ids : /\ dispatches[u].issue = i
                   /\ dispatches[u].to = n
                   /\ dispatches[u].received # NotReceived

PlacingSound(r) ==
    /\ r.entry.received = NotReceived
    /\ r.entry.status = "Dispatched"
    /\ issueStatus[r.entry.issue] # "Draft"
    /\ r.source # 0 => /\ r.source \in Ids
                       /\ dispatches[r.source].received # NotReceived
                       /\ dispatches[r.source].issue = r.entry.issue
                       /\ dispatches[r.source].to = r.entry.from
    /\ r.pc = "central" => r.entry.from = Null
    /\ r.pc \in {"downstream", "duplicate", "insert"} =>
           \/ r.entry.from = Null
           \/ IsRoot(r.entry.from)
           \/ Delivered(r.entry.issue, r.entry.from)

ReceiveSound(r) ==
    /\ r.received <= dispatches[r.id].quantity
    /\ r.status = IF r.received = dispatches[r.id].quantity THEN "Received"
                  ELSE "Discrepancy"

CompleteSound(r) ==
    /\ dispatches[r.id].received # NotReceived
    /\ Rank[dispatches[r.id].to] = GramRank \/ HasDownstream(dispatches[r.id])

RequestSound(r) ==
    /\ r.pc \in PlacingPc => PlacingSound(r)
    /\ r.pc \notin PlacingPc \cup {"idle"} => r.id \in Ids
    /\ r.pc = "receive" => ReceiveSound(r)
    /\ r.pc = "complete" => CompleteSound(r)

CustodyInv ==
    /\ TypeOK
    /\ CustodyRecorded
    /\ Provenance
    /\ ForwardedWasSent
    /\ OnlyPublishedIssues
    /\ \A p \in Procs : RequestSound(req[p])

\* Copies leave the publisher for a Prant, and a node for one below it.
RouteHolds(e) ==
    IF e.from = Null THEN Rank[e.to] = PrantRank ELSE DownstreamRoute(e.from, e.to)

\* What is on its way into the table holds to it as well.
RoutesInv ==
    /\ CustodyInv
    /\ \A d \in Ids : RouteHolds(dispatches[d])
    /\ \A p \in Procs : req[p].pc \in PlacingPc => RouteHolds(req[p].entry)

-----------------------------------------------------------------------------
(* Properties that hold when requests do not overlap *)

\* Copies sent by the central publisher never exceed the copies printed.
CentralStock == \A i \in Issues : QuantitySent(i, Null) <= TotalCopies[i]

Senders(i) == {dispatches[d].from : d \in {d \in Ids : dispatches[d].issue = i}}

\* A node that sends, unless a root, never sends more copies than it received.
NodeStock ==
    \A i \in Issues : \A n \in Senders(i) \ {Null} :
        IsRoot(n) \/ QuantitySent(i, n) <= QuantityReceived(i, n)

\* Nobody sends more copies than there are to send.
StockKept == CentralStock /\ NodeStock

\* Two active entries never share issue, source and destination.
NoDuplicateActive ==
    \A c, d \in Ids :
        /\ c # d
        /\ dispatches[c].status \in Active
        /\ dispatches[d].status \in Active
        => \/ dispatches[c].issue # dispatches[d].issue
           \/ dispatches[c].from # dispatches[d].from
           \/ dispatches[c].to # dispatches[d].to

\* A cancelled consignment was never received: cancel refuses received
\* records and receive refuses cancelled ones.
CancelledNeverReceived ==
    \A d \in Ids : dispatches[d].status = "Cancelled" => dispatches[d].received = NotReceived

PastKept ==
    \A d \in Ids :
        LET e == dispatches[d]
            f == dispatches'[d]
        IN e.status \in Received \cup {"Cancelled"} =>
              /\ f.received = e.received /\ f.details = e.details
              /\ \/ f.status = e.status
                 \/ e.status \in {"Received", "Discrepancy"}
                    /\ f.status \in {"Forwarded", "Completed"}
                 \/ e.status = "Forwarded" /\ f.status = "Completed"

\* Once a consignment is received or cancelled its receipt and details are
\* history: only its status moves on, and only towards Completed.
HistoryKept == [][PastKept]_vars

-----------------------------------------------------------------------------
(* The promise of the dispatch book *)

\* Where consignments go: from the publisher to a Prant, or down a branch.
Routes == {r \in (Nodes \cup {Null}) \X Nodes :
             IF r[1] = Null THEN Rank[r[2]] = PrantRank
             ELSE Rank[r[1]] # GramRank /\ InBranch(r[2], r[1])}

Stage == [s \in Status |-> CASE s \in Active -> "moving"
                             [] s \in {"Received", "Discrepancy"} -> "held"
                             [] s = "Forwarded" -> "passed"
                             [] s = "Completed" -> "closed"
                             [] s = "Cancelled" -> "void"]

\* An entry as a line of the ledger.
Line(e) == [issue |-> e.issue, route |-> <<e.from, e.to>>, copies |-> e.quantity,
            taken |-> IF e.received = NotReceived THEN 0 ELSE e.received,
            state |-> Stage[e.status]]

Book == [d \in Ids |-> Line(dispatches[d])]

Ledger == INSTANCE CustodyLedger WITH
    Points    <- Nodes,
    Central   <- Null,
    Origins   <- {n \in Nodes : IsRoot(n)},
    Terminals <- {n \in Nodes : Rank[n] = GramRank},
    book      <- Book

\* Every step of the handlers, queries included, is one step of the ledger or
\* none: run one after the other, requests are as good as atomic.
ImplementsLedger == Ledger!Spec

-----------------------------------------------------------------------------
(* Why one request at a time keeps the promise *)

\* One slot: no request begins before the last one has answered.
OneAtATime == \A p, q \in Procs : p = q

\* A sender that is no root has, or the publisher printed, what e takes away.
InStock(e) ==
    e.quantity <= (IF e.from = Null THEN TotalCopies[e.issue]
                   ELSE QuantityReceived(e.issue, e.from)) - QuantitySent(e.issue, e.from)

\* What the checks of a create or a forward have found is still so.
PlacingFresh(r, stock) ==
    /\ <<r.entry.from, r.entry.to>> \in Routes
    /\ r.source # 0 => /\ dispatches[r.source].status = r.seen
                       /\ r.seen \in {"Received", "Discrepancy", "Forwarded"}
    /\ r.pc \in {"upstream", "downstream"} => r.entry.from # Null
    /\ r.pc = "downstream" => stock = QuantityReceived(r.entry.issue, r.entry.from)
    /\ r.pc \in {"duplicate", "insert"} =>
           \/ InStock(r.entry)
           \/ r.source = 0 /\ r.entry.from # Null /\ IsRoot(r.entry.from)
    /\ r.pc = "insert" => ~ActiveDuplicate(r.entry)

\* The entry a handler is about to update still has a status it accepts.
EditFresh(r) ==
    /\ r.pc = "inTransit" => dispatches[r.id].status = "Dispatched"
    /\ r.pc \in {"receive", "cancel", "update"} => dispatches[r.id].status \in Active
    /\ r.pc = "complete" => Completable(dispatches[r.id])

RequestFresh(r, stock) ==
    /\ r.pc \in PlacingPc => PlacingFresh(r, stock)
    /\ EditFresh(r)

\* Only a receipt takes an entry out of transit.
UnreceivedIsOpen ==
    \A d \in Ids : dispatches[d].status \in Active \cup {"Cancelled"}
                     => dispatches[d].received = NotReceived

SerialInv ==
    /\ CustodyInv
    /\ UnreceivedIsOpen
    /\ StockKept
    /\ NoDuplicateActive
    /\ \A p \in Procs : RequestFresh(req[p], available[p])
=============================================================================
