------------------------------ MODULE Consumers ------------------------------
(***************************************************************************)
(* ConsumersService: subscribers, each with the four nodes (Jila, Khand,   *)
(* Mandal, Gram) it lives at and the WhatsApp number it is known by.       *)
(*                                                                         *)
(* create and update look at the nodes, then for another consumer with the *)
(* number, then write.  update takes any part of the fields: what it       *)
(* validates is the part together with the rest of the row as it read it,  *)
(* what it writes is the part alone.                                       *)
(*                                                                         *)
(* The columns no check looks at (names, addresses, who registered whom)   *)
(* are left out.                                                           *)
(***************************************************************************)
EXTENDS RequestSlots, HierarchyTree, Sequences

CONSTANTS
    Numbers,        \* WhatsApp numbers
    Places,         \* the places that create requests of this instance name
    Patches,        \* the parts of a place that updates of this instance name
    MaxConsumers    \* bound on the rows

Fields == {"jila", "khand", "mandal", "gram"}

Place == [Fields -> Nodes]

ASSUME PlacesAssumption == Places \subseteq Place
ASSUME PatchesAssumption == Patches \subseteq UNION {[S -> Nodes] : S \in SUBSET Fields}
ASSUME NumbersAssumption == Null \notin Numbers
ASSUME MaxConsumersAssumption == MaxConsumers \in Nat

VARIABLES
    present,    \* the rows of hierarchy_node, which keep their parents
    consumers,  \* the consumer table; an id is an index
    mixed       \* history: consumers to whom an update wrote a part of a place
                \* that another one had read before and was to change as well

consumersVars == <<present, consumers, req, mixed>>

Status == {"Active", "InActive"}

Consumer == [place : Place, number : Numbers, status : Status]

Ids == 1..MaxConsumers

CreatePc == {"createChain", "createNumber", "insert"}
UpdatePc == {"updateChain", "updateNumber", "write"}

\* seen is the place, and renames says whether the number differs from the
\* one, that the update read in its first query.
ConsumersRequest ==
    {Idle}
    \cup [pc : CreatePc, place : Place, number : Numbers]
    \cup [pc : UpdatePc, id : Ids, patch : Patches, number : Numbers \cup {Null},
          seen : Place, renames : BOOLEAN]

\* The tables and the requests keep their shape, and updates have their row.
ConsumersTypeOK ==
    /\ present \subseteq Nodes
    /\ consumers \in Seq(Consumer)
    /\ Len(consumers) <= MaxConsumers
    /\ req \in [Procs -> ConsumersRequest]
    /\ \A p \in Procs : req[p].pc \in UpdatePc => req[p].id \in DOMAIN consumers
    /\ mixed \subseteq Ids

ConsumersInit ==
    /\ present = Nodes
    /\ consumers = <<>>
    /\ req = [p \in Procs |-> Idle]
    /\ mixed = {}

-----------------------------------------------------------------------------

Continue(p, check, next) == Goto(p, IF check THEN [req[p] EXCEPT !.pc = next] ELSE Idle)

Merged(patch, place) == [f \in Fields |-> IF f \in DOMAIN patch THEN patch[f] ELSE place[f]]

\* Each node's parent is the node one field up.  Levels are not looked at.
IsChain(place) ==
    /\ Parent[place["khand"]] = place["jila"]
    /\ Parent[place["mandal"]] = place["khand"]
    /\ Parent[place["gram"]] = place["mandal"]

\* validateHierarchy, which reads three of the nodes side by side.
ValidPlace(place) ==
    /\ {place["khand"], place["mandal"], place["gram"]} \subseteq present
    /\ IsChain(place)

Resolves(place) == \A f \in Fields : place[f] \in present

NumberTaken(number, except) ==
    \E c \in DOMAIN consumers \ except : consumers[c].number = number

\* Mutant: the database relies on the service's check.
NoIndex(number, except) == FALSE

\* The unique index on whatsapp_mobile.
IndexClash(number, except) == NumberTaken(number, except)

-----------------------------------------------------------------------------
(* create *)

Create(p) ==
    /\ req[p] = Idle
    /\ \E place \in Places, number \in Numbers :
        Goto(p, [pc |-> "createChain", place |-> place, number |-> number])
    /\ UNCHANGED <<present, consumers, mixed>>

CreateChain(p) ==
    /\ req[p].pc = "createChain"
    /\ Continue(p, ValidPlace(req[p].place), "createNumber")
    /\ UNCHANGED <<present, consumers, mixed>>

CreateNumber(p) ==
    /\ req[p].pc = "createNumber"
    /\ Continue(p, ~NumberTaken(req[p].number, {}), "insert")
    /\ UNCHANGED <<present, consumers, mixed>>

\* The foreign keys and the index have the last word.
Insert(p) ==
    /\ req[p].pc = "insert"
    /\ Len(consumers) < MaxConsumers
    /\ LET r == req[p]
       IN consumers' = IF Resolves(r.place) /\ ~IndexClash(r.number, {})
                       THEN Append(consumers, [place |-> r.place, number |-> r.number,
                                               status |-> "Active"])
                       ELSE consumers
    /\ Goto(p, Idle)
    /\ UNCHANGED <<present, mixed>>

-----------------------------------------------------------------------------
(* update and setStatus *)

Moves(r) == r.pc \in UpdatePc /\ DOMAIN r.patch # {}

Update(p) ==
    /\ req[p] = Idle
    /\ \E c \in DOMAIN consumers, patch \in Patches, number \in Numbers \cup {Null} :
        Goto(p, [pc |-> IF DOMAIN patch # {} THEN "updateChain" ELSE "updateNumber",
                 id |-> c, patch |-> patch, number |-> number,
                 seen |-> consumers[c].place,
                 renames |-> number \notin {Null, consumers[c].number}])
    /\ UNCHANGED <<present, consumers, mixed>>

\* Mutant: only what the request names is validated.
UpdateChainGiven(p) ==
    /\ req[p].pc = "updateChain"
    /\ LET r == req[p]
       IN Continue(p, \/ DOMAIN r.patch # Fields
                      \/ ValidPlace(Merged(r.patch, r.seen)), "updateNumber")
    /\ UNCHANGED <<present, consumers, mixed>>

UpdateChain(p) ==
    /\ req[p].pc = "updateChain"
    /\ Continue(p, ValidPlace(Merged(req[p].patch, req[p].seen)), "updateNumber")
    /\ UNCHANGED <<present, consumers, mixed>>

UpdateNumber(p) ==
    /\ req[p].pc = "updateNumber"
    /\ LET r == req[p]
       IN Continue(p, r.renames => ~NumberTaken(r.number, {r.id}), "write")
    /\ UNCHANGED <<present, consumers, mixed>>

\* Mutant: a number the request does not name is written as well.
NamedNumber(r) == r.number

\* Null stands for a number the request does not name.
NumberOf(r) == IF r.number = Null THEN consumers[r.id].number ELSE r.number

\* Only what the request names is written, into the row as it is by now.
UpdateWrite(p) ==
    /\ req[p].pc = "write"
    /\ LET r == req[p]
           row == consumers[r.id]
           place == Merged(r.patch, row.place)
           number == NumberOf(r)
           writes == Resolves(place) /\ ~IndexClash(number, {r.id})
       IN /\ consumers' = IF writes
                          THEN [consumers EXCEPT ![r.id] = [place |-> place, number |-> number,
                                                            status |-> row.status]]
                          ELSE consumers
          /\ mixed' = mixed \cup
                {c \in {r.id} : /\ writes /\ Moves(r)
                                /\ \E q \in Procs \ {p} : Moves(req[q]) /\ req[q].id = c}
    /\ Goto(p, Idle)
    /\ UNCHANGED present

\* update writes the status as well, in the same way.
SetStatus(c, status) ==
    /\ consumers' = [consumers EXCEPT ![c].status = status]
    /\ UNCHANGED <<present, req, mixed>>

-----------------------------------------------------------------------------
(* HierarchyService.remove, and failures *)

\* What the foreign keys of hierarchy_node and consumer restrict.
Removable(n) ==
    /\ \A m \in present : Parent[m] # n
    /\ \A c \in DOMAIN consumers, f \in Fields : consumers[c].place[f] # n

RemoveNode(n) ==
    /\ Removable(n)
    /\ present' = present \ {n}
    /\ UNCHANGED <<consumers, req, mixed>>

\* A query fails or the worker dies; so ends, too, a create whose caller is
\* not in table user, which registered_by_id refers to.
Crash(p) ==
    /\ req[p] # Idle
    /\ Goto(p, Idle)
    /\ UNCHANGED <<present, consumers, mixed>>

ConsumersNext ==
    \/ \E p \in Procs :
        \/ Create(p) \/ CreateChain(p) \/ CreateNumber(p) \/ Insert(p)
        \/ Update(p) \/ UpdateChain(p) \/ UpdateNumber(p) \/ UpdateWrite(p)
        \/ Crash(p)
    \/ \E c \in DOMAIN consumers, status \in Status : SetStatus(c, status)
    \/ \E n \in present : RemoveNode(n)

ConsumersSpec == ConsumersInit /\ [][ConsumersNext]_consumersVars

-----------------------------------------------------------------------------

\* The nodes a consumer lives at exist, although create and update look at
\* them long before they write and remove deletes them meanwhile.
PlacesResolve == \A c \in DOMAIN consumers : Resolves(consumers[c].place)

\* They are a chain of the hierarchy, from the Jila's place down to the
\* Gram's, unless two updates that both moved the consumer overlapped: each
\* validates its part with what it read, and the other's part is what remains.
ChainHolds == \A c \in DOMAIN consumers : c \in mixed \/ IsChain(consumers[c].place)

\* A number tells consumers apart, whatever overlaps: of two requests that
\* both found it free, the index refuses the second.
NumbersDistinct ==
    \A c, d \in DOMAIN consumers : consumers[c].number = consumers[d].number => c = d

\* A place can be relied on: its nodes exist and hang together.
PlacesHold == PlacesResolve /\ ChainHolds

-----------------------------------------------------------------------------
(* The inductive invariant: the above, and what requests in flight rely on *)

\* What was validated is still a chain when it is written: for a create
\* because the tree is fixed, for an update because nobody else moved the
\* consumer.
RequestSound(r) ==
    /\ r.pc \in {"createNumber", "insert"} => IsChain(r.place)
    /\ Moves(r) /\ r.id \notin mixed =>
        /\ r.seen = consumers[r.id].place
        /\ r.pc \in {"updateNumber", "write"} => IsChain(Merged(r.patch, r.seen))

ConsumersInv ==
    /\ ConsumersTypeOK
    /\ PlacesHold
    /\ NumbersDistinct
    /\ \A p \in Procs : RequestSound(req[p])
=============================================================================
