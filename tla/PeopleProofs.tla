----------------------------- MODULE PeopleProofs -----------------------------
(***************************************************************************)
(* The two tables of people: consumers, who are placed on the hierarchy    *)
(* but do not sign in, and the accounts of those who do.  Their modules    *)
(* share request slots and no state, and no name but those of              *)
(* RequestSlots, so that one module can state what holds of both, for any  *)
(* number of overlapping requests.                                         *)
(***************************************************************************)
EXTENDS Consumers, Accounts, TLAPS

-----------------------------------------------------------------------------
(* Consumers: places hold and numbers are distinct, for every tree *)

\* Types that need no table to be looked at.
LEMMA ConsumersRequestTypes ==
    ASSUME ConsumersTypeOK, NEW p \in Procs
    PROVE  /\ req[p] = Idle \/ req[p].pc \in CreatePc \cup UpdatePc
           /\ req[p].pc \in CreatePc => /\ req[p].place \in Place
                                        /\ req[p].number \in Numbers
           /\ req[p].pc \in UpdatePc => /\ req[p].id \in DOMAIN consumers
                                        /\ req[p].patch \in Patches
                                        /\ req[p].number \in Numbers \cup {Null}
                                        /\ req[p].seen \in Place
                                        /\ req[p].renames \in BOOLEAN
  BY DEF ConsumersTypeOK, ConsumersRequest, Idle, CreatePc, UpdatePc

\* Rows have ids within the bound.
LEMMA ConsumerTypes ==
    ASSUME ConsumersTypeOK, NEW c \in DOMAIN consumers
    PROVE  c \in Ids /\ consumers[c] \in Consumer
  <1>1. consumers \in Seq(Consumer) /\ Len(consumers) <= MaxConsumers
    BY DEF ConsumersTypeOK
  <1>2. c \in 1..Len(consumers) /\ Len(consumers) \in Nat
    BY <1>1
  <1> QED
    BY <1>1, <1>2, MaxConsumersAssumption DEF Ids

\* A part of a place and a place make a place.
LEMMA MergedIsPlace ==
    ASSUME NEW patch \in Patches, NEW place \in Place
    PROVE  Merged(patch, place) \in Place
  <1>1. PICK A \in SUBSET Fields : patch \in [A -> Nodes]
    BY PatchesAssumption
  <1> QED
    BY <1>1 DEF Merged, Place

\* An update that names no field of the place leaves it as it is.
LEMMA MergedEmpty ==
    ASSUME NEW patch, NEW place \in Place, DOMAIN patch = {}
    PROVE  Merged(patch, place) = place
  BY DEF Merged, Place

\* The state of one slot changes, the tables do not.
LEMMA ConsumerSlotStep ==
    ASSUME ConsumersInv, NEW p \in Procs, NEW r \in ConsumersRequest,
           r.pc \in UpdatePc => r.id \in DOMAIN consumers,
           RequestSound(r), Goto(p, r), UNCHANGED <<present, consumers, mixed>>
    PROVE  ConsumersInv'
  <1>1. ConsumersTypeOK'
    BY DEF ConsumersInv, ConsumersTypeOK, Goto
  <1>2. PlacesHold' /\ NumbersDistinct'
    BY DEF ConsumersInv, PlacesHold, PlacesResolve, ChainHolds, Resolves, IsChain, NumbersDistinct
  <1>3. ASSUME NEW q \in Procs PROVE RequestSound(req[q])'
    <2>1. RequestSound(req'[q])
      <3>1. CASE q = p
        BY <3>1 DEF Goto, ConsumersInv, ConsumersTypeOK
      <3>2. CASE q # p
        BY <3>2 DEF Goto, ConsumersInv, ConsumersTypeOK
      <3> QED
        BY <3>1, <3>2
    <2> QED
      BY <2>1 DEF RequestSound, Moves, IsChain, Merged
  <1> QED
    BY <1>1, <1>2, <1>3 DEF ConsumersInv

LEMMA IdleConsumersRequest ==
    Idle \in ConsumersRequest /\ RequestSound(Idle) /\ Idle.pc \notin UpdatePc
  BY DEF Idle, ConsumersRequest, RequestSound, Moves, CreatePc, UpdatePc

\* The checks of create.
LEMMA CreatePreserves ==
    ASSUME ConsumersInv, NEW p \in Procs,
           Create(p) \/ CreateChain(p) \/ CreateNumber(p)
    PROVE  ConsumersInv'
  <1> ConsumersTypeOK
    BY DEF ConsumersInv
  <1>1. CASE Create(p)
    <2>1. PICK place \in Places, number \in Numbers :
            Goto(p, [pc |-> "createChain", place |-> place, number |-> number])
      BY <1>1 DEF Create
    <2> DEFINE r == [pc |-> "createChain", place |-> place, number |-> number]
    <2>2. r \in ConsumersRequest /\ RequestSound(r) /\ r.pc \notin UpdatePc
      BY PlacesAssumption DEF ConsumersRequest, CreatePc, UpdatePc, RequestSound, Moves
    <2> QED
      BY <1>1, <2>1, <2>2, ConsumerSlotStep DEF Create
  <1>2. ASSUME NEW next \in {"createNumber", "insert"}, req[p].pc \in CreatePc,
               IsChain(req[p].place)
        PROVE  LET r == [req[p] EXCEPT !.pc = next]
               IN r \in ConsumersRequest /\ RequestSound(r) /\ r.pc \notin UpdatePc
    <2>1. [req[p] EXCEPT !.pc = next]
            = [pc |-> next, place |-> req[p].place, number |-> req[p].number]
      BY <1>2, ConsumersRequestTypes DEF ConsumersTypeOK, ConsumersRequest, Idle, CreatePc, UpdatePc
    <2> QED
      BY <1>2, <2>1, ConsumersRequestTypes DEF ConsumersRequest, CreatePc, UpdatePc, RequestSound, Moves
  <1>3. CASE CreateChain(p)
    <2>1. CASE ValidPlace(req[p].place)
      BY <1>2, <1>3, <2>1, ConsumerSlotStep DEF CreateChain, Continue, ValidPlace, CreatePc
    <2>2. CASE ~ValidPlace(req[p].place)
      BY <1>3, <2>2, ConsumerSlotStep, IdleConsumersRequest DEF CreateChain, Continue
    <2> QED
      BY <2>1, <2>2
  <1>4. CASE CreateNumber(p)
    <2>1. IsChain(req[p].place)
      BY <1>4 DEF CreateNumber, ConsumersInv, RequestSound
    <2>2. CASE ~NumberTaken(req[p].number, {})
      BY <1>2, <1>4, <2>1, <2>2, ConsumerSlotStep DEF CreateNumber, Continue, CreatePc
    <2>3. CASE NumberTaken(req[p].number, {})
      BY <1>4, <2>3, ConsumerSlotStep, IdleConsumersRequest DEF CreateNumber, Continue
    <2> QED
      BY <2>2, <2>3
  <1> QED
    BY <1>1, <1>3, <1>4

\* The checks of update.
LEMMA UpdatePreserves ==
    ASSUME ConsumersInv, NEW p \in Procs,
           Update(p) \/ UpdateChain(p) \/ UpdateNumber(p)
    PROVE  ConsumersInv'
  <1> ConsumersTypeOK
    BY DEF ConsumersInv
  <1>1. CASE Update(p)
    <2>1. PICK c \in DOMAIN consumers, patch \in Patches, number \in Numbers \cup {Null} :
            Goto(p, [pc |-> IF DOMAIN patch # {} THEN "updateChain" ELSE "updateNumber",
                     id |-> c, patch |-> patch, number |-> number,
                     seen |-> consumers[c].place,
                     renames |-> number \notin {Null, consumers[c].number}])
      BY <1>1 DEF Update
    <2> DEFINE r == [pc |-> IF DOMAIN patch # {} THEN "updateChain" ELSE "updateNumber",
                     id |-> c, patch |-> patch, number |-> number,
                     seen |-> consumers[c].place,
                     renames |-> number \notin {Null, consumers[c].number}]
    <2>2. c \in Ids /\ consumers[c] \in Consumer
      BY ConsumerTypes
    <2>3. r \in ConsumersRequest
      BY <2>2 DEF ConsumersRequest, UpdatePc, Consumer
    <2>4. RequestSound(r)
      BY DEF RequestSound, Moves, CreatePc
    <2> QED
      BY <1>1, <2>1, <2>3, <2>4, ConsumerSlotStep DEF Update
  <1>2. ASSUME NEW next \in {"updateNumber", "write"}, req[p].pc \in UpdatePc,
               Moves(req[p]) /\ req[p].id \notin mixed
                 => IsChain(Merged(req[p].patch, req[p].seen))
        PROVE  LET r == [req[p] EXCEPT !.pc = next]
               IN r \in ConsumersRequest /\ RequestSound(r) /\ r.id \in DOMAIN consumers
    <2> DEFINE r == [req[p] EXCEPT !.pc = next]
    <2>1. r = [pc |-> next, id |-> req[p].id, patch |-> req[p].patch,
               number |-> req[p].number, seen |-> req[p].seen, renames |-> req[p].renames]
      BY <1>2, ConsumersRequestTypes DEF ConsumersTypeOK, ConsumersRequest, Idle, CreatePc, UpdatePc
    <2>2. r \in ConsumersRequest /\ r.id \in DOMAIN consumers
      <3>1. req[p].id \in Ids
        BY <1>2, ConsumersRequestTypes, ConsumerTypes
      <3> QED
        BY <1>2, <2>1, <3>1, ConsumersRequestTypes DEF ConsumersRequest, UpdatePc
    <2>3. RequestSound(r)
      BY <1>2, <2>1 DEF RequestSound, ConsumersInv, Moves, CreatePc, UpdatePc
    <2> QED
      BY <2>2, <2>3
  <1>3. CASE UpdateChain(p)
    <2>1. CASE ValidPlace(Merged(req[p].patch, req[p].seen))
      BY <1>2, <1>3, <2>1, ConsumerSlotStep DEF UpdateChain, Continue, ValidPlace, UpdatePc
    <2>2. CASE ~ValidPlace(Merged(req[p].patch, req[p].seen))
      BY <1>3, <2>2, ConsumerSlotStep, IdleConsumersRequest DEF UpdateChain, Continue
    <2> QED
      BY <2>1, <2>2
  <1>4. CASE UpdateNumber(p)
    <2> DEFINE free == req[p].renames => ~NumberTaken(req[p].number, {req[p].id})
    <2>1. Moves(req[p]) /\ req[p].id \notin mixed => IsChain(Merged(req[p].patch, req[p].seen))
      BY <1>4 DEF UpdateNumber, ConsumersInv, RequestSound
    <2>2. CASE free
      BY <1>2, <1>4, <2>1, <2>2, ConsumerSlotStep DEF UpdateNumber, Continue, UpdatePc
    <2>3. CASE ~free
      BY <1>4, <2>3, ConsumerSlotStep, IdleConsumersRequest DEF UpdateNumber, Continue
    <2> QED
      BY <2>2, <2>3
  <1> QED
    BY <1>1, <1>3, <1>4

\* The foreign keys and the index let a new row in.
LEMMA InsertPreserves ==
    ASSUME ConsumersInv, NEW p \in Procs, Insert(p)
    PROVE  ConsumersInv'
  <1> ConsumersTypeOK
    BY DEF ConsumersInv
  <1> DEFINE r == req[p]
             row == [place |-> r.place, number |-> r.number, status |-> "Active"]
             accepted == Resolves(r.place) /\ ~IndexClash(r.number, {})
  <1>1. r.pc = "insert" /\ Len(consumers) < MaxConsumers /\ IsChain(r.place)
    BY DEF Insert, ConsumersInv, RequestSound
  <1>2. row \in Consumer
    BY <1>1, ConsumersRequestTypes DEF Consumer, CreatePc, Status
  <1>3. CASE ~accepted
    BY <1>3, ConsumerSlotStep, IdleConsumersRequest DEF Insert
  <1>4. CASE accepted
    <2>1. consumers' = Append(consumers, row) /\ UNCHANGED <<present, mixed>> /\ Goto(p, Idle)
      BY <1>4 DEF Insert
    <2>2. /\ consumers' \in Seq(Consumer)
          /\ Len(consumers') = Len(consumers) + 1
          /\ \A c \in DOMAIN consumers : c \in DOMAIN consumers' /\ consumers'[c] = consumers[c]
          /\ consumers'[Len(consumers')] = row
          /\ DOMAIN consumers' = DOMAIN consumers \cup {Len(consumers')}
      BY <2>1, <1>2 DEF ConsumersTypeOK
    <2>3. ConsumersTypeOK'
      <3>1. req' \in [Procs -> ConsumersRequest]
        BY <2>1, IdleConsumersRequest DEF ConsumersTypeOK, Goto
      <3>2. ASSUME NEW q \in Procs, req'[q].pc \in UpdatePc PROVE req'[q].id \in DOMAIN consumers'
        BY <2>1, <2>2, <3>2, IdleConsumersRequest DEF ConsumersTypeOK, Goto
      <3>3. Len(consumers') <= MaxConsumers
        BY <1>1, <2>2, MaxConsumersAssumption DEF ConsumersTypeOK
      <3> QED
        BY <2>1, <2>2, <3>1, <3>2, <3>3 DEF ConsumersTypeOK
    <2>4. PlacesHold'
      BY <1>1, <1>4, <2>1, <2>2
      DEF ConsumersInv, PlacesHold, PlacesResolve, ChainHolds, Resolves, IsChain
    <2>5. NumbersDistinct'
      <3>1. \A c \in DOMAIN consumers : consumers[c].number # row.number
        BY <1>4 DEF IndexClash, NumberTaken
      <3> QED
        BY <2>2, <3>1 DEF ConsumersInv, NumbersDistinct
    <2>6. ASSUME NEW q \in Procs PROVE RequestSound(req[q])'
      <3>1. CASE q = p
        BY <2>1, <3>1, IdleConsumersRequest DEF RequestSound, ConsumersTypeOK, Goto, Moves, Idle, CreatePc, UpdatePc
      <3>2. CASE q # p
        <4>1. req'[q] = req[q] /\ RequestSound(req[q])
          BY <2>1, <3>2 DEF Goto, ConsumersTypeOK, ConsumersInv
        <4>2. Moves(req[q]) => consumers'[req[q].id] = consumers[req[q].id]
          BY <2>2 DEF Moves, ConsumersTypeOK
        <4> QED
          BY <2>1, <4>1, <4>2 DEF RequestSound, Moves, IsChain, Merged
      <3> QED
        BY <3>1, <3>2
    <2> QED
      BY <2>3, <2>4, <2>5, <2>6 DEF ConsumersInv
  <1> QED
    BY <1>3, <1>4

\* A row changes in place: the part of the argument UpdateWrite and SetStatus
\* share.  Only rows in `moved` change their place.
LEMMA RowChanges ==
    ASSUME ConsumersInv, NEW c \in DOMAIN consumers, NEW row \in Consumer,
           consumers' = [consumers EXCEPT ![c] = row], present' = present,
           Resolves(row.place), IsChain(row.place) \/ c \in mixed',
           mixed \subseteq mixed', mixed' \subseteq Ids,
           \A d \in DOMAIN consumers \ {c} : consumers[d].number # row.number,
           req' \in [Procs -> ConsumersRequest],
           \A q \in Procs : req'[q] \in {req[q], Idle},
           \A q \in Procs : /\ req'[q] # Idle /\ Moves(req[q])
                            /\ req[q].id = c /\ c \notin mixed'
                            => row.place = consumers[c].place
    PROVE  ConsumersInv'
  <1> ConsumersTypeOK
    BY DEF ConsumersInv
  <1>1. /\ consumers' \in Seq(Consumer)
        /\ DOMAIN consumers' = DOMAIN consumers
        /\ Len(consumers') = Len(consumers)
        /\ \A d \in DOMAIN consumers : consumers'[d] = IF d = c THEN row ELSE consumers[d]
    BY DEF ConsumersTypeOK
  <1>2. ConsumersTypeOK'
    BY <1>1, IdleConsumersRequest DEF ConsumersTypeOK
  <1>3. PlacesHold'
    BY <1>1 DEF ConsumersInv, PlacesHold, PlacesResolve, ChainHolds, Resolves, IsChain
  <1>4. NumbersDistinct'
    BY <1>1 DEF ConsumersInv, NumbersDistinct
  <1>5. ASSUME NEW q \in Procs PROVE RequestSound(req[q])'
    <2>1. CASE req'[q] = Idle
      BY <2>1 DEF RequestSound, Moves, Idle, CreatePc, UpdatePc
    <2>2. CASE req'[q] # Idle
      <3>1. req'[q] = req[q] /\ RequestSound(req[q])
        BY <2>2 DEF ConsumersInv
      <3>2. Moves(req[q]) /\ req[q].id \notin mixed'
              => consumers'[req[q].id].place = consumers[req[q].id].place
        BY <1>1, <2>2, <3>1 DEF ConsumersTypeOK, Moves
      <3> QED
        BY <3>1, <3>2 DEF RequestSound, Moves, IsChain, Merged
    <2> QED
      BY <2>1, <2>2
  <1> QED
    BY <1>2, <1>3, <1>4, <1>5 DEF ConsumersInv

\* The write of update: the place that results was validated as a whole,
\* unless somebody else has moved the consumer meanwhile.
LEMMA UpdateWritePreserves ==
    ASSUME ConsumersInv, NEW p \in Procs, UpdateWrite(p)
    PROVE  ConsumersInv'
  <1> ConsumersTypeOK
    BY DEF ConsumersInv
  <1> DEFINE r == req[p]
             old == consumers[r.id]
             place == Merged(r.patch, old.place)
             number == NumberOf(r)
             row == [place |-> place, number |-> number, status |-> old.status]
             writes == Resolves(place) /\ ~IndexClash(number, {r.id})
  <1>1. /\ r.pc = "write" /\ r.id \in DOMAIN consumers /\ r.patch \in Patches
        /\ r.number \in Numbers \cup {Null} /\ r.seen \in Place
    BY ConsumersRequestTypes DEF UpdateWrite, UpdatePc
  <1>2. old \in Consumer /\ old.place \in Place
    <2>1. old \in Consumer
      BY <1>1, ConsumerTypes
    <2> QED
      BY <2>1 DEF Consumer
  <1>3. row \in Consumer
    BY <1>1, <1>2, MergedIsPlace DEF Consumer, NumberOf
  <1>4. CASE ~writes
    <2>1. UNCHANGED <<present, consumers>> /\ mixed' = mixed /\ Goto(p, Idle)
      BY <1>4 DEF UpdateWrite
    <2> QED
      BY <2>1, ConsumerSlotStep, IdleConsumersRequest
  <1>5. CASE writes
    <2>1. /\ consumers' = [consumers EXCEPT ![r.id] = row] /\ present' = present
          /\ req' = [req EXCEPT ![p] = Idle]
          /\ mixed' = mixed \cup
                {c \in {r.id} : Moves(r) /\ \E q \in Procs \ {p} : Moves(req[q]) /\ req[q].id = c}
      BY <1>5 DEF UpdateWrite, Goto
    <2>2. IsChain(place) \/ r.id \in mixed'
      <3>1. CASE r.id \in mixed
        BY <2>1, <3>1
      <3>2. CASE r.id \notin mixed /\ Moves(r)
        BY <1>1, <3>2 DEF ConsumersInv, RequestSound
      <3>3. CASE r.id \notin mixed /\ ~Moves(r)
        <4>1. place = old.place
          BY <1>1, <1>2, <3>3, MergedEmpty DEF Moves, UpdatePc
        <4> QED
          BY <1>1, <3>3, <4>1 DEF ConsumersInv, PlacesHold, ChainHolds
      <3> QED
        BY <3>1, <3>2, <3>3
    <2>3. \A d \in DOMAIN consumers \ {r.id} : consumers[d].number # number
      BY <1>5 DEF IndexClash, NumberTaken
    <2>4. req' \in [Procs -> ConsumersRequest] /\ \A q \in Procs : req'[q] \in {req[q], Idle}
      BY <2>1, IdleConsumersRequest DEF ConsumersTypeOK
    <2>5. mixed \subseteq mixed' /\ mixed' \subseteq Ids
      <3>1. r.id \in Ids
        BY <1>1, ConsumerTypes
      <3> QED
        BY <2>1, <3>1 DEF ConsumersTypeOK
    <2>6. ASSUME NEW q \in Procs, req'[q] # Idle, Moves(req[q]), req[q].id = r.id,
                 r.id \notin mixed'
          PROVE  place = old.place
      <3>1. q # p
        BY <2>1, <2>6 DEF ConsumersTypeOK
      <3>2. ~Moves(r)
        BY <2>1, <2>6, <3>1
      <3> QED
        BY <1>1, <1>2, <3>2, MergedEmpty DEF Moves, UpdatePc
    <2>7. row.place = place /\ row.number = number
      OBVIOUS
    <2>8. /\ r.id \in DOMAIN consumers /\ row \in Consumer
          /\ consumers' = [consumers EXCEPT ![r.id] = row] /\ present' = present
      BY <1>1, <1>3, <2>1
    <2>9. Resolves(row.place) /\ (IsChain(row.place) \/ r.id \in mixed')
      BY <1>5, <2>2, <2>7
    <2>10. \A d \in DOMAIN consumers \ {r.id} : consumers[d].number # row.number
      BY <2>3, <2>7
    <2>11. \A q \in Procs : /\ req'[q] # Idle /\ Moves(req[q])
                            /\ req[q].id = r.id /\ r.id \notin mixed'
                            => row.place = consumers[r.id].place
      BY <2>6, <2>7
    <2> HIDE DEF r, row, place, number, old, writes
    <2> QED
      BY <2>4, <2>5, <2>8, <2>9, <2>10, <2>11, RowChanges
  <1> QED
    BY <1>4, <1>5

LEMMA SetStatusPreserves ==
    ASSUME ConsumersInv, NEW c \in DOMAIN consumers, NEW status \in Status,
           SetStatus(c, status)
    PROVE  ConsumersInv'
  <1> ConsumersTypeOK
    BY DEF ConsumersInv
  <1> DEFINE row == [consumers[c] EXCEPT !.status = status]
  <1>1. consumers[c] \in Consumer
    BY DEF ConsumersTypeOK
  <1>2. row \in Consumer /\ row.place = consumers[c].place /\ row.number = consumers[c].number
    BY <1>1 DEF Consumer
  <1>3. consumers' = [consumers EXCEPT ![c] = row]
    BY DEF SetStatus
  <1>4. Resolves(row.place) /\ (IsChain(row.place) \/ c \in mixed')
    BY <1>2 DEF SetStatus, ConsumersInv, PlacesHold, PlacesResolve, ChainHolds
  <1>5. \A d \in DOMAIN consumers \ {c} : consumers[d].number # row.number
    BY <1>2 DEF ConsumersInv, NumbersDistinct
  <1>6. /\ present' = present /\ mixed' = mixed /\ mixed \subseteq Ids
        /\ req' \in [Procs -> ConsumersRequest] /\ \A q \in Procs : req'[q] \in {req[q], Idle}
    BY DEF SetStatus, ConsumersTypeOK
  <1> QED
    BY <1>2, <1>3, <1>4, <1>5, <1>6, RowChanges

\* A node goes only when no consumer lives there.
LEMMA RemovePreserves ==
    ASSUME ConsumersInv, NEW n \in present, RemoveNode(n)
    PROVE  ConsumersInv'
  <1>1. PlacesResolve'
    BY DEF RemoveNode, Removable, ConsumersInv, PlacesHold, PlacesResolve, Resolves
  <1> QED
    BY <1>1 DEF RemoveNode, ConsumersInv, ConsumersTypeOK, PlacesHold, ChainHolds, NumbersDistinct,
                RequestSound, Moves, IsChain, Merged

LEMMA InitConsumers == ConsumersInit => ConsumersInv
  <1> SUFFICES ASSUME ConsumersInit PROVE ConsumersInv
    OBVIOUS
  <1>1. consumers = <<>> /\ DOMAIN consumers = {} /\ Len(consumers) = 0
    BY DEF ConsumersInit
  <1>2. ConsumersTypeOK
    BY <1>1, IdleConsumersRequest, MaxConsumersAssumption DEF ConsumersInit, ConsumersTypeOK
  <1>3. PlacesHold /\ NumbersDistinct
    BY <1>1 DEF PlacesHold, PlacesResolve, ChainHolds, NumbersDistinct
  <1>4. \A p \in Procs : RequestSound(req[p])
    BY IdleConsumersRequest DEF ConsumersInit
  <1> QED
    BY <1>2, <1>3, <1>4 DEF ConsumersInv

LEMMA NextConsumers == ConsumersInv /\ [ConsumersNext]_consumersVars => ConsumersInv'
  <1> SUFFICES ASSUME ConsumersInv, [ConsumersNext]_consumersVars PROVE ConsumersInv'
    OBVIOUS
  <1>1. ASSUME NEW p \in Procs, Create(p) \/ CreateChain(p) \/ CreateNumber(p) PROVE ConsumersInv'
    BY <1>1, CreatePreserves
  <1>2. ASSUME NEW p \in Procs, Update(p) \/ UpdateChain(p) \/ UpdateNumber(p) PROVE ConsumersInv'
    BY <1>2, UpdatePreserves
  <1>3. ASSUME NEW p \in Procs, Insert(p) PROVE ConsumersInv'
    BY <1>3, InsertPreserves
  <1>4. ASSUME NEW p \in Procs, UpdateWrite(p) PROVE ConsumersInv'
    BY <1>4, UpdateWritePreserves
  <1>5. ASSUME NEW p \in Procs, Crash(p) PROVE ConsumersInv'
    BY <1>5, ConsumerSlotStep, IdleConsumersRequest DEF Crash
  <1>6. ASSUME NEW c \in DOMAIN consumers, NEW status \in Status, SetStatus(c, status)
        PROVE  ConsumersInv'
    BY <1>6, SetStatusPreserves
  <1>7. ASSUME NEW n \in present, RemoveNode(n) PROVE ConsumersInv'
    BY <1>7, RemovePreserves
  <1>8. CASE UNCHANGED consumersVars
    BY <1>8 DEF consumersVars, ConsumersInv, ConsumersTypeOK, PlacesHold, PlacesResolve, ChainHolds, Resolves,
                NumbersDistinct, RequestSound, Moves, IsChain, Merged
  <1> QED
    BY <1>1, <1>2, <1>3, <1>4, <1>5, <1>6, <1>7, <1>8 DEF ConsumersNext

\* The inductive invariant holds of every behaviour.
THEOREM ConsumersInvariant == ConsumersSpec => []ConsumersInv
  BY InitConsumers, NextConsumers, PTL DEF ConsumersSpec

\* Type correctness.
THEOREM ConsumersTypeCorrect == ConsumersSpec => []ConsumersTypeOK
  <1>1. ConsumersInv => ConsumersTypeOK
    BY DEF ConsumersInv
  <1> QED
    BY ConsumersInvariant, <1>1, PTL

\* Consumers live at nodes that exist and, unless two updates moved them at
\* once, hang together.
THEOREM PlacesAreReliable == ConsumersSpec => []PlacesHold
  <1>1. ConsumersInv => PlacesHold
    BY DEF ConsumersInv
  <1> QED
    BY ConsumersInvariant, <1>1, PTL

\* No two consumers share a number.
THEOREM NumbersStayDistinct == ConsumersSpec => []NumbersDistinct
  <1>1. ConsumersInv => NumbersDistinct
    BY DEF ConsumersInv
  <1> QED
    BY ConsumersInvariant, <1>1, PTL

-----------------------------------------------------------------------------
(* Accounts: contacts are unique, images stay, and passwords change hands only
   on the word of somebody who has a say *)


\* What a slot may hold, by its pc.
LEMMA AccountsRequestTypes ==
    ASSUME NEW r \in AccountsRequest
    PROVE  /\ r = Idle \/ r.pc \in {"claim", "change", "find", "verify", "reset",
                                    "image", "remove", "move", "commit"}
           /\ r.pc = "claim" =>
                /\ r \in [pc : {"claim"}, user : Users \cup {None}, contact : Contact,
                          password : Passwords \cup {None}, left : SUBSET Kinds]
           /\ r.pc = "change" =>
                /\ r \in [pc : {"change"}, user : Users, old : Passwords, new : Passwords,
                          stale : BOOLEAN]
           /\ r.pc \in {"find", "verify", "reset"} =>
                /\ r \in [pc : {"find", "verify", "reset"}, user : Users \cup {None},
                          contact : Contact, new : Passwords,
                          left : SUBSET {"email", "mobile"}, missed : BOOLEAN,
                          stale : BOOLEAN]
           /\ r.pc \in {"image", "remove", "move", "commit"} =>
                /\ r \in [pc : {"image", "remove", "move", "commit"}, user : Users,
                          image : Images, old : Images \cup {None}]
  BY DEF AccountsRequest, Idle

\* A slot at rest asks for nothing.
LEMMA IdleIsFounded ==
    /\ Idle \in AccountsRequest
    /\ Founded(Idle) /\ ImagesAtHand(Idle) /\ SayKept(Idle)
    /\ \A u : ~Holds(Idle, u)
  BY DEF Idle, AccountsRequest, Founded, ImagesAtHand, SayKept, Holds

\* The parts of AccountsTypeOK.
LEMMA AccountTypes ==
    ASSUME AccountsTypeOK
    PROVE  /\ \A u \in Users : Exists(u) => users[u] \in User
           /\ \A u, v \in Users, k \in Kinds :
                Exists(u) /\ Exists(v) /\ u # v /\ users[u].contact[k] # None
                => users[u].contact[k] # users[v].contact[k]
           /\ \A p \in Procs : req[p] \in AccountsRequest
  BY DEF AccountsTypeOK, Exists

\* The state of one slot changes, the tables do not.
LEMMA AccountSlotStep ==
    ASSUME AccountsInv, NEW p \in Procs, NEW r \in AccountsRequest,
           Founded(r), ImagesAtHand(r), SayKept(r),
           \A u \in Users : Holds(r, u) => Holds(req[p], u) \/ ~Locked(u),
           Goto(p, r), UNCHANGED <<users, files, hurt>>
    PROVE  AccountsInv'
  <1>1. /\ req' \in [Procs -> AccountsRequest]
        /\ req'[p] = r
        /\ \A q \in Procs \ {p} : req'[q] = req[q]
    BY DEF Goto, AccountsInv, AccountsTypeOK
  <1>2. AccountsTypeOK'
    BY <1>1 DEF AccountsInv, AccountsTypeOK
  <1>3. ImageKept' /\ ImagesOwned'
    BY DEF AccountsInv, ImageKept, ImagesOwned, Exists
  <1>4. OneHolder'
    <2> SUFFICES ASSUME NEW q1 \in Procs, NEW q2 \in Procs, NEW u \in Users,
                        Holds(req'[q1], u), Holds(req'[q2], u)
                 PROVE  q1 = q2
      BY DEF OneHolder
    <2>1. OneHolder
      BY DEF AccountsInv
    <2>2. \A q \in Procs : Holds(req[q], u) => Locked(u)
      BY DEF Locked
    <2>3. CASE q1 # p /\ q2 # p
      BY <1>1, <2>1, <2>3 DEF OneHolder
    <2>4. CASE q1 = p \/ q2 = p
      BY <1>1, <2>1, <2>2, <2>4 DEF OneHolder
    <2> QED
      BY <2>3, <2>4
  <1>5. ASSUME NEW q \in Procs
        PROVE  (Founded(req[q]) /\ ImagesAtHand(req[q]) /\ SayKept(req[q]))'
    <2>1. PICK s : s = req'[q]
      OBVIOUS
    <2>2. Founded(s) /\ ImagesAtHand(s) /\ SayKept(s)
      BY <1>1, <2>1 DEF AccountsInv
    <2>3. Founded(s)' /\ ImagesAtHand(s)' /\ SayKept(s)'
      BY <2>2 DEF Founded, ImagesAtHand, SayKept, Exists, Matches, Answers, Has
    <2> QED
      BY <2>1, <2>3 DEF Founded, ImagesAtHand, SayKept, Exists, Matches, Answers, Has
  <1> QED
    BY <1>2, <1>3, <1>4, <1>5 DEF AccountsInv

\* Requests begin with what they are given.
LEMMA ClaimPreserves ==
    ASSUME AccountsInv, NEW p \in Procs,
           Register(p) \/ UpdateProfileDetails(p) \/ UpdateByAdministrator(p)
    PROVE  AccountsInv'
  <1>1. PICK u \in Users \cup {None}, c \in Contacts, password \in Passwords \cup {None} :
          /\ Claim(p, u, c, password)
          /\ u # None => Exists(u)
          /\ u = None => password # None
    BY NoneAssumption DEF Register, UpdateProfileDetails, UpdateByAdministrator
  <1>2. PICK r : r = [pc |-> "claim", user |-> u, contact |-> c, password |-> password,
                      left |-> Given(c)]
    OBVIOUS
  <1>3. r \in AccountsRequest
    BY <1>2, ContactsAssumption DEF AccountsRequest, Given
  <1>4. Founded(r) /\ ImagesAtHand(r) /\ SayKept(r) /\ \A v : ~Holds(r, v)
    BY <1>1, <1>2 DEF Founded, ImagesAtHand, SayKept, Holds
  <1>5. Goto(p, r) /\ UNCHANGED <<users, files, hurt>>
    BY <1>1, <1>2 DEF Claim, Register, UpdateProfileDetails, UpdateByAdministrator, Unchanged
  <1> QED
    BY <1>3, <1>4, <1>5, AccountSlotStep

\* The first look-ups of changePassword, resetPassword and updateProfileImage.
LEMMA BeginPreserves ==
    ASSUME AccountsInv, NEW p \in Procs,
           ChangePassword(p) \/ Reset(p) \/ UpdateProfileImage(p)
    PROVE  AccountsInv'
  <1>1. CASE ChangePassword(p)
    <2>1. PICK u \in Users, old \in Passwords, new \in Passwords :
            /\ Exists(u) /\ Matches(u, old)
            /\ Goto(p, [pc |-> "change", user |-> u, old |-> old, new |-> new,
                        stale |-> FALSE])
      BY <1>1 DEF ChangePassword
    <2>2. PICK r : r = [pc |-> "change", user |-> u, old |-> old, new |-> new, stale |-> FALSE]
      OBVIOUS
    <2>3. r \in AccountsRequest
      BY <2>2 DEF AccountsRequest
    <2>4. Founded(r) /\ ImagesAtHand(r) /\ SayKept(r) /\ \A v : ~Holds(r, v)
      BY <2>1, <2>2 DEF Founded, ImagesAtHand, SayKept, Holds
    <2> QED
      BY <1>1, <2>1, <2>2, <2>3, <2>4, AccountSlotStep DEF ChangePassword, Unchanged
  <1>2. CASE Reset(p)
    <2>1. PICK c \in Contacts, new \in Passwords :
            /\ c["username"] = None /\ Given(c) # {}
            /\ Goto(p, [pc |-> "find", user |-> None, contact |-> c, new |-> new,
                        left |-> Given(c), missed |-> FALSE, stale |-> FALSE])
      BY <1>2 DEF Reset
    <2>2. PICK r : r = [pc |-> "find", user |-> None, contact |-> c, new |-> new,
                        left |-> Given(c), missed |-> FALSE, stale |-> FALSE]
      OBVIOUS
    <2>3. Given(c) \subseteq {"email", "mobile"}
      BY <2>1 DEF Given, Kinds
    <2>4. r \in AccountsRequest
      BY <2>2, <2>3, ContactsAssumption DEF AccountsRequest
    <2>5. Founded(r) /\ ImagesAtHand(r) /\ SayKept(r) /\ \A v : ~Holds(r, v)
      BY <2>1, <2>2, <2>3 DEF Founded, ImagesAtHand, SayKept, Holds
    <2> QED
      BY <1>2, <2>1, <2>2, <2>4, <2>5, AccountSlotStep DEF Reset, Unchanged
  <1>3. CASE UpdateProfileImage(p)
    <2>1. PICK i \in Images :
            /\ files[i] # "none"
            /\ Goto(p, [pc |-> "image", user |-> Uploader[i], image |-> i,
                        old |-> users[Uploader[i]].image])
      BY <1>3 DEF UpdateProfileImage
    <2>2. PICK u \in Users : u = Uploader[i]
      BY UploaderAssumption
    <2>3. PICK r : r = [pc |-> "image", user |-> u, image |-> i, old |-> users[u].image]
      OBVIOUS
    <2>4. Exists(u) /\ users[u] \in User /\ (users[u].image # None => Uploader[users[u].image] = u)
      BY <2>1, <2>2, AccountTypes DEF AccountsInv, ImagesOwned
    <2>5. r \in AccountsRequest
      BY <2>3, <2>4 DEF AccountsRequest, User
    <2>6. Founded(r) /\ ImagesAtHand(r) /\ SayKept(r) /\ \A v : ~Holds(r, v)
      BY <2>2, <2>3, <2>4 DEF Founded, ImagesAtHand, SayKept, Holds
    <2> QED
      BY <1>3, <2>1, <2>2, <2>3, <2>5, <2>6, AccountSlotStep DEF UpdateProfileImage, Unchanged
  <1> QED
    BY <1>1, <1>2, <1>3

\* The look-ups that follow.
LEMMA LookUpPreserves ==
    ASSUME AccountsInv, NEW p \in Procs, CheckTaken(p) \/ Find(p) \/ Verify(p)
    PROVE  AccountsInv'
  <1>1. PICK r : r = req[p]
    OBVIOUS
  <1>2. r \in AccountsRequest /\ Founded(r)
    BY <1>1, AccountTypes DEF AccountsInv
  <1>3. CASE CheckTaken(p)
    <2>1. PICK s : s = [r EXCEPT !.left = @ \ {First(r.left)}]
      OBVIOUS
    <2>2. r.pc = "claim" /\ Goto(p, s) /\ UNCHANGED <<users, files, hurt>>
      BY <1>1, <1>3, <2>1 DEF CheckTaken, Unchanged
    <2>3. s \in AccountsRequest /\ s.pc = "claim" /\ s.user = r.user /\ s.password = r.password
      BY <1>2, <2>1, <2>2, AccountsRequestTypes DEF AccountsRequest
    <2>4. Founded(s) /\ ImagesAtHand(s) /\ SayKept(s) /\ \A v : ~Holds(s, v)
      BY <1>2, <2>2, <2>3 DEF Founded, ImagesAtHand, SayKept, Holds
    <2> QED
      BY <2>2, <2>3, <2>4, AccountSlotStep
  <1>4. CASE Find(p)
    <2>1. PICK k : k = First(r.left)
      OBVIOUS
    <2>2. /\ r.pc = "find" /\ UNCHANGED <<users, files, hurt>>
          /\ \/ \E u \in Users : Exists(u) /\ Has(u, k, r.contact[k])
                  /\ Goto(p, [r EXCEPT !.pc = "verify", !.user = u, !.left = Given(r.contact)])
             \/ r.left \ {k} # {} /\ Goto(p, [r EXCEPT !.left = r.left \ {k}, !.missed = TRUE])
      BY <1>1, <1>4, <2>1 DEF Find, Unchanged
    <2>3. /\ r \in [pc : {"find", "verify", "reset"}, user : Users \cup {None},
                    contact : Contact, new : Passwords,
                    left : SUBSET {"email", "mobile"}, missed : BOOLEAN, stale : BOOLEAN]
          /\ r.left # {} /\ r.left \subseteq Given(r.contact)
          /\ Given(r.contact) \subseteq {"email", "mobile"}
          /\ r.missed \/ r.left = Given(r.contact)
      BY <1>2, <2>2, AccountsRequestTypes DEF Founded
    <2>4. k \in {"email", "mobile"} /\ r.contact[k] # None
      BY <2>1, <2>3 DEF First, Given
    <2>5. ASSUME NEW u \in Users, Exists(u), Has(u, k, r.contact[k]),
                 NEW s, s = [r EXCEPT !.pc = "verify", !.user = u, !.left = Given(r.contact)],
                 Goto(p, s)
          PROVE  AccountsInv'
      <3>1. s \in AccountsRequest /\ s.pc = "verify" /\ s.user = u /\ s.contact = r.contact
            /\ s.missed = r.missed
        BY <2>3, <2>5 DEF AccountsRequest
      <3>2. SayKept(s)
        BY <2>1, <2>3, <2>5, <3>1 DEF SayKept, Answers
      <3>3. Founded(s) /\ ImagesAtHand(s) /\ \A v : ~Holds(s, v)
        BY <2>5, <3>1 DEF Founded, ImagesAtHand, Holds
      <3> QED
        BY <2>2, <2>5, <3>1, <3>2, <3>3, AccountSlotStep
    <2>6. ASSUME r.left \ {k} # {}, NEW s, s = [r EXCEPT !.left = r.left \ {k}, !.missed = TRUE],
                 Goto(p, s)
          PROVE  AccountsInv'
      <3>1. s \in AccountsRequest /\ s.pc = "find" /\ s.left = r.left \ {k}
            /\ s.contact = r.contact /\ s.missed
        BY <2>2, <2>3, <2>6 DEF AccountsRequest
      <3>2. Founded(s) /\ ImagesAtHand(s) /\ SayKept(s) /\ \A v : ~Holds(s, v)
        BY <2>3, <2>6, <3>1 DEF Founded, ImagesAtHand, SayKept, Holds
      <3> QED
        BY <2>2, <2>6, <3>1, <3>2, AccountSlotStep
    <2> QED
      BY <2>2, <2>5, <2>6
  <1>5. CASE Verify(p)
    <2>1. PICK pc \in {"verify", "reset"}, left \in SUBSET {"email", "mobile"} :
            /\ r.pc = "verify" /\ UNCHANGED <<users, files, hurt>>
            /\ Goto(p, [r EXCEPT !.pc = pc, !.left = left])
      <3>1. r.pc = "verify"
        BY <1>1, <1>5 DEF Verify
      <3>2. r.left \in SUBSET {"email", "mobile"}
        BY <1>2, <3>1, AccountsRequestTypes
      <3> QED
        BY <1>1, <1>5, <3>2 DEF Verify, Unchanged
    <2>2. PICK s : s = [r EXCEPT !.pc = pc, !.left = left]
      OBVIOUS
    <2>3. r \in [pc : {"find", "verify", "reset"}, user : Users \cup {None},
                 contact : Contact, new : Passwords,
                 left : SUBSET {"email", "mobile"}, missed : BOOLEAN, stale : BOOLEAN]
      BY <1>2, <2>1, AccountsRequestTypes
    <2>4. s \in AccountsRequest /\ s.pc = pc /\ s.user = r.user /\ s.contact = r.contact
          /\ s.missed = r.missed /\ s.stale = r.stale
      BY <2>2, <2>3 DEF AccountsRequest
    <2>5. SayKept(r)
      BY <1>1 DEF AccountsInv
    <2>6. SayKept(s)
      BY <2>1, <2>4, <2>5 DEF SayKept
    <2>7. Founded(s) /\ ImagesAtHand(s) /\ \A v : ~Holds(s, v)
      BY <1>2, <2>1, <2>4 DEF Founded, ImagesAtHand, Holds
    <2> QED
      BY <2>1, <2>2, <2>4, <2>6, <2>7, AccountSlotStep
  <1> QED
    BY <1>3, <1>4, <1>5

\* An update of an image takes its row, or a request gives up.
LEMMA WriteImagePreserves ==
    ASSUME AccountsInv, NEW p \in Procs, WriteImage(p)
    PROVE  AccountsInv'
  <1>1. PICK r : r = req[p]
    OBVIOUS
  <1>2. PICK s : s = [r EXCEPT !.pc = "remove"]
    OBVIOUS
  <1>3. /\ r.pc = "image" /\ ~Locked(r.user) /\ Goto(p, s)
        /\ UNCHANGED <<users, files, hurt>>
    BY <1>1, <1>2 DEF WriteImage, Unchanged
  <1>4. r \in AccountsRequest /\ Founded(r) /\ ImagesAtHand(r)
    BY <1>1, AccountTypes DEF AccountsInv
  <1>5. s \in AccountsRequest /\ s.pc = "remove" /\ s.user = r.user
        /\ s.image = r.image /\ s.old = r.old
    BY <1>2, <1>3, <1>4, AccountsRequestTypes DEF AccountsRequest
  <1>6. Founded(s) /\ ImagesAtHand(s) /\ SayKept(s)
    BY <1>3, <1>4, <1>5 DEF Founded, ImagesAtHand, SayKept
  <1>7. \A v \in Users : Holds(s, v) => ~Locked(v)
    BY <1>3, <1>5 DEF Holds
  <1> QED
    BY <1>3, <1>5, <1>6, <1>7, AccountSlotStep

LEMMA FailPreserves ==
    ASSUME AccountsInv, NEW p \in Procs, Fail(p)
    PROVE  AccountsInv'
  BY IdleIsFounded, AccountSlotStep DEF Fail, End, Unchanged

-----------------------------------------------------------------------------

\* What an account's row becomes in the hands of a writer, and what others
\* have read of it.
LEMMA OvertakeTypes ==
    ASSUME AccountsTypeOK, NEW p \in Procs, NEW u, NEW pcs,
           pcs \subseteq {"change", "verify", "reset"}, Overtake(p, u, pcs)
    PROVE  /\ req' \in [Procs -> AccountsRequest]
           /\ req'[p] = Idle
           /\ \A q \in Procs \ {p} :
                \/ req'[q] = req[q] /\ ~(req[q].pc \in pcs /\ req[q].user = u)
                \/ /\ req[q].pc \in pcs /\ req[q].user = u
                   /\ req'[q].stale
                   /\ req'[q].pc = req[q].pc /\ req'[q].user = req[q].user
  <1>1. ASSUME NEW q \in Procs, req[q].pc \in pcs
        PROVE  LET s == [req[q] EXCEPT !.stale = TRUE]
               IN s \in AccountsRequest /\ s.stale /\ s.pc = req[q].pc /\ s.user = req[q].user
    <2>1. PICK r \in AccountsRequest : r = req[q]
      BY AccountTypes
    <2>2. CASE r.pc = "change"
      BY <2>1, <2>2, AccountsRequestTypes DEF AccountsRequest
    <2>3. CASE r.pc \in {"verify", "reset"}
      BY <2>1, <2>3, AccountsRequestTypes DEF AccountsRequest
    <2> QED
      BY <1>1, <2>1, <2>2, <2>3
  <1>2. \A q \in Procs : req'[q] = IF q = p THEN Idle
                                   ELSE IF req[q].pc \in pcs /\ req[q].user = u
                                   THEN [req[q] EXCEPT !.stale = TRUE]
                                   ELSE req[q]
    BY DEF Overtake
  <1>3. \A q \in Procs : req'[q] \in AccountsRequest
    BY <1>1, <1>2, IdleIsFounded, AccountTypes
  <1> QED
    BY <1>1, <1>2, <1>3 DEF Overtake

\* A write of contacts and passwords is harmless if contacts stay unique and
\* whoever has read what it changes knows, or gives up.
LEMMA RowWrite ==
    ASSUME AccountsInv,
           users' \in [Users -> User \cup {None}],
           \A u, v \in Users : u # v /\ users'[u] # None /\ users'[v] # None =>
              \A k \in Kinds :
                 users'[u].contact[k] # None => users'[u].contact[k] # users'[v].contact[k],
           \A u \in Users : Exists(u) => users'[u] # None /\ users'[u].image = users[u].image,
           \A u \in Users : ~Exists(u) /\ users'[u] # None => users'[u].image = None,
           UNCHANGED <<files, hurt>>,
           req' \in [Procs -> AccountsRequest],
           \A q \in Procs :
              \/ req'[q] = Idle
              \/ /\ req'[q] = req[q]
                 /\ req[q].pc = "change" =>
                      users'[req[q].user].password = users[req[q].user].password
                 /\ req[q].pc \in {"verify", "reset"} =>
                      users'[req[q].user].contact = users[req[q].user].contact
              \/ /\ req[q].pc \in {"change", "verify", "reset"}
                 /\ req'[q].stale
                 /\ req'[q].pc = req[q].pc /\ req'[q].user = req[q].user
    PROVE  AccountsInv'
  <1>1. AccountsTypeOK'
    BY DEF AccountsInv, AccountsTypeOK
  <1>2. ImageKept'
    <2> SUFFICES ASSUME NEW u \in Users, users'[u] # None, users'[u].image # None, u \notin hurt
                 PROVE  files[users'[u].image] = "profile"
      BY DEF ImageKept, Exists
    <2> QED
      BY DEF AccountsInv, ImageKept, Exists
  <1>3. ImagesOwned'
    <2>1. \A i \in Images : files'[i] # "none" => Exists(Uploader[i])'
      BY UploaderAssumption DEF AccountsInv, ImagesOwned, Exists
    <2>2. \A u \in Users : users'[u] # None /\ users'[u].image # None =>
                              Uploader[users'[u].image] = u
      BY DEF AccountsInv, ImagesOwned, Exists
    <2> QED
      BY <2>1, <2>2 DEF ImagesOwned, Exists
  <1>4. OneHolder'
    <2>1. \A q \in Procs, u \in Users : Holds(req'[q], u) => Holds(req[q], u)
      BY DEF Holds, Idle
    <2> QED
      BY <2>1 DEF OneHolder, AccountsInv
  <1>5. ASSUME NEW q \in Procs
        PROVE  (Founded(req[q]) /\ ImagesAtHand(req[q]) /\ SayKept(req[q]))'
    <2>1. PICK r, s : r = req[q] /\ s = req'[q]
      OBVIOUS
    <2>2. r \in AccountsRequest /\ Founded(r) /\ ImagesAtHand(r) /\ SayKept(r)
      BY <2>1, AccountTypes DEF AccountsInv
    <2>3. r.pc # "idle" /\ r.pc # "find" /\ ~(r.pc = "claim" /\ r.user = None) =>
            r.user \in Users /\ Exists(r.user)
      BY <2>2, AccountsRequestTypes DEF Founded, Idle
    <2>4. Founded(s)' /\ ImagesAtHand(s)' /\ SayKept(s)'
      <3>1. CASE s = Idle
        BY <3>1 DEF Idle, Founded, ImagesAtHand, SayKept
      <3>2. CASE /\ s = r
                 /\ r.pc = "change" => users'[r.user].password = users[r.user].password
                 /\ r.pc \in {"verify", "reset"} =>
                      users'[r.user].contact = users[r.user].contact
        <4>1. Founded(s)' /\ ImagesAtHand(s)'
          BY <2>2, <2>3, <3>2 DEF Founded, ImagesAtHand, Exists
        <4>2. SayKept(s)'
          BY <2>2, <3>2 DEF SayKept, Matches, Answers, Has
        <4> QED
          BY <4>1, <4>2
      <3>3. CASE /\ r.pc \in {"change", "verify", "reset"}
                 /\ s.stale /\ s.pc = r.pc /\ s.user = r.user
        BY <2>3, <3>3 DEF Founded, ImagesAtHand, SayKept, Exists
      <3> QED
        BY <2>1, <3>1, <3>2, <3>3
    <2> QED
      BY <2>1, <2>4 DEF Founded, ImagesAtHand, SayKept, Exists, Matches, Answers, Has
  <1> QED
    BY <1>1, <1>2, <1>3, <1>4, <1>5 DEF AccountsInv

\* A registration makes a row nobody has read, with contacts nobody has.
LEMMA InsertUserPreserves ==
    ASSUME AccountsInv, NEW p \in Procs, InsertUser(p)
    PROVE  AccountsInv'
  <1>1. PICK r : r = req[p]
    OBVIOUS
  <1>2. PICK u \in Users :
          /\ ~Exists(u)
          /\ users' = [users EXCEPT ![u] = [contact |-> r.contact, password |-> r.password,
                                            image |-> None]]
          /\ r.pc = "claim" /\ r.user = None /\ ~Clash(r.contact, None)
          /\ Goto(p, Idle) /\ UNCHANGED <<files, hurt>>
    BY <1>1 DEF InsertUser, End
  <1>3. r \in AccountsRequest /\ Founded(r)
    BY <1>1, AccountTypes DEF AccountsInv
  <1>4. PICK row : row = [contact |-> r.contact, password |-> r.password, image |-> None]
    OBVIOUS
  <1>5. row \in User /\ row # None /\ row.contact = r.contact /\ row.image = None
    <2>1. r.contact \in Contact /\ r.password \in Passwords
      BY <1>2, <1>3, AccountsRequestTypes DEF Founded
    <2> QED
      BY <1>4, <2>1, NoneIsNoRow DEF User
  <1>6. /\ users \in [Users -> User \cup {None}] /\ req \in [Procs -> AccountsRequest]
        /\ users' = [users EXCEPT ![u] = row]
    BY <1>2, <1>4 DEF AccountsInv, AccountsTypeOK
  <1>7. users' \in [Users -> User \cup {None}]
    BY <1>5, <1>6
  <1>8. ASSUME NEW v \in Users, Exists(v), NEW k \in Kinds, r.contact[k] # None
        PROVE  users[v].contact[k] # r.contact[k]
    BY <1>2, <1>8, NoneAssumption DEF Clash, Taken, Given
  <1>9. \A v, w \in Users : v # w /\ users'[v] # None /\ users'[w] # None =>
          \A k \in Kinds :
             users'[v].contact[k] # None => users'[v].contact[k] # users'[w].contact[k]
    <2> SUFFICES ASSUME NEW v \in Users, NEW w \in Users, v # w,
                        users'[v] # None, users'[w] # None,
                        NEW k \in Kinds, users'[v].contact[k] # None
                 PROVE  users'[v].contact[k] # users'[w].contact[k]
      OBVIOUS
    <2>1. CASE v = u
      BY <1>5, <1>6, <1>8, <2>1 DEF Exists
    <2>2. CASE w = u
      BY <1>5, <1>6, <1>8, <2>2 DEF Exists
    <2>3. CASE v # u /\ w # u
      BY <1>6, <2>3, AccountTypes DEF AccountsInv, Exists
    <2> QED
      BY <2>1, <2>2, <2>3
  <1>10. \A v \in Users : /\ Exists(v) => users'[v] # None /\ users'[v].image = users[v].image
                          /\ ~Exists(v) /\ users'[v] # None => users'[v].image = None
    BY <1>2, <1>5, <1>6 DEF Exists
  <1>11. req' \in [Procs -> AccountsRequest] /\ req'[p] = Idle
         /\ \A q \in Procs \ {p} : req'[q] = req[q]
    BY <1>2, <1>6, IdleIsFounded DEF Goto
  <1>12. \A q \in Procs \ {p} : req[q].pc \in {"change", "verify", "reset"} =>
            users'[req[q].user] = users[req[q].user]
    <2>1. \A q \in Procs : Founded(req[q])
      BY DEF AccountsInv
    <2>2. \A q \in Procs : req[q].pc \in {"change", "verify", "reset"} => Exists(req[q].user)
      BY <2>1 DEF Founded
    <2> QED
      BY <1>2, <1>6, <2>2
  <1> QED
    BY <1>2, <1>7, <1>9, <1>10, <1>11, <1>12, RowWrite

\* An update keeps contacts unique, and marks those who have read them.
LEMMA UpdateUserPreserves ==
    ASSUME AccountsInv, NEW p \in Procs, UpdateUser(p)
    PROVE  AccountsInv'
  <1>1. PICK r, u, password : r = req[p] /\ u = r.user /\ password = r.password
    OBVIOUS
  <1>2. PICK pcs : pcs = ContactReaders \cup IF password = None THEN {} ELSE PasswordReaders
    OBVIOUS
  <1>3. PICK row : row = [users[u] EXCEPT
                            !.contact = Updated(@, r.contact),
                            !.password = IF password = None THEN @ ELSE password]
    OBVIOUS
  <1>4. /\ r.pc = "claim" /\ u # None /\ ~Clash(r.contact, u)
        /\ users' = [users EXCEPT ![u] = row]
        /\ Overtake(p, u, pcs) /\ UNCHANGED <<files, hurt>>
    BY <1>1, <1>2, <1>3 DEF UpdateUser
  <1>5. /\ r \in AccountsRequest /\ Founded(r)
        /\ r.contact \in Contact /\ password \in Passwords \cup {None}
        /\ u \in Users /\ Exists(u)
    BY <1>1, <1>4, AccountTypes, AccountsRequestTypes DEF AccountsInv, Founded
  <1>6. PICK old \in User : old = users[u]
    BY <1>5, AccountTypes DEF AccountsInv
  <1>7. /\ row \in User /\ row # None /\ row.image = old.image
        /\ \A k \in Kinds : row.contact[k] = IF r.contact[k] = None THEN old.contact[k]
                                             ELSE r.contact[k]
        /\ password = None => row.password = old.password
    <2>1. Updated(old.contact, r.contact) \in Contact
      BY <1>5 DEF Updated, Contact, User
    <2>2. row = [contact |-> Updated(old.contact, r.contact),
                 password |-> IF password = None THEN old.password ELSE password,
                 image |-> old.image]
      BY <1>3, <1>6 DEF User
    <2>3. row \in User
      BY <1>5, <2>1, <2>2 DEF User
    <2> QED
      BY <2>2, <2>3, NoneIsNoRow DEF Updated
  <1>8. users \in [Users -> User \cup {None}]
    BY DEF AccountsInv, AccountsTypeOK
  <1>9. users' \in [Users -> User \cup {None}]
    BY <1>4, <1>7, <1>8
  <1>10. ASSUME NEW v \in Users, Exists(v), v # u, NEW k \in Kinds, row.contact[k] # None
         PROVE  users[v].contact[k] # row.contact[k]
    <2>1. CASE r.contact[k] = None
      BY <1>5, <1>6, <1>7, <1>10, <2>1, AccountTypes DEF AccountsInv
    <2>2. CASE r.contact[k] # None
      BY <1>4, <1>7, <1>10, <2>2 DEF Clash, Taken, Given
    <2> QED
      BY <2>1, <2>2
  <1>11. \A v, w \in Users : v # w /\ users'[v] # None /\ users'[w] # None =>
          \A k \in Kinds :
             users'[v].contact[k] # None => users'[v].contact[k] # users'[w].contact[k]
    <2> SUFFICES ASSUME NEW v \in Users, NEW w \in Users, v # w,
                        users'[v] # None, users'[w] # None,
                        NEW k \in Kinds, users'[v].contact[k] # None
                 PROVE  users'[v].contact[k] # users'[w].contact[k]
      OBVIOUS
    <2>1. CASE v = u
      BY <1>4, <1>8, <1>10, <2>1 DEF Exists
    <2>2. CASE w = u
      BY <1>4, <1>8, <1>10, <2>2 DEF Exists
    <2>3. CASE v # u /\ w # u
      BY <1>4, <1>8, <2>3, AccountTypes DEF AccountsInv, Exists
    <2> QED
      BY <2>1, <2>2, <2>3
  <1>12. \A v \in Users : /\ Exists(v) => users'[v] # None /\ users'[v].image = users[v].image
                          /\ ~Exists(v) /\ users'[v] # None => users'[v].image = None
    BY <1>4, <1>5, <1>6, <1>7, <1>8 DEF Exists
  <1>13. pcs \subseteq {"change", "verify", "reset"} /\ "verify" \in pcs /\ "reset" \in pcs
         /\ (password # None => "change" \in pcs)
    BY <1>2 DEF ContactReaders, PasswordReaders
  <1>14. /\ req' \in [Procs -> AccountsRequest]
         /\ req'[p] = Idle
         /\ \A q \in Procs \ {p} :
              \/ req'[q] = req[q] /\ ~(req[q].pc \in pcs /\ req[q].user = u)
              \/ /\ req[q].pc \in pcs /\ req[q].user = u
                 /\ req'[q].stale
                 /\ req'[q].pc = req[q].pc /\ req'[q].user = req[q].user
    BY <1>4, <1>13, OvertakeTypes DEF AccountsInv
  <1>15. \A v : v # u => users'[v] = users[v]
    BY <1>4, <1>8
  <1>16. ASSUME NEW q \in Procs, ~(req[q].pc \in pcs /\ req[q].user = u)
         PROVE  /\ req[q].pc = "change" =>
                     users'[req[q].user].password = users[req[q].user].password
                /\ req[q].pc \in {"verify", "reset"} =>
                     users'[req[q].user].contact = users[req[q].user].contact
    BY <1>4, <1>5, <1>6, <1>7, <1>8, <1>13, <1>15, <1>16
  <1>17. \A q \in Procs :
           \/ req'[q] = Idle
           \/ /\ req'[q] = req[q]
              /\ req[q].pc = "change" =>
                   users'[req[q].user].password = users[req[q].user].password
              /\ req[q].pc \in {"verify", "reset"} =>
                   users'[req[q].user].contact = users[req[q].user].contact
           \/ /\ req[q].pc \in {"change", "verify", "reset"}
              /\ req'[q].stale
              /\ req'[q].pc = req[q].pc /\ req'[q].user = req[q].user
    BY <1>13, <1>14, <1>16
  <1> QED
    BY <1>4, <1>9, <1>11, <1>12, <1>14, <1>17, RowWrite

\* A new password leaves contacts alone, and marks those who have read the old.
LEMMA SetPasswordPreserves ==
    ASSUME AccountsInv, NEW p \in Procs, SetPassword(p)
    PROVE  AccountsInv'
  <1>1. PICK r, u : r = req[p] /\ u = r.user
    OBVIOUS
  <1>2. PICK row : row = [users[u] EXCEPT !.password = r.new]
    OBVIOUS
  <1>3. /\ r.pc \in {"change", "reset"}
        /\ users' = [users EXCEPT ![u] = row]
        /\ Overtake(p, u, {"change"}) /\ UNCHANGED <<files, hurt>>
    BY <1>1, <1>2 DEF SetPassword, PasswordReaders
  <1>4. /\ r \in AccountsRequest /\ Founded(r)
        /\ r.new \in Passwords /\ u \in Users /\ Exists(u)
    BY <1>1, <1>3, AccountTypes, AccountsRequestTypes DEF AccountsInv, Founded
  <1>5. /\ users \in [Users -> User \cup {None}]
        /\ \A v, w \in Users, k \in Kinds :
             users[v] # None /\ users[w] # None /\ v # w /\ users[v].contact[k] # None
             => users[v].contact[k] # users[w].contact[k]
    BY DEF AccountsInv, AccountsTypeOK
  <1>6. PICK old \in User : old = users[u]
    BY <1>4, AccountTypes DEF AccountsInv
  <1>7. row \in User /\ row # None /\ row.image = old.image /\ row.contact = old.contact
    BY <1>2, <1>4, <1>6, NoneIsNoRow DEF User
  <1>8. \A v \in Users : /\ users'[v] # None <=> users[v] # None
                         /\ users'[v].contact = users[v].contact
                         /\ users'[v].image = users[v].image
                         /\ v # u => users'[v] = users[v]
    BY <1>3, <1>4, <1>5, <1>6, <1>7 DEF Exists
  <1>9. users' \in [Users -> User \cup {None}]
    BY <1>3, <1>5, <1>7
  <1>10. \A v, w \in Users : v # w /\ users'[v] # None /\ users'[w] # None =>
          \A k \in Kinds :
             users'[v].contact[k] # None => users'[v].contact[k] # users'[w].contact[k]
    BY <1>5, <1>8
  <1>11. \A v \in Users : /\ Exists(v) => users'[v] # None /\ users'[v].image = users[v].image
                          /\ ~Exists(v) /\ users'[v] # None => users'[v].image = None
    BY <1>8 DEF Exists
  <1>12. /\ req' \in [Procs -> AccountsRequest]
         /\ req'[p] = Idle
         /\ \A q \in Procs \ {p} :
              \/ req'[q] = req[q] /\ ~(req[q].pc \in {"change"} /\ req[q].user = u)
              \/ /\ req[q].pc \in {"change"} /\ req[q].user = u
                 /\ req'[q].stale
                 /\ req'[q].pc = req[q].pc /\ req'[q].user = req[q].user
    BY <1>3, OvertakeTypes DEF AccountsInv
  <1>13. \A q \in Procs :
          \/ req'[q] = Idle
          \/ /\ req'[q] = req[q]
             /\ req[q].pc = "change" =>
                  users'[req[q].user].password = users[req[q].user].password
             /\ req[q].pc \in {"verify", "reset"} =>
                  users'[req[q].user].contact = users[req[q].user].contact
          \/ /\ req[q].pc \in {"change", "verify", "reset"}
             /\ req'[q].stale
             /\ req'[q].pc = req[q].pc /\ req'[q].user = req[q].user
    <2> TAKE q \in Procs
    <2>1. CASE q # p /\ req[q].pc = "change" /\ req[q].user = u
      BY <1>12, <2>1
    <2>2. CASE q = p
      BY <1>12, <2>2
    <2>3. CASE q # p /\ ~(req[q].pc = "change" /\ req[q].user = u)
      <3>1. req'[q] = req[q]
        BY <1>12, <2>3
      <3>2. /\ req[q].pc = "change" =>
                  users'[req[q].user].password = users[req[q].user].password
            /\ req[q].pc \in {"verify", "reset"} =>
                  users'[req[q].user].contact = users[req[q].user].contact
        BY <1>3, <1>5, <1>6, <1>7, <1>8, <2>3
      <3> QED
        BY <3>1, <3>2
    <2> QED
      BY <2>1, <2>2, <2>3
  <1> QED
    BY <1>3, <1>9, <1>10, <1>11, <1>12, <1>13, RowWrite

-----------------------------------------------------------------------------

\* One slot moves on, and holds no row it did not hold.
LEMMA OneSlotMoves ==
    ASSUME AccountsInv, NEW p \in Procs, NEW s \in AccountsRequest, Goto(p, s),
           \A u \in Users : Holds(s, u) => Holds(req[p], u)
    PROVE  /\ req' \in [Procs -> AccountsRequest]
           /\ req'[p] = s
           /\ \A q \in Procs \ {p} : req'[q] = req[q]
           /\ OneHolder'
  <1>1. /\ req' \in [Procs -> AccountsRequest]
        /\ req'[p] = s
        /\ \A q \in Procs \ {p} : req'[q] = req[q]
    BY DEF Goto, AccountsInv, AccountsTypeOK
  <1>2. \A q \in Procs, u \in Users : Holds(req'[q], u) => Holds(req[q], u)
    BY <1>1
  <1> QED
    BY <1>1, <1>2 DEF AccountsInv, OneHolder

\* What a request relies on is still so if no row changed but for an image, and
\* the file it is to commit is where it was.
LEMMA StillFounded ==
    ASSUME NEW r, Founded(r), ImagesAtHand(r), SayKept(r),
           \A u \in Users : users[u] # None =>
              /\ users'[u] # None
              /\ users'[u].contact = users[u].contact
              /\ users'[u].password = users[u].password,
           r.pc = "commit" => files'[r.image] = files[r.image]
    PROVE  Founded(r)' /\ ImagesAtHand(r)' /\ SayKept(r)'
  <1>1. Founded(r)' /\ ImagesAtHand(r)'
    BY DEF Founded, ImagesAtHand, Exists
  <1>2. r.pc \in {"change", "verify", "reset"} => r.user \in Users /\ users[r.user] # None
    BY DEF Founded, Exists
  <1>3. SayKept(r)'
    BY <1>2 DEF SayKept, Matches, Answers, Has
  <1> QED
    BY <1>1, <1>3

\* The name of an upload is new.
LEMMA UploadPreserves ==
    ASSUME AccountsInv, NEW i \in Images, Upload(i)
    PROVE  AccountsInv'
  <1>1. /\ Exists(Uploader[i]) /\ files[i] = "none"
        /\ files' = [files EXCEPT ![i] = "uploads"]
        /\ UNCHANGED <<users, req, hurt>>
    BY DEF Upload
  <1>2. files \in [Images -> {"none", "uploads", "profile", "removed"}]
        /\ \A j \in Images : files'[j] = IF j = i THEN "uploads" ELSE files[j]
    BY <1>1 DEF AccountsInv, AccountsTypeOK
  <1>3. AccountsTypeOK'
    BY <1>1, <1>2 DEF AccountsInv, AccountsTypeOK
  <1>4. ImageKept' /\ ImagesOwned'
    <2>1. \A u \in Users : Exists(u) /\ users[u].image # None => users[u].image \in Images
      BY AccountTypes DEF AccountsInv, User
    <2>2. ImageKept'
      BY <1>1, <1>2, <2>1 DEF AccountsInv, ImageKept, Exists
    <2>3. ImagesOwned'
      BY <1>1, <1>2 DEF AccountsInv, ImagesOwned, Exists
    <2> QED
      BY <2>2, <2>3
  <1>5. OneHolder'
    BY <1>1 DEF AccountsInv, OneHolder
  <1>6. ASSUME NEW q \in Procs
        PROVE  (Founded(req[q]) /\ ImagesAtHand(req[q]) /\ SayKept(req[q]))'
    <2>1. PICK r : r = req[q]
      OBVIOUS
    <2>2. r \in AccountsRequest /\ Founded(r) /\ ImagesAtHand(r) /\ SayKept(r)
      BY <2>1, AccountTypes DEF AccountsInv
    <2>3. r.pc = "commit" => files'[r.image] = files[r.image]
      BY <1>1, <1>2, <2>2, AccountsRequestTypes DEF ImagesAtHand
    <2>4. Founded(r)' /\ ImagesAtHand(r)' /\ SayKept(r)'
      BY <1>1, <2>2, <2>3, StillFounded
    <2>5. r = req'[q]
      BY <1>1, <2>1
    <2> QED
      BY <2>4, <2>5 DEF Founded, ImagesAtHand, SayKept, Exists, Matches, Answers, Has
  <1> QED
    BY <1>3, <1>4, <1>5, <1>6 DEF AccountsInv

\* The file removed is of the account whose row the request holds: no other
\* account shows it, and no other update is about to commit it.
LEMMA RemoveImagePreserves ==
    ASSUME AccountsInv, NEW p \in Procs, RemoveImage(p)
    PROVE  AccountsInv'
  <1>1. PICK r, u, s : r = req[p] /\ u = r.user /\ s = [r EXCEPT !.pc = "move"]
    OBVIOUS
  <1>2. /\ r.pc = "remove" /\ Goto(p, s) /\ UNCHANGED users
        /\ files' = [i \in Images |-> IF i = r.old /\ files[i] = "profile"
                                      THEN "removed" ELSE files[i]]
        /\ hurt' = IF r.old # None /\ r.old = users[u].image THEN hurt \cup {u} ELSE hurt
    BY <1>1 DEF RemoveImage
  <1>3. r \in AccountsRequest /\ Founded(r) /\ ImagesAtHand(r)
    BY <1>1, AccountTypes DEF AccountsInv
  <1>4. /\ u \in Users /\ Exists(u)
        /\ s \in AccountsRequest /\ s.pc = "move" /\ s.user = u
        /\ s.image = r.image /\ s.old = r.old
        /\ r.old # None => Uploader[r.old] = u
    BY <1>1, <1>2, <1>3, AccountsRequestTypes DEF AccountsRequest, ImagesAtHand, Founded
  <1>5. /\ req' \in [Procs -> AccountsRequest]
        /\ req'[p] = s
        /\ \A q \in Procs \ {p} : req'[q] = req[q]
        /\ OneHolder'
    <2>1. \A v \in Users : Holds(s, v) => Holds(req[p], v)
      BY <1>1, <1>2, <1>4 DEF Holds
    <2> QED
      BY <1>2, <1>4, <2>1, OneSlotMoves
  <1>6. \A i \in Images : /\ files'[i] = IF i = r.old /\ files[i] = "profile"
                                         THEN "removed" ELSE files[i]
                          /\ i # r.old => files'[i] = files[i]
    BY <1>2
  <1>7. AccountsTypeOK'
    <2>1. files' \in [Images -> {"none", "uploads", "profile", "removed"}]
      BY <1>2 DEF AccountsInv, AccountsTypeOK
    <2>2. hurt' \subseteq Users
      BY <1>2, <1>4 DEF AccountsInv, AccountsTypeOK
    <2> QED
      BY <1>2, <1>5, <2>1, <2>2 DEF AccountsInv, AccountsTypeOK
  <1>8. ImageKept'
    <2> SUFFICES ASSUME NEW v \in Users, users[v] # None, users[v].image # None, v \notin hurt'
                 PROVE  files'[users[v].image] = "profile"
      BY <1>2 DEF ImageKept, Exists
    <2>1. /\ users[v].image \in Images /\ Uploader[users[v].image] = v
          /\ v \notin hurt => files[users[v].image] = "profile"
      BY AccountTypes DEF AccountsInv, ImagesOwned, ImageKept, Exists, User
    <2>2. v \notin hurt /\ users[v].image # r.old
      BY <1>2, <1>4, <2>1
    <2> QED
      BY <1>6, <2>1, <2>2
  <1>9. ImagesOwned'
    BY <1>2, <1>6 DEF AccountsInv, ImagesOwned, Exists
  <1>10. ASSUME NEW q \in Procs
         PROVE  (Founded(req[q]) /\ ImagesAtHand(req[q]) /\ SayKept(req[q]))'
    <2>1. PICK t : t = req'[q]
      OBVIOUS
    <2>2. CASE q = p
      <3>1. t = s
        BY <1>5, <2>1, <2>2
      <3>2. Founded(t) /\ ImagesAtHand(t) /\ SayKept(t)
        BY <1>1, <1>2, <1>3, <1>4, <3>1 DEF Founded, ImagesAtHand, SayKept
      <3>3. Founded(t)' /\ ImagesAtHand(t)' /\ SayKept(t)'
        BY <1>2, <1>4, <3>1, <3>2, StillFounded
      <3> QED
        BY <2>1, <3>3 DEF Founded, ImagesAtHand, SayKept, Exists, Matches, Answers, Has
    <2>3. CASE q # p
      <3>1. t = req[q] /\ t \in AccountsRequest
        BY <1>5, <2>1, <2>3, AccountTypes DEF AccountsInv
      <3>2. Founded(t) /\ ImagesAtHand(t) /\ SayKept(t)
        BY <3>1 DEF AccountsInv
      <3>3. t.pc = "commit" => files'[t.image] = files[t.image]
        <4> SUFFICES ASSUME t.pc = "commit"
                     PROVE  files'[t.image] = files[t.image]
          OBVIOUS
        <4>1. t.user \in Users /\ t.image \in Images /\ Uploader[t.image] = t.user
          BY <3>1, <3>2, AccountsRequestTypes DEF ImagesAtHand
        <4>2. Holds(req[p], u) /\ Holds(req[q], t.user)
          BY <1>1, <1>2, <3>1 DEF Holds
        <4>3. t.user # u
          BY <1>4, <2>3, <4>2 DEF AccountsInv, OneHolder
        <4>4. t.image # r.old
          BY <1>4, <4>1, <4>3, NoneAssumption
        <4> QED
          BY <1>6, <4>1, <4>4
      <3>4. Founded(t)' /\ ImagesAtHand(t)' /\ SayKept(t)'
        BY <1>2, <3>2, <3>3, StillFounded
      <3> QED
        BY <2>1, <3>4 DEF Founded, ImagesAtHand, SayKept, Exists, Matches, Answers, Has
    <2> QED
      BY <2>2, <2>3
  <1> QED
    BY <1>5, <1>7, <1>8, <1>9, <1>10 DEF AccountsInv

\* A file that is moved into place was nobody's.
LEMMA MoveImagePreserves ==
    ASSUME AccountsInv, NEW p \in Procs, MoveImage(p)
    PROVE  AccountsInv'
  <1>1. PICK r, u, s : r = req[p] /\ u = r.user /\ s = [r EXCEPT !.pc = "commit"]
    OBVIOUS
  <1>2. /\ r.pc = "move" /\ files[r.image] = "uploads" /\ Goto(p, s)
        /\ files' = [files EXCEPT ![r.image] = "profile"]
        /\ UNCHANGED <<users, hurt>>
    BY <1>1 DEF MoveImage, Movable
  <1>3. r \in AccountsRequest /\ Founded(r) /\ ImagesAtHand(r)
    BY <1>1, AccountTypes DEF AccountsInv
  <1>4. /\ u \in Users /\ Exists(u) /\ r.image \in Images
        /\ s \in AccountsRequest /\ s.pc = "commit" /\ s.user = u
        /\ s.image = r.image /\ s.old = r.old
    BY <1>1, <1>2, <1>3, AccountsRequestTypes DEF AccountsRequest, Founded
  <1>5. /\ req' \in [Procs -> AccountsRequest]
        /\ req'[p] = s
        /\ \A q \in Procs \ {p} : req'[q] = req[q]
        /\ OneHolder'
    <2>1. \A v \in Users : Holds(s, v) => Holds(req[p], v)
      BY <1>1, <1>2, <1>4 DEF Holds
    <2> QED
      BY <1>2, <1>4, <2>1, OneSlotMoves
  <1>6. /\ files \in [Images -> {"none", "uploads", "profile", "removed"}]
        /\ \A i \in Images : files'[i] = IF i = r.image THEN "profile" ELSE files[i]
    BY <1>2 DEF AccountsInv, AccountsTypeOK
  <1>7. AccountsTypeOK'
    <2>1. files' \in [Images -> {"none", "uploads", "profile", "removed"}]
      BY <1>2, <1>6
    <2> QED
      BY <1>2, <1>5, <2>1 DEF AccountsInv, AccountsTypeOK
  <1>8. ImageKept'
    <2>1. \A v \in Users : Exists(v) /\ users[v].image # None => users[v].image \in Images
      BY AccountTypes DEF AccountsInv, User
    <2> QED
      BY <1>2, <1>6, <2>1 DEF AccountsInv, ImageKept, Exists
  <1>9. ImagesOwned'
    BY <1>2, <1>6 DEF AccountsInv, ImagesOwned, Exists
  <1>10. ASSUME NEW q \in Procs
         PROVE  (Founded(req[q]) /\ ImagesAtHand(req[q]) /\ SayKept(req[q]))'
    <2>1. PICK t : t = req'[q]
      OBVIOUS
    <2>2. CASE q = p
      <3>1. t = s
        BY <1>5, <2>1, <2>2
      <3>2. Founded(t)' /\ ImagesAtHand(t)' /\ SayKept(t)'
        BY <1>1, <1>2, <1>3, <1>4, <1>6, <3>1 DEF Founded, ImagesAtHand, SayKept, Exists
      <3> QED
        BY <2>1, <3>2 DEF Founded, ImagesAtHand, SayKept, Exists, Matches, Answers, Has
    <2>3. CASE q # p
      <3>1. t = req[q] /\ t \in AccountsRequest
        BY <1>5, <2>1, <2>3, AccountTypes DEF AccountsInv
      <3>2. Founded(t) /\ ImagesAtHand(t) /\ SayKept(t)
        BY <3>1 DEF AccountsInv
      <3>3. t.pc = "commit" => files'[t.image] = files[t.image]
        BY <1>6, <3>1, <3>2, AccountsRequestTypes DEF ImagesAtHand
      <3>4. Founded(t)' /\ ImagesAtHand(t)' /\ SayKept(t)'
        BY <1>2, <3>2, <3>3, StillFounded
      <3> QED
        BY <2>1, <3>4 DEF Founded, ImagesAtHand, SayKept, Exists, Matches, Answers, Has
    <2> QED
      BY <2>2, <2>3
  <1> QED
    BY <1>5, <1>7, <1>8, <1>9, <1>10 DEF AccountsInv

\* The image committed is the account's own, and in place.
LEMMA CommitImagePreserves ==
    ASSUME AccountsInv, NEW p \in Procs, CommitImage(p)
    PROVE  AccountsInv'
  <1>1. PICK r, u : r = req[p] /\ u = r.user
    OBVIOUS
  <1>2. /\ r.pc = "commit" /\ Goto(p, Idle) /\ UNCHANGED files
        /\ users' = [users EXCEPT ![u].image = r.image]
        /\ hurt' = hurt \ {u}
    BY <1>1 DEF CommitImage, End
  <1>3. r \in AccountsRequest /\ Founded(r) /\ ImagesAtHand(r)
    BY <1>1, AccountTypes DEF AccountsInv
  <1>4. /\ u \in Users /\ Exists(u) /\ r.image \in Images
        /\ Uploader[r.image] = u /\ files[r.image] = "profile"
    BY <1>1, <1>2, <1>3, AccountsRequestTypes DEF Founded, ImagesAtHand
  <1>5. PICK old \in User : old = users[u]
    BY <1>4, AccountTypes DEF AccountsInv
  <1>6. PICK row : row = [old EXCEPT !.image = r.image]
    OBVIOUS
  <1>7. /\ row \in User /\ row # None /\ row.image = r.image
        /\ row.contact = old.contact /\ row.password = old.password
    BY <1>4, <1>6, NoneIsNoRow DEF User
  <1>8. /\ users \in [Users -> User \cup {None}]
        /\ users' = [users EXCEPT ![u] = row]
    BY <1>2, <1>5, <1>6 DEF AccountsInv, AccountsTypeOK
  <1>9. \A v \in Users : /\ users'[v] # None <=> users[v] # None
                         /\ users'[v].contact = users[v].contact
                         /\ users'[v].password = users[v].password
                         /\ v # u => users'[v] = users[v]
    BY <1>4, <1>5, <1>7, <1>8 DEF Exists
  <1>10. users'[u].image = r.image
    BY <1>4, <1>7, <1>8
  <1>11. /\ req' \in [Procs -> AccountsRequest]
         /\ req'[p] = Idle
         /\ \A q \in Procs \ {p} : req'[q] = req[q]
         /\ OneHolder'
    BY <1>2, IdleIsFounded, OneSlotMoves
  <1>12. AccountsTypeOK'
    <2>1. users' \in [Users -> User \cup {None}]
      BY <1>7, <1>8
    <2>2. \A v, w \in Users : v # w /\ users'[v] # None /\ users'[w] # None =>
            \A k \in Kinds :
               users'[v].contact[k] # None => users'[v].contact[k] # users'[w].contact[k]
      BY <1>9 DEF AccountsInv, AccountsTypeOK
    <2> QED
      BY <1>2, <1>11, <2>1, <2>2 DEF AccountsInv, AccountsTypeOK
  <1>13. ImageKept'
    BY <1>2, <1>4, <1>9, <1>10 DEF AccountsInv, ImageKept, Exists
  <1>14. ImagesOwned'
    BY <1>2, <1>4, <1>9, <1>10, UploaderAssumption DEF AccountsInv, ImagesOwned, Exists
  <1>15. ASSUME NEW q \in Procs
         PROVE  (Founded(req[q]) /\ ImagesAtHand(req[q]) /\ SayKept(req[q]))'
    <2>1. PICK t : t = req'[q]
      OBVIOUS
    <2>2. t = Idle \/ t = req[q]
      BY <1>11, <2>1
    <2>3. Founded(t) /\ ImagesAtHand(t) /\ SayKept(t)
      BY <2>2, IdleIsFounded DEF AccountsInv
    <2>4. Founded(t)' /\ ImagesAtHand(t)' /\ SayKept(t)'
      BY <1>2, <1>9, <2>3, StillFounded
    <2> QED
      BY <2>1, <2>4 DEF Founded, ImagesAtHand, SayKept, Exists, Matches, Answers, Has
  <1> QED
    BY <1>11, <1>12, <1>13, <1>14, <1>15 DEF AccountsInv

-----------------------------------------------------------------------------

LEMMA InitAccounts == AccountsInit => AccountsInv
  <1> SUFFICES ASSUME AccountsInit
               PROVE  AccountsInv
    OBVIOUS
  <1>1. AccountsTypeOK
    BY IdleIsFounded DEF AccountsInit, AccountsTypeOK
  <1>2. ImageKept /\ ImagesOwned /\ OneHolder
    BY IdleIsFounded DEF AccountsInit, ImageKept, ImagesOwned, OneHolder, Exists
  <1> QED
    BY <1>1, <1>2, IdleIsFounded DEF AccountsInit, AccountsInv

LEMMA NextAccounts == AccountsInv /\ [AccountsNext]_accountsVars => AccountsInv'
  <1> SUFFICES ASSUME AccountsInv, [AccountsNext]_accountsVars
               PROVE  AccountsInv'
    OBVIOUS
  <1>1. ASSUME NEW p \in Procs,
               Register(p) \/ UpdateProfileDetails(p) \/ UpdateByAdministrator(p)
        PROVE  AccountsInv'
    BY <1>1, ClaimPreserves
  <1>2. ASSUME NEW p \in Procs, ChangePassword(p) \/ Reset(p) \/ UpdateProfileImage(p)
        PROVE  AccountsInv'
    BY <1>2, BeginPreserves
  <1>3. ASSUME NEW p \in Procs, CheckTaken(p) \/ Find(p) \/ Verify(p)
        PROVE  AccountsInv'
    BY <1>3, LookUpPreserves
  <1>4. ASSUME NEW p \in Procs, InsertUser(p) \/ UpdateUser(p) \/ SetPassword(p)
        PROVE  AccountsInv'
    BY <1>4, InsertUserPreserves, UpdateUserPreserves, SetPasswordPreserves
  <1>5. ASSUME NEW p \in Procs,
               WriteImage(p) \/ RemoveImage(p) \/ MoveImage(p) \/ CommitImage(p)
        PROVE  AccountsInv'
    BY <1>5, WriteImagePreserves, RemoveImagePreserves, MoveImagePreserves,
       CommitImagePreserves
  <1>6. ASSUME NEW p \in Procs, Fail(p)
        PROVE  AccountsInv'
    BY <1>6, FailPreserves
  <1>7. ASSUME NEW i \in Images, Upload(i)
        PROVE  AccountsInv'
    BY <1>7, UploadPreserves
  <1>8. CASE UNCHANGED accountsVars
    <2>1. AccountsTypeOK'
      BY <1>8 DEF accountsVars, AccountsInv, AccountsTypeOK
    <2>2. ImageKept' /\ ImagesOwned' /\ OneHolder'
      BY <1>8 DEF accountsVars, AccountsInv, ImageKept, ImagesOwned, OneHolder, Exists
    <2>3. ASSUME NEW p \in Procs
          PROVE  (Founded(req[p]) /\ ImagesAtHand(req[p]) /\ SayKept(req[p]))'
      BY <1>8 DEF accountsVars, AccountsInv, Founded, ImagesAtHand, SayKept,
                  Exists, Matches, Answers, Has
    <2> QED
      BY <2>1, <2>2, <2>3 DEF AccountsInv
  <1> QED
    BY <1>1, <1>2, <1>3, <1>4, <1>5, <1>6, <1>7, <1>8 DEF AccountsNext

\* Every state the handlers of accounts reach satisfies the invariant.
THEOREM AccountsInvariant == AccountsSpec => []AccountsInv
  BY InitAccounts, NextAccounts, PTL DEF AccountsSpec

\* No interleaving of registrations and updates, whatever they looked up and
\* when, leaves two accounts with one e-mail address, user name or number.
THEOREM AccountsTypeCorrect == AccountsSpec => []AccountsTypeOK
  <1>1. AccountsInv => AccountsTypeOK
    BY DEF AccountsInv
  <1> QED
    BY <1>1, AccountsInvariant, PTL

\* An account's image is in the directory of profile images, whatever uploads
\* and updates of it run together and wherever they fail, unless an update of
\* that account removed it and no other has committed since.
THEOREM ImagesStay == AccountsSpec => []ImageKept
  <1>1. AccountsInv => ImageKept
    BY DEF AccountsInv
  <1> QED
    BY <1>1, AccountsInvariant, PTL

\* Who may write a password, is about that account, and says so.
LEMMA WriterEntitled ==
    ASSUME AccountsInv, NEW p \in Procs, NEW u \in Users,
           \/ UpdateUser(p)
           \/ SetPassword(p),
           Exists(u), users'[u].password # users[u].password
    PROVE  req[p].pc # "idle" /\ req[p].user = u /\ req'[p] = Idle /\ Entitled(p, u)
  <1>1. PICK r : r = req[p]
    OBVIOUS
  <1>2. r \in AccountsRequest /\ Founded(r) /\ SayKept(r)
    BY <1>1, AccountTypes DEF AccountsInv
  <1>3. users \in [Users -> User \cup {None}] /\ users[u] \in User
    BY AccountTypes DEF AccountsInv, AccountsTypeOK
  <1>4. req'[p] = Idle
    BY DEF UpdateUser, SetPassword, Overtake
  <1>5. CASE UpdateUser(p)
    <2>1. /\ r.pc = "claim" /\ r.user # None
          /\ users' = [users EXCEPT ![r.user].contact = Updated(@, r.contact),
                                    ![r.user].password = IF r.password = None THEN @
                                                         ELSE r.password]
      BY <1>1, <1>5 DEF UpdateUser
    <2>2. u = r.user
      BY <1>3, <2>1
    <2>3. r.password # None
      BY <1>3, <2>1, <2>2 DEF User
    <2> QED
      BY <1>1, <1>4, <2>1, <2>2, <2>3 DEF Entitled
  <1>6. CASE SetPassword(p)
    <2>1. /\ r.pc \in {"change", "reset"}
          /\ users' = [users EXCEPT ![r.user].password = r.new]
      BY <1>1, <1>6 DEF SetPassword
    <2>2. u = r.user
      BY <1>3, <2>1
    <2>3. CASE r.pc = "change"
      BY <1>1, <1>2, <1>4, <2>2, <2>3 DEF Entitled, SayKept, Matches
    <2>4. CASE r.pc = "reset"
      BY <1>1, <1>2, <1>4, <2>2, <2>4 DEF Entitled, SayKept
    <2> QED
      BY <2>1, <2>3, <2>4
  <1> QED
    BY <1>5, <1>6

\* The other writers of a row leave its password alone.
LEMMA OthersKeepPasswords ==
    ASSUME AccountsInv, NEW p \in Procs, NEW u \in Users, Exists(u),
           InsertUser(p) \/ CommitImage(p)
    PROVE  users'[u].password = users[u].password
  <1>1. users \in [Users -> User \cup {None}] /\ users[u] \in User
    BY AccountTypes DEF AccountsInv, AccountsTypeOK
  <1>2. CASE InsertUser(p)
    BY <1>1, <1>2 DEF InsertUser, Exists
  <1>3. CASE CommitImage(p)
    BY <1>1, <1>3 DEF CommitImage, User
  <1> QED
    BY <1>2, <1>3

\* A password changes only on the word of somebody who has a say when it is
\* written, however many others are at work on the account: the old password
\* known, a code answered, or an administrator.
THEOREM PasswordsHandedOn == AccountsSpec => PasswordHandedOn
  <1>1. AccountsInv /\ AccountsNext => PasswordGiven
    <2> SUFFICES ASSUME AccountsInv, AccountsNext, NEW u \in Users, Exists(u),
                        users'[u].password # users[u].password
                 PROVE  \E p \in Procs : /\ req[p].pc # "idle" /\ req[p].user = u
                                         /\ req'[p] = Idle /\ Entitled(p, u)
      BY DEF PasswordGiven
    <2>1. users' # users
      OBVIOUS
    <2>2. PICK p \in Procs :
            InsertUser(p) \/ UpdateUser(p) \/ SetPassword(p) \/ CommitImage(p)
      BY <2>1 DEF AccountsNext, Unchanged, Register, UpdateProfileDetails,
                  UpdateByAdministrator, CheckTaken, ChangePassword, Reset, Find, Verify,
                  UpdateProfileImage, WriteImage, RemoveImage, MoveImage, Fail, Upload
    <2>3. UpdateUser(p) \/ SetPassword(p)
      BY <2>2, OthersKeepPasswords
    <2> QED
      BY <2>3, WriterEntitled
  <1>2. AccountsInv /\ [AccountsNext]_accountsVars => [PasswordGiven]_accountsVars
    BY <1>1
  <1> QED
    BY <1>2, AccountsInvariant, PTL DEF AccountsSpec, PasswordHandedOn
=============================================================================
