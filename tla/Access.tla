-------------------------------- MODULE Access --------------------------------
(***************************************************************************)
(* Three caches between a request and the tables: AccessGuard keeps who is *)
(* active, PrivilegeGuard which keys the role of the admin row with a      *)
(* user's id grants (none if there is no such row or the role is           *)
(* inactive), AppCacheInterceptor what a page answered.  Each is read      *)
(* through: a miss reads the tables and stores what it read for a          *)
(* lifetime.  Only setStatus clears anything, and before it writes.        *)
(*                                                                         *)
(* The cache manager is registered without a store, so the caches live in  *)
(* the memory of each worker of the cluster: a worker clears its own.      *)
(*                                                                         *)
(* What the tables say about a subject is one value: of an account its     *)
(* status, of a user the set of keys it has, of a page its body.           *)
(* A hit changes nothing and is no step.  Pages are those that answer      *)
(* every caller alike.                                                     *)
(***************************************************************************)
EXTENDS RequestSlots, Integers

CONSTANTS
    Workers,    \* worker processes
    Subjects,   \* <<kind, name>>: what there may be a cache entry about
    Contents,   \* values of grants and pages
    Lifetime,   \* ttl of each kind of entry, in ticks
    Null        \* no entry

Kinds == {"access", "privileges", "page"}

Status == {"Active", "Blocked"}

Values(s) == IF s[1] = "access" THEN Status ELSE Contents

AllValues == Status \cup Contents

ASSUME SubjectsAssumption == \A s \in Subjects : s[1] \in Kinds
ASSUME LifetimeAssumption == Lifetime \in [Kinds -> Nat]

VARIABLES
    truth,      \* what the tables say about each subject
    cache,      \* what each worker remembers about it, and for how long already
    steady,     \* history: ticks since the tables last changed, or since somebody
                \* was about to store something else than they say
    blocked     \* history: the accounts each worker blocked, in a setStatus that
                \* met no miss on it and that none has followed

vars == <<truth, cache, req, steady, blocked>>

Entry == [value : AllValues, age : Nat]

ASSUME NullAssumption == Null \notin Entry

Request ==
    {Idle}
    \cup [pc : {"read"}, worker : Workers, subject : Subjects]
    \cup [pc : {"store"}, worker : Workers, subject : Subjects, value : AllValues]
    \cup [pc : {"clear", "update"}, worker : Workers, subject : Subjects, value : Status,
          met : BOOLEAN]

Accounts == {s \in Subjects : s[1] = "access"}

\* Entries are of their kind and no older than it may be.
TypeOK ==
    /\ truth \in [Subjects -> AllValues]
    /\ cache \in [Workers -> [Subjects -> Entry \cup {Null}]]
    /\ steady \in [Subjects -> Nat]
    /\ blocked \in [Workers -> SUBSET Accounts]
    /\ \A s \in Subjects : truth[s] \in Values(s) /\ steady[s] <= Lifetime[s[1]] + 1
    /\ \A w \in Workers, s \in Subjects : cache[w][s] # Null =>
           cache[w][s].value \in Values(s) /\ cache[w][s].age <= Lifetime[s[1]]
    /\ req \in [Procs -> Request]
    /\ \A p \in Procs : /\ req[p].pc = "store" => req[p].value \in Values(req[p].subject)
                        /\ req[p].pc \in {"clear", "update"} => req[p].subject[1] = "access"

\* New accounts are active.
Init ==
    /\ truth \in {f \in [Subjects -> AllValues] :
                    \A s \in Subjects : f[s] \in Values(s) \ {"Blocked"}}
    /\ cache = [w \in Workers |-> [s \in Subjects |-> Null]]
    /\ req = [p \in Procs |-> Idle]
    /\ steady = [s \in Subjects |-> 0]
    /\ blocked = [w \in Workers |-> {}]

-----------------------------------------------------------------------------

\* Somebody holds an answer about s that the tables no longer give.
Disagreeing(s) ==
    \E p \in Procs : /\ req[p].pc = "store"
                     /\ req[p].subject = s
                     /\ req[p].value # truth[s]

SetTruth(s, v) ==
    /\ truth' = [truth EXCEPT ![s] = v]
    /\ steady' = IF v = truth[s] THEN steady ELSE [steady EXCEPT ![s] = 0]

-----------------------------------------------------------------------------
(* A miss: read the tables, store what they said *)

\* Something else than the tables of now may yet be stored in w's entry of s.
Filling(w, s) ==
    \E p \in Procs : /\ req[p].pc \in {"read", "store"}
                     /\ req[p].worker = w
                     /\ req[p].subject = s

\* A setStatus of s on worker w.
Setting(pc, w, s, v, met) ==
    [pc |-> pc, worker |-> w, subject |-> s, value |-> v, met |-> met]

\* A miss meets a setStatus on the same worker that has cleared and yet to write.
Met(r, w, s) ==
    IF r.pc = "update" /\ r.worker = w /\ r.subject = s
    THEN Setting("update", w, s, r.value, TRUE) ELSE r

Miss(p) ==
    /\ req[p] = Idle
    /\ \E w \in Workers, s \in Subjects :
        /\ cache[w][s] = Null
        /\ req' = [q \in Procs |-> IF q = p
                                  THEN [pc |-> "read", worker |-> w, subject |-> s]
                                  ELSE Met(req[q], w, s)]
    /\ UNCHANGED <<truth, cache, steady, blocked>>

Read(p) ==
    /\ req[p].pc = "read"
    /\ LET s == req[p].subject
       IN Goto(p, [pc |-> "store", worker |-> req[p].worker, subject |-> s,
                   value |-> truth[s]])
    /\ UNCHANGED <<truth, cache, steady, blocked>>

\* AccessGuard stores false for a blocked account, which its next reading
\* takes for a miss: it is an erased entry.
Remembered(s, v) ==
    IF s[1] = "access" /\ v = "Blocked" THEN Null ELSE [value |-> v, age |-> 0]

Store(p) ==
    /\ req[p].pc = "store"
    /\ LET s == req[p].subject
       IN cache' = [cache EXCEPT ![req[p].worker][s] = Remembered(s, req[p].value)]
    /\ Goto(p, Idle)
    /\ UNCHANGED <<truth, steady, blocked>>

-----------------------------------------------------------------------------
(* setStatus of users and administrators *)

SetStatus(p) ==
    /\ req[p] = Idle
    /\ \E w \in Workers, s \in Accounts, v \in Status :
          Goto(p, Setting("clear", w, s, v, FALSE))
    /\ UNCHANGED <<truth, cache, steady, blocked>>

Cleared(p) ==
    LET w == req[p].worker
        s == req[p].subject
    IN Goto(p, Setting("update", w, s, req[p].value, Filling(w, s)))

\* Mutant: the cache is left to itself.
ClearNothing(p) ==
    /\ req[p].pc = "clear"
    /\ Cleared(p)
    /\ UNCHANGED <<truth, cache, steady, blocked>>

Clear(p) ==
    /\ req[p].pc = "clear"
    /\ cache' = [cache EXCEPT ![req[p].worker][req[p].subject] = Null]
    /\ Cleared(p)
    /\ UNCHANGED <<truth, steady, blocked>>

Update(p) ==
    /\ req[p].pc = "update"
    /\ LET s == req[p].subject
       IN /\ SetTruth(s, req[p].value)
          /\ blocked' = [w \in Workers |->
                            IF w = req[p].worker /\ req[p].value = "Blocked" /\ ~req[p].met
                            THEN blocked[w] \cup {s} ELSE blocked[w] \ {s}]
    /\ Goto(p, Idle)
    /\ UNCHANGED cache

\* RolesService gives a role other keys or another status, a handler writes
\* what a page shows: no cache hears of it.
Rewrite(s, v) ==
    /\ s[1] # "access"
    /\ v \in Values(s)
    /\ SetTruth(s, v)
    /\ UNCHANGED <<cache, req, blocked>>

-----------------------------------------------------------------------------
(* Time and failures *)

\* Mutant: an entry lives as long as its worker.
AgedNever(s, e) == e

\* Mutant: an entry outlives its time by a tick.
AgedLate(s, e) ==
    IF e = Null \/ e.age = Lifetime[s[1]] + 1 THEN Null ELSE [e EXCEPT !.age = @ + 1]

Aged(s, e) ==
    IF e = Null \/ e.age = Lifetime[s[1]] THEN Null ELSE [e EXCEPT !.age = @ + 1]

Waited(s) ==
    IF Disagreeing(s) THEN 0
    ELSE IF steady[s] = Lifetime[s[1]] + 1 THEN steady[s] ELSE steady[s] + 1

Tick ==
    /\ cache' = [w \in Workers |-> [s \in Subjects |-> Aged(s, cache[w][s])]]
    /\ steady' = [s \in Subjects |-> Waited(s)]
    /\ UNCHANGED <<truth, req, blocked>>

\* A lifetime ends between two ticks.
Expire(w, s) ==
    /\ cache[w][s] # Null
    /\ cache[w][s].age = Lifetime[s[1]]
    /\ cache' = [cache EXCEPT ![w][s] = Null]
    /\ UNCHANGED <<truth, req, steady, blocked>>

\* A worker dies, its requests with it, and another takes its place.
Respawn(w) ==
    /\ cache' = [cache EXCEPT ![w] = [s \in Subjects |-> Null]]
    /\ req' = [p \in Procs |-> IF req[p] # Idle /\ req[p].worker = w THEN Idle ELSE req[p]]
    /\ UNCHANGED <<truth, steady, blocked>>

Step(p) == Read(p) \/ Store(p) \/ Clear(p) \/ Update(p)

Next ==
    \/ \E p \in Procs : Miss(p) \/ SetStatus(p) \/ Step(p)
    \/ \E s \in Subjects, v \in Contents : Rewrite(s, v)
    \/ Tick
    \/ \E w \in Workers, s \in Subjects : Expire(w, s)
    \/ \E w \in Workers : Respawn(w)

Spec == Init /\ [][Next]_vars

\* Handlers that were begun go on, and time passes.
LiveSpec == Spec /\ WF_vars(Tick) /\ \A p \in Procs : WF_vars(Step(p))

-----------------------------------------------------------------------------

\* Once the tables have said the same for a lifetime, and nobody has been about
\* to store anything else since, every worker that remembers a subject
\* remembers it right, whichever worker was told and however fills, setStatus
\* and other writes interleaved.
Settled ==
    \A w \in Workers, s \in Subjects :
        /\ steady[s] > Lifetime[s[1]]
        /\ cache[w][s] # Null
        => cache[w][s].value = truth[s]

\* What clearing is good for: a worker that has blocked an account shuts it out
\* at once, not a lifetime later, and until its status is set again, although
\* guards of all workers fill their caches before, after and meanwhile.  Only a
\* miss of its own between the clearing and the write, or one that was in
\* flight when it cleared, may leave it the old status.
ShutOutAtOnce ==
    \A w \in Workers : \A s \in blocked[w] : truth[s] = "Blocked" /\ cache[w][s] = Null

\* A blocked account, unless it is released, loses its access everywhere, and
\* for good.
BlockedLosesAccess ==
    \A s \in Subjects : s[1] = "access" =>
        (<>[](truth[s] = "Blocked") => <>[](\A w \in Workers : cache[w][s] = Null))

-----------------------------------------------------------------------------
(* The inductive invariant *)

\* While an answer that is not true any more waits to be stored, no time
\* counts; a wrong entry is at least as old as the truth.
Dated ==
    \A s \in Subjects :
        /\ Disagreeing(s) => steady[s] = 0
        /\ \A w \in Workers : cache[w][s] # Null /\ cache[w][s].value # truth[s]
                                 => steady[s] <= cache[w][s].age

\* Nothing that is at work can let a blocked account in again on the worker that
\* blocked it, and a setStatus that has met nobody will write over an empty
\* entry that nobody is about to fill.
BlockingSound ==
    /\ \A p \in Procs : req[p].pc = "store" /\ req[p].subject \in blocked[req[p].worker]
                           => req[p].value = "Blocked"
    /\ \A p \in Procs : req[p].pc = "update" /\ ~req[p].met
                           => /\ cache[req[p].worker][req[p].subject] = Null
                              /\ ~Filling(req[p].worker, req[p].subject)

AccessInv ==
    /\ TypeOK
    /\ Dated
    /\ ShutOutAtOnce
    /\ BlockingSound
=============================================================================
