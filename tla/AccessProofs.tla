---------------------------- MODULE AccessProofs ----------------------------
(***************************************************************************)
(* How long a cache can be wrong, and when a worker shuts out an account   *)
(* at once, for any number of workers, requests and subjects and any       *)
(* lifetimes.                                                              *)
(***************************************************************************)
EXTENDS Access, TLAPS

\* What a request that is about to store, or a setStatus, carries.
LEMMA RequestTypes ==
    ASSUME TypeOK, NEW p \in Procs
    PROVE  /\ req[p] = Idle \/ req[p].pc \in {"read", "store", "clear", "update"}
           /\ req[p].pc \in {"read", "store", "clear", "update"} =>
                req[p].worker \in Workers /\ req[p].subject \in Subjects
           /\ req[p].pc = "store" => /\ req[p].value \in AllValues
                                     /\ req[p].value \in Values(req[p].subject)
           /\ req[p].pc \in {"clear", "update"} =>
                /\ req[p].value \in Status
                /\ req[p].subject[1] = "access"
                /\ req[p].met \in BOOLEAN
  <1>1. req[p] \in Request
    BY DEF TypeOK
  <1>2. req[p] = Idle \/ req[p].pc \in {"read", "store", "clear", "update"}
    BY <1>1 DEF Request
  <1>3. req[p].pc \in {"read", "store", "clear", "update"} =>
          req[p].worker \in Workers /\ req[p].subject \in Subjects
    BY <1>1 DEF Request, Idle
  <1>4. req[p].pc = "store" => /\ req[p].value \in AllValues
                               /\ req[p].value \in Values(req[p].subject)
    BY <1>1 DEF Request, Idle, TypeOK
  <1>5. ASSUME req[p].pc \in {"clear", "update"}
        PROVE  req[p] \in [pc : {"clear", "update"}, worker : Workers, subject : Subjects,
                           value : Status, met : BOOLEAN]
    BY <1>1, <1>5 DEF Request, Idle
  <1>6. req[p].pc \in {"clear", "update"} => req[p].subject[1] = "access"
    BY DEF TypeOK
  <1> QED
    BY <1>2, <1>3, <1>4, <1>5, <1>6

\* The record of a setStatus.
LEMMA SettingType ==
    ASSUME NEW pc \in {"clear", "update"}, NEW w \in Workers, NEW s \in Subjects,
           NEW v \in Status, NEW b \in BOOLEAN
    PROVE  /\ Setting(pc, w, s, v, b) \in Request
           /\ Setting(pc, w, s, v, b).pc = pc
           /\ Setting(pc, w, s, v, b).worker = w
           /\ Setting(pc, w, s, v, b).subject = s
           /\ Setting(pc, w, s, v, b).met = b
  BY DEF Setting, Request

LEMMA KindTypes ==
    ASSUME NEW s \in Subjects
    PROVE  Lifetime[s[1]] \in Nat /\ Values(s) \subseteq AllValues
  BY SubjectsAssumption, LifetimeAssumption DEF Values, AllValues

\* Who blocked an account is shut out of it, and what a blocked account is about
\* to be given: said of given workers, accounts and requests.
LEMMA BlockingFacts ==
    ASSUME AccessInv
    PROVE  /\ \A w \in Workers, s \in Subjects : s \in blocked[w] =>
                s \in Accounts /\ truth[s] = "Blocked" /\ cache[w][s] = Null
           /\ \A w, s : \A p \in Procs :
                req[p].pc = "store" /\ req[p].worker = w /\ req[p].subject = s
                /\ s \in blocked[w] => req[p].value = "Blocked"
           /\ \A p \in Procs : req[p].pc = "update" /\ ~req[p].met
                               => /\ cache[req[p].worker][req[p].subject] = Null
                                  /\ ~Filling(req[p].worker, req[p].subject)
  <1>1. blocked \in [Workers -> SUBSET Accounts]
    BY DEF AccessInv, TypeOK
  <1> QED
    BY <1>1 DEF AccessInv, ShutOutAtOnce, BlockingSound

\* A request that was not filling before does not begin to.
LEMMA FillingKept ==
    ASSUME \A q \in Procs : req'[q].pc \in {"read", "store"} =>
              /\ req[q].pc \in {"read", "store"}
              /\ req'[q].worker = req[q].worker
              /\ req'[q].subject = req[q].subject
    PROVE  \A w, s : Filling(w, s)' => Filling(w, s)
  BY DEF Filling

\* Requests in flight: one slot goes on, the tables and the caches stay.  Only
\* a reading that agrees with the tables may begin to wait for its store.
LEMMA SlotStep ==
    ASSUME AccessInv, NEW p \in Procs, NEW r \in Request, Goto(p, r),
           UNCHANGED <<truth, cache, steady, blocked>>,
           r.pc \in {"read", "store"} => /\ req[p].pc \in {"read", "store"}
                                        /\ r.worker = req[p].worker
                                        /\ r.subject = req[p].subject,
           r.pc = "store" => r.value = truth[r.subject],
           r.pc = "clear" => r.subject[1] = "access",
           r.pc # "update"
    PROVE  AccessInv'
  <1> TypeOK
    BY DEF AccessInv
  <1>1. \A q \in Procs : req'[q] = IF q = p THEN r ELSE req[q]
    BY DEF Goto, TypeOK
  <1>2. req' \in [Procs -> Request]
    BY DEF Goto, TypeOK
  <1>3. ASSUME NEW q \in Procs
        PROVE  /\ req'[q].pc = "store" => req'[q].value \in Values(req'[q].subject)
               /\ req'[q].pc \in {"clear", "update"} => req'[q].subject[1] = "access"
    <2>1. CASE q = p
      <3>1. r.pc = "store" => r.subject \in Subjects
        BY DEF Request, Idle
      <3> QED
        BY <1>1, <2>1, <3>1 DEF TypeOK
    <2>2. CASE q # p
      BY <1>1, <2>2 DEF TypeOK
    <2> QED
      BY <2>1, <2>2
  <1>4. TypeOK'
    BY <1>2, <1>3 DEF TypeOK, Values
  <1>5. Dated'
    BY <1>1 DEF AccessInv, Dated, Disagreeing
  <1>6. ShutOutAtOnce'
    BY DEF AccessInv, ShutOutAtOnce
  <1>7. BlockingSound'
    <2>1. \A w, s : Filling(w, s)' => Filling(w, s)
      BY <1>1, FillingKept
    <2>2. ASSUME NEW q \in Procs, req'[q].pc = "store", req'[q].subject \in blocked[req'[q].worker]
          PROVE  req'[q].value = "Blocked"
      <3>1. CASE q = p
        <4>1. r.worker \in Workers /\ r.subject \in Subjects
          BY <1>1, <2>2, <3>1 DEF Request, Idle
        <4> QED
          BY <1>1, <2>2, <3>1, <4>1, BlockingFacts
      <3>2. CASE q # p
        BY <1>1, <2>2, <3>2, BlockingFacts
      <3> QED
        BY <3>1, <3>2
    <2>3. ASSUME NEW q \in Procs, req'[q].pc = "update", ~req'[q].met
          PROVE  (cache[req[q].worker][req[q].subject] = Null
                  /\ ~Filling(req[q].worker, req[q].subject))'
      <3>1. q # p /\ req'[q] = req[q]
        BY <1>1, <2>3
      <3>2. PICK w, s : w = req[q].worker /\ s = req[q].subject
        OBVIOUS
      <3>3. cache[w][s] = Null /\ ~Filling(w, s)
        BY <2>3, <3>1, <3>2, BlockingFacts
      <3>4. ~Filling(w, s)'
        BY <2>1, <3>3
      <3> QED
        BY <3>1, <3>2, <3>3, <3>4 DEF Filling
    <2> QED
      BY <2>2, <2>3 DEF BlockingSound
  <1> QED
    BY <1>4, <1>5, <1>6, <1>7 DEF AccessInv

\* A miss is noticed by a setStatus that has cleared the entry and not written.
LEMMA MissPreserves ==
    ASSUME AccessInv, NEW p \in Procs, Miss(p) PROVE AccessInv'
  <1>1. PICK w \in Workers, s \in Subjects :
          /\ cache[w][s] = Null
          /\ req' = [q \in Procs |-> IF q = p
                                    THEN [pc |-> "read", worker |-> w, subject |-> s]
                                    ELSE Met(req[q], w, s)]
          /\ UNCHANGED <<truth, cache, steady, blocked>>
    BY DEF Miss
  <1>2. TypeOK /\ Dated
    BY DEF AccessInv
  <1>3. PICK r : r = [pc |-> "read", worker |-> w, subject |-> s]
    OBVIOUS
  <1>4. \A q \in Procs : req'[q] = IF q = p THEN r ELSE Met(req[q], w, s)
    BY <1>1, <1>3
  <1>5. r \in Request /\ r.pc = "read" /\ r.worker = w /\ r.subject = s
    BY <1>3 DEF Request
  <1>6. ASSUME NEW q \in Procs
        PROVE  /\ Met(req[q], w, s) \in Request
               /\ Met(req[q], w, s).pc = req[q].pc
               /\ req[q].pc # "update" => Met(req[q], w, s) = req[q]
               /\ req[q].pc = "update" =>
                    /\ Met(req[q], w, s).subject = req[q].subject
                    /\ Met(req[q], w, s).worker = req[q].worker
               /\ req[q].pc = "update" /\ ~Met(req[q], w, s).met =>
                    ~req[q].met /\ ~(req[q].worker = w /\ req[q].subject = s)
    <2>1. CASE req[q].pc = "update" /\ req[q].worker = w /\ req[q].subject = s
      <3>1. req[q].value \in Status
        BY <1>2, <2>1, RequestTypes
      <3>2. Met(req[q], w, s) = Setting("update", w, s, req[q].value, TRUE)
        BY <2>1 DEF Met
      <3>3. PICK v \in Status, pc \in {"clear", "update"}, b \in BOOLEAN :
              v = req[q].value /\ pc = "update" /\ b = TRUE
        BY <3>1
      <3>4. Met(req[q], w, s) = Setting(pc, w, s, v, b)
        BY <3>2, <3>3
      <3>5. /\ Met(req[q], w, s) \in Request /\ Met(req[q], w, s).pc = pc
            /\ Met(req[q], w, s).worker = w /\ Met(req[q], w, s).subject = s
            /\ Met(req[q], w, s).met = b
        BY <3>4, SettingType
      <3> QED
        BY <2>1, <3>3, <3>5
    <2>2. CASE ~(req[q].pc = "update" /\ req[q].worker = w /\ req[q].subject = s)
      <3>1. Met(req[q], w, s) = req[q] /\ req[q] \in Request
        BY <1>2, <2>2 DEF Met, TypeOK
      <3>2. req[q].pc = "update" => req[q].met \in BOOLEAN
        BY <1>2, RequestTypes
      <3> QED
        BY <2>2, <3>1, <3>2
    <2> QED
      BY <2>1, <2>2
  <1>7. TypeOK'
    <2>1. req' \in [Procs -> Request]
      BY <1>1, <1>3, <1>5, <1>6
    <2>2. \A q \in Procs :
             /\ req'[q].pc = "store" => req'[q].value \in Values(req'[q].subject)
             /\ req'[q].pc \in {"clear", "update"} => req'[q].subject[1] = "access"
      BY <1>2, <1>4, <1>5, <1>6 DEF TypeOK
    <2> QED
      BY <1>1, <1>2, <2>1, <2>2 DEF TypeOK, Values
  <1>8. Dated'
    BY <1>1, <1>2, <1>4, <1>5, <1>6 DEF Dated, Disagreeing
  <1>9. ShutOutAtOnce'
    BY <1>1 DEF AccessInv, ShutOutAtOnce
  <1>10. BlockingSound'
    <2>1. ASSUME NEW q \in Procs, req'[q].pc = "store", req'[q].subject \in blocked[req'[q].worker]
          PROVE  req'[q].value = "Blocked"
      <3>1. q # p /\ req'[q] = req[q]
        BY <1>4, <1>5, <1>6, <2>1
      <3> QED
        BY <2>1, <3>1, BlockingFacts
    <2>2. ASSUME NEW q \in Procs, req'[q].pc = "update", ~req'[q].met
          PROVE  (cache[req[q].worker][req[q].subject] = Null
                  /\ ~Filling(req[q].worker, req[q].subject))'
      <3>1. /\ q # p /\ req[q].pc = "update" /\ ~req[q].met
            /\ req'[q].worker = req[q].worker /\ req'[q].subject = req[q].subject
            /\ ~(req[q].worker = w /\ req[q].subject = s)
        BY <1>4, <1>5, <1>6, <2>2
      <3>2. PICK u, t : u = req[q].worker /\ t = req[q].subject
        OBVIOUS
      <3>3. cache[u][t] = Null /\ ~Filling(u, t)
        BY <3>1, <3>2, BlockingFacts
      <3>4. ~Filling(u, t)'
        BY <1>4, <1>5, <1>6, <3>1, <3>2, <3>3 DEF Filling
      <3> QED
        BY <1>1, <3>1, <3>2, <3>3, <3>4 DEF Filling
    <2> QED
      BY <1>1, <2>1, <2>2 DEF BlockingSound
  <1> QED
    BY <1>7, <1>8, <1>9, <1>10 DEF AccessInv

LEMMA ReadPreserves ==
    ASSUME AccessInv, NEW p \in Procs, Read(p) PROVE AccessInv'
  <1> DEFINE s == req[p].subject
             r == [pc |-> "store", worker |-> req[p].worker, subject |-> s, value |-> truth[s]]
  <1>1. TypeOK /\ req[p] # Idle
    BY DEF AccessInv, Read, Idle
  <1>2. r \in Request
    BY <1>1, RequestTypes DEF Request, TypeOK
  <1>3. r.pc = "store" /\ r.subject = s /\ r.value = truth[s]
    OBVIOUS
  <1>4. Goto(p, r) /\ UNCHANGED <<truth, cache, steady, blocked>>
    BY DEF Read
  <1>5. req[p].pc = "read" /\ r.worker = req[p].worker
    BY DEF Read
  <1> HIDE DEF r
  <1> QED
    BY <1>2, <1>3, <1>4, <1>5, SlotStep

LEMMA SetStatusPreserves ==
    ASSUME AccessInv, NEW p \in Procs, SetStatus(p) PROVE AccessInv'
  <1>1. PICK w \in Workers, s \in Accounts, v \in Status :
          Goto(p, Setting("clear", w, s, v, FALSE))
    BY DEF SetStatus
  <1>2. PICK r : r = Setting("clear", w, s, v, FALSE)
    OBVIOUS
  <1>3. r \in Request /\ r.pc = "clear" /\ r.subject[1] = "access"
    <2>1. s \in Subjects /\ s[1] = "access"
      BY DEF Accounts
    <2>2. PICK pc \in {"clear", "update"}, b \in BOOLEAN : pc = "clear" /\ b = FALSE
      OBVIOUS
    <2>3. r = Setting(pc, w, s, v, b)
      BY <1>2, <2>2
    <2>4. r \in Request /\ r.pc = pc /\ r.subject = s
      BY <2>1, <2>3, SettingType
    <2> QED
      BY <2>1, <2>2, <2>4
  <1> QED
    BY <1>1, <1>2, <1>3, SlotStep DEF SetStatus

\* What a guard stores was true, or no time has counted since it was read.
LEMMA StorePreserves ==
    ASSUME AccessInv, NEW p \in Procs, Store(p) PROVE AccessInv'
  <1> DEFINE w == req[p].worker
             s == req[p].subject
             v == req[p].value
  <1>1. TypeOK /\ Dated
    BY DEF AccessInv
  <1>2. /\ req[p].pc = "store" /\ w \in Workers /\ s \in Subjects
        /\ v \in AllValues /\ v \in Values(s)
    BY <1>1, RequestTypes DEF Store, Idle
  <1>3. /\ cache' = [cache EXCEPT ![w][s] = Remembered(s, v)]
        /\ truth' = truth /\ steady' = steady /\ blocked' = blocked
        /\ Goto(p, Idle)
    BY DEF Store
  <1>4. /\ req' \in [Procs -> Request]
        /\ \A q \in Procs : req'[q] = IF q = p THEN Idle ELSE req[q]
    BY <1>1, <1>3 DEF Goto, TypeOK, Request
  <1>5. Remembered(s, v) \in Entry \cup {Null}
        /\ (Remembered(s, v) # Null => Remembered(s, v) = [value |-> v, age |-> 0])
    BY <1>2 DEF Remembered, Entry
  <1>6. /\ cache' \in [Workers -> [Subjects -> Entry \cup {Null}]]
        /\ \A u \in Workers, t \in Subjects :
             cache'[u][t] = IF u = w /\ t = s THEN Remembered(s, v) ELSE cache[u][t]
    BY <1>1, <1>2, <1>3, <1>5 DEF TypeOK
  <1>7. TypeOK'
    <2>1. \A q \in Procs :
             /\ req'[q].pc = "store" => req'[q].value \in Values(req'[q].subject)
             /\ req'[q].pc \in {"clear", "update"} => req'[q].subject[1] = "access"
      BY <1>1, <1>4 DEF TypeOK, Idle
    <2>2. \A u \in Workers, t \in Subjects : cache'[u][t] # Null =>
             cache'[u][t].value \in Values(t) /\ cache'[u][t].age <= Lifetime[t[1]]
      BY <1>1, <1>2, <1>5, <1>6, KindTypes DEF TypeOK
    <2> QED
      BY <1>1, <1>3, <1>4, <1>6, <2>1, <2>2 DEF TypeOK, Values
  <1>8. Dated'
    <2>1. ASSUME NEW t \in Subjects, Disagreeing(t)' PROVE steady[t] = 0
      BY <1>1, <1>3, <1>4, <2>1 DEF Dated, Disagreeing, Idle
    <2>2. ASSUME NEW u \in Workers, NEW t \in Subjects,
                 cache'[u][t] # Null, cache'[u][t].value # truth[t]
          PROVE  steady[t] <= cache'[u][t].age
      <3>1. CASE u = w /\ t = s
        <4>1. v # truth[s]
          BY <1>5, <1>6, <2>2, <3>1
        <4>2. Disagreeing(s)
          BY <1>2, <4>1 DEF Disagreeing
        <4> QED
          BY <1>1, <1>5, <1>6, <2>2, <3>1, <4>2 DEF Dated
      <3>2. CASE ~(u = w /\ t = s)
        BY <1>1, <1>6, <2>2, <3>2 DEF Dated
      <3> QED
        BY <3>1, <3>2
    <2> QED
      BY <1>3, <2>1, <2>2 DEF Dated
  <1>9. ShutOutAtOnce'
    <2>1. ASSUME NEW u \in Workers, NEW t \in blocked[u]
          PROVE  truth[t] = "Blocked" /\ cache'[u][t] = Null
      <3>1. t \in Subjects /\ t \in Accounts /\ truth[t] = "Blocked" /\ cache[u][t] = Null
        BY <1>1, BlockingFacts DEF TypeOK, Accounts
      <3>2. CASE u = w /\ t = s
        <4>1. v = "Blocked"
          BY <1>2, <2>1, <3>2, BlockingFacts
        <4> QED
          BY <1>6, <3>1, <3>2, <4>1 DEF Remembered, Accounts
      <3>3. CASE ~(u = w /\ t = s)
        BY <1>6, <3>1, <3>3
      <3> QED
        BY <3>1, <3>2, <3>3
    <2> QED
      BY <1>3, <2>1 DEF ShutOutAtOnce
  <1>10. BlockingSound'
    <2>1. \A u, t : Filling(u, t)' => Filling(u, t)
      BY <1>4, FillingKept DEF Idle
    <2>2. \A q \in Procs : req'[q].pc = "store" /\ req'[q].subject \in blocked[req'[q].worker]
                           => req'[q].value = "Blocked"
      BY <1>4, BlockingFacts DEF Idle
    <2>3. ASSUME NEW q \in Procs, req'[q].pc = "update", ~req'[q].met
          PROVE  (cache[req[q].worker][req[q].subject] = Null
                  /\ ~Filling(req[q].worker, req[q].subject))'
      <3>1. req'[q] = req[q]
        BY <1>4, <2>3 DEF Idle
      <3>2. PICK u, t : u = req[q].worker /\ t = req[q].subject
        OBVIOUS
      <3>3. cache[u][t] = Null /\ ~Filling(u, t) /\ u \in Workers /\ t \in Subjects
        BY <1>1, <2>3, <3>1, <3>2, BlockingFacts, RequestTypes
      <3>4. Filling(w, s)
        BY <1>2 DEF Filling
      <3>5. cache'[u][t] = Null
        BY <1>6, <3>3, <3>4
      <3> QED
        BY <2>1, <3>1, <3>2, <3>3, <3>5 DEF Filling
    <2> QED
      BY <1>3, <2>2, <2>3 DEF BlockingSound
  <1> QED
    BY <1>7, <1>8, <1>9, <1>10 DEF AccessInv

\* Entries disappear: nothing becomes wrong by that.
LEMMA Forgetting ==
    ASSUME AccessInv, cache' \in [Workers -> [Subjects -> Entry \cup {Null}]],
           \A w \in Workers, s \in Subjects : cache'[w][s] \in {cache[w][s], Null},
           UNCHANGED <<truth, steady>>
    PROVE  /\ \A w \in Workers, s \in Subjects : cache'[w][s] # Null =>
                cache'[w][s].value \in Values(s) /\ cache'[w][s].age <= Lifetime[s[1]]
           /\ \A w \in Workers, s \in Subjects :
                cache'[w][s] # Null /\ cache'[w][s].value # truth'[s]
                  => steady'[s] <= cache'[w][s].age
  BY DEF AccessInv, TypeOK, Dated

\* The own worker's entry goes before the new status is written.
LEMMA ClearPreserves ==
    ASSUME AccessInv, NEW p \in Procs, Clear(p) PROVE AccessInv'
  <1> DEFINE w == req[p].worker
             s == req[p].subject
             r == Setting("update", w, s, req[p].value, Filling(w, s))
  <1>1. TypeOK /\ Dated
    BY DEF AccessInv
  <1>2. req[p].pc = "clear" /\ w \in Workers /\ s \in Subjects /\ s[1] = "access"
    BY <1>1, RequestTypes DEF Clear, Idle
  <1>3. /\ cache' = [cache EXCEPT ![w][s] = Null] /\ req' = [req EXCEPT ![p] = r]
        /\ truth' = truth /\ steady' = steady /\ blocked' = blocked
    BY DEF Clear, Cleared, Goto
  <1>4. req[p].value \in Status /\ Filling(w, s) \in BOOLEAN
    BY <1>1, <1>2, RequestTypes DEF Filling
  <1>5. PICK b \in BOOLEAN : b = Filling(w, s)
    BY <1>4
  <1>6. r \in Request /\ r.pc = "update" /\ r.worker = w /\ r.subject = s
        /\ r.met = Filling(w, s)
    <2>1. r = Setting("update", w, s, req[p].value, b)
      BY <1>5
    <2> HIDE DEF r
    <2> QED
      BY <1>2, <1>4, <1>5, <2>1, SettingType
  <1>7. /\ cache' \in [Workers -> [Subjects -> Entry \cup {Null}]]
        /\ \A u \in Workers, t \in Subjects :
             cache'[u][t] = IF u = w /\ t = s THEN Null ELSE cache[u][t]
    BY <1>1, <1>2, <1>3 DEF TypeOK
  <1> HIDE DEF r
  <1>8. req' \in [Procs -> Request] /\ \A q \in Procs : req'[q] = IF q = p THEN r ELSE req[q]
    BY <1>1, <1>3, <1>6 DEF TypeOK
  <1>9. /\ \A u \in Workers, t \in Subjects : cache'[u][t] # Null =>
             cache'[u][t].value \in Values(t) /\ cache'[u][t].age <= Lifetime[t[1]]
        /\ \A u \in Workers, t \in Subjects :
             cache'[u][t] # Null /\ cache'[u][t].value # truth'[t]
               => steady'[t] <= cache'[u][t].age
    BY <1>3, <1>7, Forgetting
  <1>10. TypeOK'
    <2>1. \A q \in Procs :
             /\ req'[q].pc = "store" => req'[q].value \in Values(req'[q].subject)
             /\ req'[q].pc \in {"clear", "update"} => req'[q].subject[1] = "access"
      BY <1>1, <1>2, <1>6, <1>8 DEF TypeOK
    <2> QED
      BY <1>1, <1>3, <1>7, <1>8, <1>9, <2>1 DEF TypeOK, Values
  <1>11. Dated'
    <2>1. ASSUME NEW t \in Subjects, Disagreeing(t)' PROVE steady[t] = 0
      BY <1>1, <1>3, <1>6, <1>8, <2>1 DEF Disagreeing, Dated
    <2> QED
      BY <1>3, <1>9, <2>1 DEF Dated
  <1>12. ShutOutAtOnce'
    <2>1. \A u \in Workers, t \in Subjects : t \in blocked[u] =>
             truth[t] = "Blocked" /\ cache'[u][t] = Null
      BY <1>7, BlockingFacts
    <2> QED
      BY <1>1, <1>3, <2>1 DEF ShutOutAtOnce, TypeOK, Accounts
  <1>13. BlockingSound'
    <2>1. \A u, t : Filling(u, t)' => Filling(u, t)
      BY <1>6, <1>8, FillingKept
    <2>2. \A q \in Procs : req'[q].pc = "store" /\ req'[q].subject \in blocked[req'[q].worker]
                           => req'[q].value = "Blocked"
      BY <1>6, <1>8, BlockingFacts
    <2>3. ASSUME NEW q \in Procs, req'[q].pc = "update", ~req'[q].met
          PROVE  (cache[req[q].worker][req[q].subject] = Null
                  /\ ~Filling(req[q].worker, req[q].subject))'
      <3>1. PICK u, t : u = req'[q].worker /\ t = req'[q].subject
        OBVIOUS
      <3>2. cache'[u][t] = Null /\ ~Filling(u, t)
        <4>1. CASE q = p
          BY <1>2, <1>6, <1>7, <1>8, <2>3, <3>1, <4>1
        <4>2. CASE q # p
          <5>1. cache[u][t] = Null /\ ~Filling(u, t) /\ u \in Workers /\ t \in Subjects
            BY <1>1, <1>8, <2>3, <3>1, <4>2, BlockingFacts, RequestTypes DEF Idle
          <5> QED
            BY <1>7, <5>1
        <4> QED
          BY <4>1, <4>2
      <3> QED
        BY <2>1, <3>1, <3>2 DEF Filling
    <2> QED
      BY <1>3, <2>2, <2>3 DEF BlockingSound
  <1> QED
    BY <1>10, <1>11, <1>12, <1>13 DEF AccessInv

\* When the tables change, time begins to count anew.
LEMMA TruthChanges ==
    ASSUME AccessInv, NEW s \in Subjects, NEW v \in Values(s), SetTruth(s, v), cache' = cache,
           req' \in [Procs -> Request], \A p \in Procs : req'[p] \in {req[p], Idle},
           blocked' \in [Workers -> SUBSET Accounts], ShutOutAtOnce', BlockingSound'
    PROVE  AccessInv'
  <1>1. TypeOK /\ Dated
    BY DEF AccessInv
  <1>2. truth' = [truth EXCEPT ![s] = v]
        /\ steady' = IF v = truth[s] THEN steady ELSE [steady EXCEPT ![s] = 0]
    BY DEF SetTruth
  <1>3. /\ truth' \in [Subjects -> AllValues] /\ steady' \in [Subjects -> Nat]
        /\ \A t \in Subjects : truth'[t] = IF t = s THEN v ELSE truth[t]
        /\ \A t \in Subjects : steady'[t] = IF t = s /\ v # truth[s] THEN 0 ELSE steady[t]
    BY <1>1, <1>2, KindTypes DEF TypeOK
  <1>4. TypeOK'
    <2>1. \A t \in Subjects : truth'[t] \in Values(t) /\ steady'[t] <= Lifetime[t[1]] + 1
      BY <1>1, <1>3, KindTypes DEF TypeOK
    <2>2. \A p \in Procs :
             /\ req'[p].pc = "store" => req'[p].value \in Values(req'[p].subject)
             /\ req'[p].pc \in {"clear", "update"} => req'[p].subject[1] = "access"
      BY <1>1 DEF TypeOK, Idle
    <2> QED
      BY <1>1, <1>3, <2>1, <2>2 DEF TypeOK, Values
  <1>5. Dated'
    <2>1. ASSUME NEW t \in Subjects, Disagreeing(t)' PROVE steady'[t] = 0
      <3>1. PICK p \in Procs : /\ req'[p].pc = "store" /\ req'[p].subject = t
                               /\ req'[p].value # truth'[t]
        BY <2>1 DEF Disagreeing
      <3>2. req'[p] = req[p]
        BY <3>1 DEF Idle
      <3>3. CASE t = s /\ v # truth[s]
        BY <1>3, <3>3
      <3>4. CASE ~(t = s /\ v # truth[s])
        BY <1>1, <1>3, <3>1, <3>2, <3>4 DEF Dated, Disagreeing
      <3> QED
        BY <3>3, <3>4
    <2>2. ASSUME NEW w \in Workers, NEW t \in Subjects,
                 cache[w][t] # Null, cache[w][t].value # truth'[t]
          PROVE  steady'[t] <= cache[w][t].age
      <3>1. cache[w][t].age \in Nat
        BY <1>1, <2>2 DEF TypeOK, Entry
      <3>2. CASE t = s /\ v # truth[s]
        BY <1>3, <3>1, <3>2
      <3>3. CASE ~(t = s /\ v # truth[s])
        BY <1>1, <1>3, <2>2, <3>3 DEF Dated
      <3> QED
        BY <3>2, <3>3
    <2> QED
      BY <2>1, <2>2 DEF Dated
  <1> QED
    BY <1>4, <1>5 DEF AccessInv

\* Who blocks an account without meeting a miss has emptied its entry, and
\* nobody is about to fill it.
LEMMA UpdatePreserves ==
    ASSUME AccessInv, NEW p \in Procs, Update(p) PROVE AccessInv'
  <1> DEFINE w == req[p].worker
             s == req[p].subject
  <1>1. TypeOK /\ req[p].pc = "update"
    BY DEF AccessInv, Update
  <1>2. /\ w \in Workers /\ s \in Subjects /\ s \in Accounts /\ req[p].value \in Values(s)
        /\ req[p].met \in BOOLEAN
    BY <1>1, RequestTypes DEF Values, Idle, Accounts
  <1>3. req' \in [Procs -> Request] /\ \A q \in Procs : req'[q] = IF q = p THEN Idle ELSE req[q]
    BY <1>1 DEF Update, Goto, TypeOK, Request
  <1>4. /\ SetTruth(s, req[p].value) /\ cache' = cache
        /\ \A t \in Subjects : truth'[t] = IF t = s THEN req[p].value ELSE truth[t]
    BY <1>1 DEF Update, SetTruth, TypeOK
  <1>5. /\ blocked' \in [Workers -> SUBSET Accounts]
        /\ \A u \in Workers :
             blocked'[u] = IF u = w /\ req[p].value = "Blocked" /\ ~req[p].met
                           THEN blocked[u] \cup {s} ELSE blocked[u] \ {s}
    BY <1>1, <1>2 DEF Update, TypeOK
  <1>6. ASSUME NEW u \in Workers, NEW t \in blocked'[u]
        PROVE  /\ t \in Subjects /\ truth'[t] = "Blocked" /\ cache[u][t] = Null
               /\ t = s => ~Filling(u, t)
               /\ t # s => t \in blocked[u]
    <2>1. t \in Subjects
      BY <1>5, <1>6 DEF Accounts
    <2>2. CASE t = s
      <3>1. u = w /\ req[p].value = "Blocked" /\ ~req[p].met
        BY <1>5, <1>6, <2>2
      <3> QED
        BY <1>1, <1>4, <2>1, <2>2, <3>1, BlockingFacts
    <2>3. CASE t # s
      <3>1. t \in blocked[u]
        BY <1>5, <1>6, <2>3
      <3> QED
        BY <1>4, <2>1, <2>3, <3>1, BlockingFacts
    <2> QED
      BY <2>1, <2>2, <2>3
  <1>7. ShutOutAtOnce'
    BY <1>4, <1>6 DEF ShutOutAtOnce
  <1>8. BlockingSound'
    <2>1. \A u, t : Filling(u, t)' => Filling(u, t)
      BY <1>3, FillingKept DEF Idle
    <2>2. ASSUME NEW q \in Procs, req'[q].pc = "store",
                 req'[q].subject \in blocked'[req'[q].worker]
          PROVE  req'[q].value = "Blocked"
      <3>1. req'[q] = req[q]
        BY <1>3, <2>2 DEF Idle
      <3>2. req[q].worker \in Workers
        BY <1>1, <2>2, <3>1, RequestTypes
      <3>3. Filling(req[q].worker, req[q].subject)
        BY <2>2, <3>1 DEF Filling
      <3>4. req[q].subject \in blocked[req[q].worker]
        BY <1>6, <2>2, <3>1, <3>2, <3>3
      <3> QED
        BY <2>2, <3>1, <3>4, BlockingFacts
    <2>3. ASSUME NEW q \in Procs, req'[q].pc = "update", ~req'[q].met
          PROVE  (cache[req[q].worker][req[q].subject] = Null
                  /\ ~Filling(req[q].worker, req[q].subject))'
      <3>1. req'[q] = req[q]
        BY <1>3, <2>3 DEF Idle
      <3>2. PICK u, t : u = req[q].worker /\ t = req[q].subject
        OBVIOUS
      <3>3. cache[u][t] = Null /\ ~Filling(u, t)
        BY <2>3, <3>1, <3>2, BlockingFacts
      <3> QED
        BY <1>4, <2>1, <3>1, <3>2, <3>3 DEF Filling
    <2> QED
      BY <2>2, <2>3 DEF BlockingSound
  <1>9. \A q \in Procs : req'[q] \in {req[q], Idle}
    BY <1>3
  <1> QED
    BY <1>2, <1>3, <1>4, <1>5, <1>7, <1>8, <1>9, TruthChanges

LEMMA RewritePreserves ==
    ASSUME AccessInv, NEW s \in Subjects, NEW v \in Contents, Rewrite(s, v) PROVE AccessInv'
  <1>1. req' \in [Procs -> Request] /\ \A q \in Procs : req'[q] \in {req[q], Idle}
    BY DEF Rewrite, AccessInv, TypeOK
  <1>2. /\ blocked' = blocked /\ cache' = cache /\ req' = req
        /\ blocked \in [Workers -> SUBSET Accounts] /\ s \notin Accounts
        /\ \A t \in Subjects : t # s => truth'[t] = truth[t]
    BY DEF Rewrite, SetTruth, AccessInv, TypeOK, Accounts
  <1>3. ShutOutAtOnce'
    BY <1>2 DEF AccessInv, ShutOutAtOnce, Accounts
  <1>4. BlockingSound'
    BY <1>2 DEF AccessInv, BlockingSound, Filling
  <1> QED
    BY <1>1, <1>2, <1>3, <1>4, TruthChanges DEF Rewrite

\* A tick makes entries and the truth older together.
LEMMA TickPreserves ==
    ASSUME AccessInv, Tick PROVE AccessInv'
  <1>1. TypeOK /\ Dated
    BY DEF AccessInv
  <1>2. /\ cache' = [w \in Workers |-> [s \in Subjects |-> Aged(s, cache[w][s])]]
        /\ steady' = [s \in Subjects |-> Waited(s)] /\ truth' = truth /\ req' = req
        /\ blocked' = blocked
    BY DEF Tick
  <1>3. ASSUME NEW w \in Workers, NEW s \in Subjects
        PROVE  /\ Aged(s, cache[w][s]) \in Entry \cup {Null}
               /\ cache[w][s] = Null => Aged(s, cache[w][s]) = Null
               /\ Aged(s, cache[w][s]) # Null =>
                    /\ cache[w][s] # Null
                    /\ Aged(s, cache[w][s]).value = cache[w][s].value
                    /\ Aged(s, cache[w][s]).age = cache[w][s].age + 1
                    /\ Aged(s, cache[w][s]).age <= Lifetime[s[1]]
    <2>1. cache[w][s] \in Entry \cup {Null} /\ Lifetime[s[1]] \in Nat
      BY <1>1, KindTypes DEF TypeOK
    <2>2. CASE cache[w][s] = Null \/ cache[w][s].age = Lifetime[s[1]]
      BY <2>2 DEF Aged
    <2>3. CASE ~(cache[w][s] = Null \/ cache[w][s].age = Lifetime[s[1]])
      <3>1. cache[w][s] \in Entry /\ cache[w][s].age <= Lifetime[s[1]]
        BY <1>1, <2>1, <2>3 DEF TypeOK
      <3>2. Aged(s, cache[w][s]) = [cache[w][s] EXCEPT !.age = cache[w][s].age + 1]
        BY <2>3 DEF Aged
      <3> QED
        BY <2>1, <2>3, <3>1, <3>2 DEF Entry
    <2> QED
      BY <2>2, <2>3
  <1>4. ASSUME NEW s \in Subjects
        PROVE  /\ Waited(s) \in Nat /\ Waited(s) <= Lifetime[s[1]] + 1
               /\ Waited(s) <= steady[s] + 1
               /\ Disagreeing(s) => Waited(s) = 0
    <2>1. /\ Lifetime[s[1]] \in Nat /\ steady[s] \in Nat
          /\ steady[s] <= Lifetime[s[1]] + 1
      BY <1>1, KindTypes DEF TypeOK
    <2>2. CASE Disagreeing(s)
      BY <2>1, <2>2 DEF Waited
    <2>3. CASE ~Disagreeing(s) /\ steady[s] = Lifetime[s[1]] + 1
      BY <2>1, <2>3 DEF Waited
    <2>4. CASE ~Disagreeing(s) /\ steady[s] # Lifetime[s[1]] + 1
      BY <2>1, <2>4 DEF Waited
    <2> QED
      BY <2>2, <2>3, <2>4
  <1>5. TypeOK'
    <2>1. cache' \in [Workers -> [Subjects -> Entry \cup {Null}]] /\ steady' \in [Subjects -> Nat]
      BY <1>2, <1>3, <1>4
    <2>2. \A w \in Workers, s \in Subjects : cache'[w][s] # Null =>
             cache'[w][s].value \in Values(s) /\ cache'[w][s].age <= Lifetime[s[1]]
      BY <1>1, <1>2, <1>3 DEF TypeOK
    <2>3. \A s \in Subjects : steady'[s] <= Lifetime[s[1]] + 1
      BY <1>2, <1>4
    <2> QED
      BY <1>1, <1>2, <2>1, <2>2, <2>3 DEF TypeOK, Values
  <1>6. Dated'
    <2>1. ASSUME NEW s \in Subjects, Disagreeing(s)' PROVE steady'[s] = 0
      BY <1>2, <1>4, <2>1 DEF Disagreeing
    <2>2. ASSUME NEW w \in Workers, NEW s \in Subjects,
                 cache'[w][s] # Null, cache'[w][s].value # truth[s]
          PROVE  steady'[s] <= cache'[w][s].age
      <3>1. /\ cache[w][s] # Null /\ cache'[w][s].value = cache[w][s].value
            /\ cache'[w][s].age = cache[w][s].age + 1
        BY <1>2, <1>3, <2>2
      <3>2. steady[s] <= cache[w][s].age /\ cache[w][s].age \in Nat /\ steady[s] \in Nat
        BY <1>1, <2>2, <3>1 DEF Dated, TypeOK, Entry
      <3>3. steady'[s] = Waited(s)
        BY <1>2
      <3> QED
        BY <1>4, <3>1, <3>2, <3>3
    <2> QED
      BY <1>2, <2>1, <2>2 DEF Dated
  <1>7. ShutOutAtOnce'
    <2>1. \A w \in Workers, s \in Subjects : s \in blocked[w] =>
             truth[s] = "Blocked" /\ cache'[w][s] = Null
      BY <1>2, <1>3, BlockingFacts
    <2> QED
      BY <1>1, <1>2, <2>1 DEF ShutOutAtOnce, TypeOK, Accounts
  <1>8. BlockingSound'
    <2>1. ASSUME NEW p \in Procs, req[p].pc = "update", ~req[p].met
          PROVE  /\ cache'[req[p].worker][req[p].subject] = Null
                 /\ ~Filling(req[p].worker, req[p].subject)
      <3>1. req[p].worker \in Workers /\ req[p].subject \in Subjects
        BY <1>1, <2>1, RequestTypes DEF Idle
      <3> QED
        BY <1>2, <1>3, <2>1, <3>1, BlockingFacts
    <2> QED
      BY <1>2, <2>1 DEF AccessInv, BlockingSound, Filling
  <1> QED
    BY <1>5, <1>6, <1>7, <1>8 DEF AccessInv

\* Entries go, and with a worker its requests.
LEMMA ForgetPreserves ==
    ASSUME AccessInv, cache' \in [Workers -> [Subjects -> Entry \cup {Null}]],
           \A w \in Workers, s \in Subjects : cache'[w][s] \in {cache[w][s], Null},
           req' \in [Procs -> Request], \A p \in Procs : req'[p] \in {req[p], Idle},
           UNCHANGED <<truth, steady, blocked>>
    PROVE  AccessInv'
  <1>1. TypeOK /\ Dated
    BY DEF AccessInv
  <1>2. /\ \A w \in Workers, s \in Subjects : cache'[w][s] # Null =>
             cache'[w][s].value \in Values(s) /\ cache'[w][s].age <= Lifetime[s[1]]
        /\ \A w \in Workers, s \in Subjects :
             cache'[w][s] # Null /\ cache'[w][s].value # truth'[s]
               => steady'[s] <= cache'[w][s].age
    BY Forgetting
  <1>3. TypeOK'
    <2>1. \A p \in Procs :
             /\ req'[p].pc = "store" => req'[p].value \in Values(req'[p].subject)
             /\ req'[p].pc \in {"clear", "update"} => req'[p].subject[1] = "access"
      BY <1>1 DEF TypeOK, Idle
    <2> QED
      BY <1>1, <1>2, <2>1 DEF TypeOK, Values
  <1>4. Dated'
    BY <1>1, <1>2 DEF Dated, Disagreeing, Idle
  <1>5. ShutOutAtOnce'
    <2>1. \A w \in Workers, s \in Subjects : s \in blocked[w] =>
             truth[s] = "Blocked" /\ cache'[w][s] = Null
      BY BlockingFacts
    <2> QED
      BY <1>1, <2>1 DEF ShutOutAtOnce, TypeOK, Accounts
  <1>6. BlockingSound'
    <2>1. \A w, s : Filling(w, s)' => Filling(w, s)
      BY FillingKept DEF Idle
    <2>2. \A p \in Procs : req'[p].pc = "store" /\ req'[p].subject \in blocked[req'[p].worker]
                           => req'[p].value = "Blocked"
      BY BlockingFacts DEF Idle
    <2>3. ASSUME NEW p \in Procs, req'[p].pc = "update", ~req'[p].met
          PROVE  (cache[req[p].worker][req[p].subject] = Null
                  /\ ~Filling(req[p].worker, req[p].subject))'
      <3>1. req'[p] = req[p]
        BY <2>3 DEF Idle
      <3>2. PICK w, s : w = req[p].worker /\ s = req[p].subject
        OBVIOUS
      <3>3. cache[w][s] = Null /\ ~Filling(w, s) /\ w \in Workers /\ s \in Subjects
        BY <1>1, <2>3, <3>1, <3>2, BlockingFacts, RequestTypes DEF Idle
      <3>4. cache'[w][s] = Null /\ ~Filling(w, s)'
        BY <2>1, <3>3
      <3> QED
        BY <3>1, <3>2, <3>4 DEF Filling
    <2> QED
      BY <2>2, <2>3 DEF BlockingSound
  <1> QED
    BY <1>3, <1>4, <1>5, <1>6 DEF AccessInv

LEMMA ExpirePreserves ==
    ASSUME AccessInv, NEW w \in Workers, NEW s \in Subjects, Expire(w, s) PROVE AccessInv'
  BY ForgetPreserves DEF Expire, AccessInv, TypeOK

LEMMA RespawnPreserves ==
    ASSUME AccessInv, NEW w \in Workers, Respawn(w) PROVE AccessInv'
  <1>1. TypeOK
    BY DEF AccessInv
  <1>2. /\ cache' \in [Workers -> [Subjects -> Entry \cup {Null}]]
        /\ \A u \in Workers, s \in Subjects : cache'[u][s] \in {cache[u][s], Null}
    BY <1>1 DEF Respawn, TypeOK
  <1>3. req' \in [Procs -> Request] /\ \A p \in Procs : req'[p] \in {req[p], Idle}
    BY <1>1 DEF Respawn, TypeOK, Request
  <1> QED
    BY <1>2, <1>3, ForgetPreserves DEF Respawn

LEMMA InitAccess == Init => AccessInv
  <1> SUFFICES ASSUME Init PROVE AccessInv
    OBVIOUS
  <1>1. TypeOK
    <2>1. \A s \in Subjects : truth[s] \in Values(s) /\ 0 <= Lifetime[s[1]] + 1
      BY KindTypes DEF Init
    <2> QED
      BY <2>1 DEF Init, TypeOK, Request, Idle
  <1>2. Dated
    BY DEF Init, Dated, Disagreeing, Idle
  <1>3. ShutOutAtOnce /\ BlockingSound
    BY DEF Init, ShutOutAtOnce, BlockingSound, Idle
  <1> QED
    BY <1>1, <1>2, <1>3 DEF AccessInv

LEMMA NextAccess == AccessInv /\ [Next]_vars => AccessInv'
  <1> SUFFICES ASSUME AccessInv, [Next]_vars PROVE AccessInv'
    OBVIOUS
  <1>1. ASSUME NEW p \in Procs, Miss(p) \/ SetStatus(p) \/ Read(p) PROVE AccessInv'
    BY <1>1, MissPreserves, SetStatusPreserves, ReadPreserves
  <1>2. ASSUME NEW p \in Procs, Store(p) PROVE AccessInv'
    BY <1>2, StorePreserves
  <1>3. ASSUME NEW p \in Procs, Clear(p) PROVE AccessInv'
    BY <1>3, ClearPreserves
  <1>4. ASSUME NEW p \in Procs, Update(p) PROVE AccessInv'
    BY <1>4, UpdatePreserves
  <1>5. ASSUME NEW s \in Subjects, NEW v \in Contents, Rewrite(s, v) PROVE AccessInv'
    BY <1>5, RewritePreserves
  <1>6. CASE Tick
    BY <1>6, TickPreserves
  <1>7. ASSUME NEW w \in Workers, NEW s \in Subjects, Expire(w, s) PROVE AccessInv'
    BY <1>7, ExpirePreserves
  <1>8. ASSUME NEW w \in Workers, Respawn(w) PROVE AccessInv'
    BY <1>8, RespawnPreserves
  <1>9. CASE UNCHANGED vars
    BY <1>9 DEF vars, AccessInv, TypeOK, Dated, Disagreeing, ShutOutAtOnce, BlockingSound,
                  Filling, Values
  <1> QED
    BY <1>1, <1>2, <1>3, <1>4, <1>5, <1>6, <1>7, <1>8, <1>9 DEF Next, Step

\* The inductive invariant holds of every behaviour.
THEOREM AccessInvariant == Spec => []AccessInv
  BY InitAccess, NextAccess, PTL DEF Spec

\* Type correctness.
THEOREM TypeCorrect == Spec => []TypeOK
  <1>1. AccessInv => TypeOK
    BY DEF AccessInv
  <1> QED
    BY AccessInvariant, <1>1, PTL

\* A lifetime after the last change, and after the last late store, no worker
\* is wrong.
THEOREM CachesSettle == Spec => []Settled
  <1>1. ASSUME AccessInv, NEW w \in Workers, NEW s \in Subjects,
               steady[s] > Lifetime[s[1]], cache[w][s] # Null, cache[w][s].value # truth[s]
        PROVE  FALSE
    <2>1. steady[s] <= cache[w][s].age /\ cache[w][s].age <= Lifetime[s[1]]
      BY <1>1 DEF AccessInv, Dated, TypeOK
    <2>2. steady[s] \in Nat /\ cache[w][s].age \in Nat /\ Lifetime[s[1]] \in Nat
      BY <1>1, KindTypes DEF AccessInv, TypeOK, Entry
    <2> QED
      BY <1>1, <2>1, <2>2
  <1>2. AccessInv => Settled
    BY <1>1 DEF Settled
  <1> QED
    BY AccessInvariant, <1>2, PTL

\* A worker that blocks an account shuts it out at once, unless a miss of its
\* own met the setStatus.
THEOREM BlockingServes == Spec => []ShutOutAtOnce
  <1>1. AccessInv => ShutOutAtOnce
    BY DEF AccessInv
  <1> QED
    BY AccessInvariant, <1>1, PTL
=============================================================================
