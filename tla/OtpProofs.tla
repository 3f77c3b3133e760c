------------------------------ MODULE OtpProofs ------------------------------
(***************************************************************************)
(* Type correctness of Otp, its limits and, for targets whose requests run *)
(* one at a time, the truth of the counts and the length of a block: for   *)
(* any number of requests and targets and for any limits and timeouts.     *)
(*                                                                         *)
(* LimitsHold speaks of the table, but requests write what they computed   *)
(* from a copy that may be old.  LimitsInv adds that every copy is within  *)
(* the limits itself, and that a request which got past the check on its   *)
(* copy writes one more than a count below the limit.                      *)
(*                                                                         *)
(* CountsAreTrue speaks of moments without a request.  CalmInv (see Otp)   *)
(* says what holds in between: the one request at work knows the row as it *)
(* is, and how far what the owner has seen is ahead of it.                 *)
(***************************************************************************)
EXTENDS Otp, TLAPS

\* The limits as a statement about one row, wherever it is held.
WithinLimits(row) ==
    /\ row.attempt \in 1..MaxAttempt
    /\ row.retries \in 0..MaxRetries
    /\ row.retries = MaxRetries => row.blocked

\* What an unfinished request read or is about to write is within the limits.
RequestWithin(r) ==
    /\ r.pc = "sendFound" /\ r.row # Null => WithinLimits(r.row)
    /\ r.pc = "verifyFound" => WithinLimits(r.row)
    /\ r.pc = "resend" => r.attempt \in 1..MaxAttempt
    /\ r.pc = "wrong" => r.retries \in 1..MaxRetries

\* A request that has found a row may update it: nothing deletes rows.
HasRow(r) ==
    \/ r.pc \in {"verifyFound", "resend", "block", "wrong", "right"}
    \/ r.pc = "sendFound" /\ r.row # Null
    => Exists(r.target)

LimitsInv ==
    /\ TypeOK
    /\ LimitsHold
    /\ \A p \in Procs : RequestWithin(req[p]) /\ HasRow(req[p])

-----------------------------------------------------------------------------

\* An idle slot is about to write nothing.
LEMMA IdleIsWithin == Idle \in Request /\ RequestWithin(Idle) /\ HasRow(Idle)
  BY DEF RequestWithin, HasRow, Idle, Request

\* A date that grows older is still an age.
LEMMA OlderType == ASSUME NEW age \in Ages PROVE Older(age) \in Ages
  BY TimeoutsAssumption DEF Older, AtMost, Ages

\* A row that grows older keeps everything but its age.
LEMMA OlderRowType ==
    ASSUME NEW row \in Row
    PROVE  /\ OlderRow(row) \in Row
           /\ OlderRow(row) = [row EXCEPT !.age = Older(row.age)]
  <1>1. row # Null
    BY NullAssumption
  <1>2. OlderRow(row) = [row EXCEPT !.age = Older(row.age)]
    BY <1>1 DEF OlderRow
  <1>3. Older(row.age) \in Ages
    BY OlderType DEF Row
  <1> QED
    BY <1>2, <1>3 DEF Row

\* What the owner has seen stays of its type in every way it can change.
LEMMA SeenType ==
    ASSUME NEW seen \in Seen
    PROVE  /\ \A code \in Codes : [seen EXCEPT !.code = code] \in Seen
           /\ [seen EXCEPT !.wrong = AtMost(seen.wrong + 1, MaxRetries + 1)] \in Seen
           /\ [seen EXCEPT !.right = TRUE] \in Seen
           /\ \A quiet \in BOOLEAN :
                 [seen EXCEPT !.codes = IF quiet \/ seen.right THEN 1
                                        ELSE AtMost(seen.codes + 1, MaxAttempt + 1),
                              !.wrong = 0, !.right = FALSE] \in Seen
  <1>1. AtMost(seen.wrong + 1, MaxRetries + 1) \in 0..(MaxRetries + 1)
    BY LimitsAssumption DEF AtMost, Seen
  <1>2. AtMost(seen.codes + 1, MaxAttempt + 1) \in 0..(MaxAttempt + 1)
    BY LimitsAssumption DEF AtMost, Seen
  <1>3. 1 \in 0..(MaxAttempt + 1) /\ 0 \in 0..(MaxRetries + 1)
    BY LimitsAssumption
  <1> QED
    BY <1>1, <1>2, <1>3 DEF Seen

\* A step that leaves the table alone and gives one slot a request within the
\* limits.
LEMMA SlotStep ==
    ASSUME LimitsInv, NEW p \in Procs, NEW r \in Request, RequestWithin(r), HasRow(r),
           req' = [req EXCEPT ![p] = r], UNCHANGED otp,
           told' \in [Targets -> Seen \cup {Null}]
    PROVE  LimitsInv'
  <1>1. TypeOK'
    BY DEF LimitsInv, TypeOK
  <1>2. LimitsHold'
    BY DEF LimitsInv, LimitsHold, Exists
  <1>3. ASSUME NEW q \in Procs PROVE RequestWithin(req'[q]) /\ HasRow(req'[q])
    <2>1. req'[q] = r \/ req'[q] = req[q]
      BY DEF LimitsInv, TypeOK
    <2> QED
      BY <2>1 DEF LimitsInv
  <1> QED
    BY <1>1, <1>2, <1>3 DEF LimitsInv, RequestWithin, WithinLimits, HasRow, Exists

\* A write: one row within the limits, one slot.
LEMMA RowWritten ==
    ASSUME LimitsInv, NEW p \in Procs, NEW r \in Request, RequestWithin(r), HasRow(r),
           req' = [req EXCEPT ![p] = r], UNCHANGED told,
           NEW t \in Targets, NEW row \in Row, WithinLimits(row),
           otp' = [otp EXCEPT ![t] = row]
    PROVE  LimitsInv'
  <1>1. TypeOK'
    BY DEF LimitsInv, TypeOK
  <1>2. LimitsHold'
    <2> SUFFICES ASSUME NEW u \in Targets, otp'[u] # Null PROVE WithinLimits(otp'[u])
      BY DEF LimitsHold, Exists, WithinLimits
    <2>1. otp'[u] = row \/ otp'[u] = otp[u]
      BY DEF LimitsInv, TypeOK
    <2> QED
      BY <2>1 DEF LimitsInv, LimitsHold, Exists, WithinLimits
  <1>3. ASSUME NEW q \in Procs PROVE RequestWithin(req'[q]) /\ HasRow(req'[q])
    <2>1. req'[q] = r \/ req'[q] = req[q]
      BY DEF LimitsInv, TypeOK
    <2> QED
      BY <2>1 DEF LimitsInv
  <1>4. \A u \in Targets : Exists(u) => Exists(u)'
    BY NullAssumption DEF LimitsInv, TypeOK, Exists
  <1>5. \A q \in Procs : req'[q] \in Request
    BY <1>1 DEF TypeOK
  <1>6. ASSUME NEW q \in Procs PROVE HasRow(req[q])'
    <2>1. req'[q] \in Request /\ HasRow(req'[q])
      BY <1>3, <1>5
    <2>2. req'[q] = Idle \/ req'[q].target \in Targets
      BY <2>1 DEF Request
    <2> QED
      BY <1>4, <2>1, <2>2 DEF HasRow, Idle
  <1> QED
    BY <1>1, <1>2, <1>3, <1>6 DEF LimitsInv, RequestWithin, WithinLimits

-----------------------------------------------------------------------------

\* A row of the table is a row, within the limits.
LEMMA TableRow ==
    ASSUME LimitsInv, NEW t \in Targets, Exists(t)
    PROVE  otp[t] \in Row /\ WithinLimits(otp[t])
  BY DEF LimitsInv, TypeOK, LimitsHold, Exists, WithinLimits

\* send reads the row.
LEMMA SendFindPreserves ==
    ASSUME LimitsInv, NEW p \in Procs, NEW t \in Targets, SendFind(p, t)
    PROVE  LimitsInv'
  <1> DEFINE r == [pc |-> "sendFound", target |-> t, row |-> otp[t]]
  <1>1. r \in Request
    BY DEF LimitsInv, TypeOK, Request
  <1>2. RequestWithin(r) /\ HasRow(r)
    BY TableRow DEF RequestWithin, HasRow, Exists
  <1>3. told' \in [Targets -> Seen \cup {Null}]
    BY DEF LimitsInv, TypeOK, SendFind, Begin
  <1> QED
    BY <1>1, <1>2, <1>3, SlotStep DEF SendFind, Begin

\* send without a row.
LEMMA SendFirstPreserves ==
    ASSUME LimitsInv, NEW p \in Procs, SendFirst(p)
    PROVE  LimitsInv'
  <1> DEFINE t == req[p].target
  <1>1. t \in Targets
    BY DEF LimitsInv, TypeOK, SendFirst, Request, Idle
  <1>2. PICK code \in Codes :
            req' = [req EXCEPT ![p] = [pc |-> "insert", target |-> t, code |-> code, age |-> 0]]
    BY DEF SendFirst, Goto
  <1> DEFINE r == [pc |-> "insert", target |-> t, code |-> code, age |-> 0]
  <1>3. r \in Request /\ RequestWithin(r) /\ HasRow(r)
    BY <1>1, TimeoutsAssumption DEF Request, RequestWithin, HasRow, Ages
  <1>4. told' \in [Targets -> Seen \cup {Null}]
    BY <1>1, SeenType DEF LimitsInv, TypeOK, SendFirst, Generated, Tell
  <1> HIDE DEF r
  <1> QED
    BY <1>2, <1>3, <1>4, SlotStep DEF SendFirst, r

\* send with a row: refused, blocked or one more attempt.
LEMMA SendAgainPreserves ==
    ASSUME LimitsInv, NEW p \in Procs, SendAgain(p)
    PROVE  LimitsInv'
  <1> DEFINE t == req[p].target
             row == req[p].row
  <1>1. t \in Targets /\ row \in Row /\ WithinLimits(row) /\ Exists(t)
    BY DEF LimitsInv, TypeOK, SendAgain, Request, Idle, RequestWithin, HasRow
  <1>2. CASE Refused(row) /\ req' = [req EXCEPT ![p] = Idle] /\ UNCHANGED told
    BY <1>2, SlotStep, IdleIsWithin DEF SendAgain, LimitsInv, TypeOK
  <1>3. CASE req' = [req EXCEPT ![p] = [pc |-> "block", target |-> t]] /\ UNCHANGED told
    <2>1. /\ [pc |-> "block", target |-> t] \in Request
          /\ RequestWithin([pc |-> "block", target |-> t])
          /\ HasRow([pc |-> "block", target |-> t])
      BY <1>1 DEF Request, RequestWithin, HasRow
    <2> QED
      BY <1>3, <2>1, SlotStep DEF SendAgain, LimitsInv, TypeOK
  <1>4. ASSUME NEW code \in Codes, Attempts(row) # MaxAttempt,
               req' = [req EXCEPT ![p] = [pc |-> "resend", target |-> t, code |-> code, age |-> 0,
                                          attempt |-> Attempts(row) + 1]],
               Generated(t, IsBlockTimeout(row.age))
        PROVE  LimitsInv'
    <2> DEFINE r == [pc |-> "resend", target |-> t, code |-> code, age |-> 0,
                     attempt |-> Attempts(row) + 1]
    <2>1. Attempts(row) + 1 \in 1..MaxAttempt
      BY <1>1, <1>4, LimitsAssumption DEF Attempts, WithinLimits
    <2>2. r \in Request /\ RequestWithin(r) /\ HasRow(r)
      BY <1>1, <2>1, TimeoutsAssumption, LimitsAssumption
      DEF Request, RequestWithin, HasRow, Ages
    <2>3. IsBlockTimeout(row.age) \in BOOLEAN
      BY DEF IsBlockTimeout
    <2>4. told' \in [Targets -> Seen \cup {Null}]
      BY <1>1, <1>4, <2>3, SeenType DEF LimitsInv, TypeOK, Generated, Tell
    <2> HIDE DEF r
    <2> QED
      BY <1>4, <2>2, <2>4, SlotStep DEF SendAgain, r
  <1> QED
    BY <1>2, <1>3, <1>4 DEF SendAgain, Goto

\* The insert of a first row.
LEMMA InsertPreserves ==
    ASSUME LimitsInv, NEW p \in Procs, Insert(p)
    PROVE  LimitsInv'
  <1> DEFINE r == req[p]
             row == [code |-> r.code, age |-> r.age, attempt |-> 1, retries |-> 0,
                     blocked |-> FALSE, verified |-> FALSE]
  <1>1. r.target \in Targets /\ r.code \in Codes /\ r.age \in Ages
    BY DEF LimitsInv, TypeOK, Insert, Request, Idle
  <1>2. CASE req' = [req EXCEPT ![p] = Idle] /\ UNCHANGED otp
    BY <1>2, SlotStep, IdleIsWithin DEF Insert, LimitsInv, TypeOK
  <1>3. CASE req' = [req EXCEPT ![p] = Delivery(r)] /\ otp' = [otp EXCEPT ![r.target] = row]
    <2>1. Delivery(r) \in Request /\ RequestWithin(Delivery(r)) /\ HasRow(Delivery(r))
      BY <1>1 DEF Delivery, Request, RequestWithin, HasRow
    <2>2. row \in Row /\ WithinLimits(row)
      BY <1>1, LimitsAssumption DEF Row, WithinLimits
    <2> HIDE DEF row
    <2> QED
      BY <1>1, <1>3, <2>1, <2>2, RowWritten DEF Insert
  <1> QED
    BY <1>2, <1>3 DEF Insert, Goto

\* send's last attempt blocks the target.
LEMMA BlockPreserves ==
    ASSUME LimitsInv, NEW p \in Procs, Block(p)
    PROVE  LimitsInv'
  <1> DEFINE t == req[p].target
             row == [otp[t] EXCEPT !.blocked = TRUE]
  <1>1. t \in Targets /\ Exists(t)
    BY DEF LimitsInv, TypeOK, Block, Request, Idle, HasRow
  <1>2. row \in Row /\ WithinLimits(row)
    BY <1>1, TableRow DEF Row, WithinLimits
  <1>3. otp' = [otp EXCEPT ![t] = row]
    BY <1>1 DEF Block
  <1> HIDE DEF row
  <1> QED
    BY <1>1, <1>2, <1>3, RowWritten, IdleIsWithin DEF Block, Goto

\* The row of a new code.
LEMMA ResendPreserves ==
    ASSUME LimitsInv, NEW p \in Procs, Resend(p)
    PROVE  LimitsInv'
  <1> DEFINE r == req[p]
             row == [code |-> r.code, age |-> r.age, attempt |-> r.attempt, retries |-> 0,
                     blocked |-> FALSE, verified |-> FALSE]
  <1>1. /\ r.target \in Targets /\ r.code \in Codes /\ r.age \in Ages
        /\ r.attempt \in 1..MaxAttempt
    BY DEF LimitsInv, TypeOK, Resend, Request, Idle, RequestWithin
  <1>2. Delivery(r) \in Request /\ RequestWithin(Delivery(r)) /\ HasRow(Delivery(r))
    BY <1>1 DEF Delivery, Request, RequestWithin, HasRow
  <1>3. row \in Row /\ WithinLimits(row)
    BY <1>1, LimitsAssumption DEF Row, WithinLimits
  <1>4. otp' = [otp EXCEPT ![r.target] = row] /\ UNCHANGED told
    BY DEF Resend
  <1> HIDE DEF row
  <1> QED
    BY <1>1, <1>2, <1>3, <1>4, RowWritten DEF Resend, Goto

\* The code leaves for its target.
LEMMA DeliverPreserves ==
    ASSUME LimitsInv, NEW p \in Procs, Deliver(p)
    PROVE  LimitsInv'
  <1>1. req[p].target \in Targets /\ req[p].code \in Codes
    BY DEF LimitsInv, TypeOK, Deliver, Request, Idle
  <1>2. told' \in [Targets -> Seen \cup {Null}]
    BY <1>1, SeenType DEF LimitsInv, TypeOK, Deliver, Tell
  <1> QED
    BY <1>2, SlotStep, IdleIsWithin DEF Deliver, Goto

-----------------------------------------------------------------------------

\* verify reads the row.
LEMMA VerifyFindPreserves ==
    ASSUME LimitsInv, NEW p \in Procs, NEW t \in Targets, NEW code \in Codes,
           VerifyFind(p, t, code)
    PROVE  LimitsInv'
  <1> DEFINE r == [pc |-> "verifyFound", target |-> t, row |-> otp[t], code |-> code]
  <1>1. otp[t] \in Row /\ WithinLimits(otp[t]) /\ Exists(t)
    BY TableRow DEF VerifyFind
  <1>2. r \in Request /\ RequestWithin(r) /\ HasRow(r)
    BY <1>1 DEF Request, RequestWithin, HasRow
  <1>3. told' \in [Targets -> Seen \cup {Null}]
    BY DEF LimitsInv, TypeOK, VerifyFind, Begin
  <1>4. req' = [req EXCEPT ![p] = r] /\ UNCHANGED otp
    BY DEF VerifyFind, Begin
  <1> HIDE DEF r
  <1> QED
    BY <1>2, <1>3, <1>4, SlotStep

\* verify compares: only a copy that is not blocked gets here, so its retries
\* are below the limit.
LEMMA VerifyDecidePreserves ==
    ASSUME LimitsInv, NEW p \in Procs, VerifyDecide(p)
    PROVE  LimitsInv'
  <1> DEFINE t == req[p].target
             row == req[p].row
  <1>1. t \in Targets /\ row \in Row /\ WithinLimits(row) /\ Exists(t)
    BY DEF LimitsInv, TypeOK, VerifyDecide, Request, Idle, RequestWithin, HasRow
  <1>2. CASE req' = [req EXCEPT ![p] = Idle] /\ UNCHANGED told
    BY <1>2, SlotStep, IdleIsWithin DEF VerifyDecide, LimitsInv, TypeOK
  <1>3. ASSUME ~row.blocked,
               req' = [req EXCEPT ![p] = [pc |-> "wrong", target |-> t,
                                          retries |-> row.retries + 1]],
               Tell(t, LAMBDA seen : [seen EXCEPT !.wrong = AtMost(@ + 1, MaxRetries + 1)])
        PROVE  LimitsInv'
    <2> DEFINE r == [pc |-> "wrong", target |-> t, retries |-> row.retries + 1]
    <2>1. row.retries + 1 \in 1..MaxRetries
      BY <1>1, <1>3, LimitsAssumption DEF WithinLimits
    <2>2. r \in Request /\ RequestWithin(r) /\ HasRow(r)
      BY <1>1, <2>1 DEF Request, RequestWithin, HasRow
    <2>3. told' \in [Targets -> Seen \cup {Null}]
      BY <1>1, <1>3, SeenType DEF LimitsInv, TypeOK, Tell
    <2> HIDE DEF r
    <2> QED
      BY <1>3, <2>2, <2>3, SlotStep DEF VerifyDecide, r
  <1>4. ASSUME req' = [req EXCEPT ![p] = [pc |-> "right", target |-> t]],
               Tell(t, LAMBDA seen : [seen EXCEPT !.right = TRUE])
        PROVE  LimitsInv'
    <2> DEFINE r == [pc |-> "right", target |-> t]
    <2>1. r \in Request /\ RequestWithin(r) /\ HasRow(r)
      BY <1>1 DEF Request, RequestWithin, HasRow
    <2>2. told' \in [Targets -> Seen \cup {Null}]
      BY <1>1, <1>4, SeenType DEF LimitsInv, TypeOK, Tell
    <2> HIDE DEF r
    <2> QED
      BY <1>4, <2>1, <2>2, SlotStep DEF VerifyDecide, r
  <1> QED
    BY <1>2, <1>3, <1>4 DEF VerifyDecide, Goto

\* A row whose retries grew is within the limits if the last one blocks.
LEMMA AnswerCounted ==
    ASSUME NEW row \in Row, WithinLimits(row), NEW n \in 1..MaxRetries,
           NEW blocked \in BOOLEAN, n = MaxRetries => blocked
    PROVE  /\ [row EXCEPT !.retries = n, !.blocked = blocked] \in Row
           /\ WithinLimits([row EXCEPT !.retries = n, !.blocked = blocked])
  <1> DEFINE counted == [row EXCEPT !.retries = n, !.blocked = blocked]
  <1>1. counted \in Row
    <2>1. n \in Nat
      BY LimitsAssumption
    <2>2. [row EXCEPT !.retries = n] \in Row
      BY <2>1 DEF Row
    <2> QED
      BY <2>2 DEF Row
  <1>2. counted.attempt = row.attempt /\ counted.retries = n /\ counted.blocked = blocked
    BY DEF Row
  <1> HIDE DEF counted
  <1>3. WithinLimits(counted)
    BY <1>2, LimitsAssumption DEF WithinLimits
  <1> QED
    BY <1>1, <1>3 DEF counted

\* A wrong answer is written: the last one blocks.
LEMMA WrongPreserves ==
    ASSUME LimitsInv, NEW p \in Procs, Wrong(p)
    PROVE  LimitsInv'
  <1> DEFINE t == req[p].target
             row == [otp[t] EXCEPT !.retries = req[p].retries,
                                   !.blocked = MaxRetries - req[p].retries = 0]
  <1>1. t \in Targets /\ Exists(t) /\ req[p].retries \in 1..MaxRetries
    BY DEF LimitsInv, TypeOK, Wrong, Request, Idle, HasRow, RequestWithin
  <1>2. row \in Row /\ WithinLimits(row)
    <2> DEFINE last == MaxRetries - req[p].retries = 0
    <2>1. otp[t] \in Row /\ WithinLimits(otp[t])
      BY <1>1, TableRow
    <2>2. last \in BOOLEAN /\ (req[p].retries = MaxRetries => last)
      BY <1>1, LimitsAssumption
    <2> HIDE DEF last
    <2>3. /\ [otp[t] EXCEPT !.retries = req[p].retries, !.blocked = last] \in Row
          /\ WithinLimits([otp[t] EXCEPT !.retries = req[p].retries, !.blocked = last])
      BY <1>1, <2>1, <2>2, AnswerCounted
    <2> QED
      BY <2>3 DEF last
  <1>3. otp' = [otp EXCEPT ![t] = row]
    BY <1>1 DEF Wrong
  <1> HIDE DEF row
  <1> QED
    BY <1>1, <1>2, <1>3, RowWritten, IdleIsWithin DEF Wrong, Goto

\* A right answer is written.
LEMMA RightPreserves ==
    ASSUME LimitsInv, NEW p \in Procs, Right(p)
    PROVE  LimitsInv'
  <1> DEFINE t == req[p].target
             row == [otp[t] EXCEPT !.verified = TRUE]
  <1>1. t \in Targets /\ Exists(t)
    BY DEF LimitsInv, TypeOK, Right, Request, Idle, HasRow
  <1>2. row \in Row /\ WithinLimits(row)
    BY <1>1, TableRow DEF Row, WithinLimits
  <1>3. otp' = [otp EXCEPT ![t] = row]
    BY <1>1 DEF Right
  <1> HIDE DEF row
  <1> QED
    BY <1>1, <1>2, <1>3, RowWritten, IdleIsWithin DEF Right, Goto

-----------------------------------------------------------------------------

\* Time passes: rows and requests grow older and stay what they are.
LEMMA TickPreserves ==
    ASSUME LimitsInv, Tick
    PROVE  LimitsInv'
  <1>1. ASSUME NEW t \in Targets
        PROVE  /\ otp'[t] \in Row \cup {Null}
               /\ Exists(t) <=> Exists(t)'
               /\ otp'[t] # Null => WithinLimits(otp'[t])
    <2>1. otp'[t] = OlderRow(otp[t]) /\ otp[t] \in Row \cup {Null}
      BY DEF Tick, LimitsInv, TypeOK
    <2>2. CASE otp[t] = Null
      BY <2>1, <2>2 DEF OlderRow, Exists
    <2>3. CASE otp[t] # Null
      <3>1. otp[t] \in Row /\ WithinLimits(otp[t])
        BY <2>3, TableRow DEF Exists
      <3>2. otp'[t] \in Row /\ otp'[t] = [otp[t] EXCEPT !.age = Older(otp[t].age)]
        BY <2>1, <3>1, OlderRowType
      <3>3. otp'[t] # Null
        BY <3>2, NullAssumption
      <3> QED
        BY <2>3, <3>1, <3>2, <3>3 DEF WithinLimits, Row, Exists
    <2> QED
      BY <2>2, <2>3
  <1>2. ASSUME NEW p \in Procs
        PROVE  req'[p] \in Request /\ RequestWithin(req'[p]) /\ HasRow(req'[p])
    <2> DEFINE r == req[p]
    <2>1. r \in Request /\ RequestWithin(r) /\ HasRow(r)
      BY DEF LimitsInv, TypeOK
    <2>2. CASE r.pc \in {"sendFound", "verifyFound"}
      <3>1. req'[p] = [r EXCEPT !.row = OlderRow(r.row)]
        BY <2>2 DEF Tick
      <3>2. CASE r.row = Null
        <4>1. r.pc = "sendFound"
          BY <2>1, <2>2, <3>2, NullAssumption DEF Request, Idle
        <4>2. req'[p] = r
          BY <2>1, <3>1, <3>2, <4>1 DEF OlderRow, Request, Idle
        <4> QED
          BY <2>1, <4>2
      <3>3. CASE r.row # Null
        <4>1. r.row \in Row /\ WithinLimits(r.row)
          BY <2>1, <2>2, <3>3 DEF Request, Idle, RequestWithin
        <4>2. /\ OlderRow(r.row) \in Row
              /\ OlderRow(r.row) = [r.row EXCEPT !.age = Older(r.row.age)]
          BY <4>1, OlderRowType
        <4>3. WithinLimits(OlderRow(r.row))
          BY <4>1, <4>2 DEF WithinLimits, Row
        <4>4. req'[p] \in Request
          BY <2>1, <2>2, <3>1, <4>2 DEF Request, Idle
        <4>5. req'[p].pc = r.pc /\ req'[p].target = r.target /\ req'[p].row = OlderRow(r.row)
          BY <2>1, <2>2, <3>1 DEF Request, Idle
        <4> QED
          BY <2>1, <2>2, <3>3, <4>3, <4>4, <4>5 DEF RequestWithin, HasRow
      <3> QED
        BY <3>2, <3>3
    <2>3. CASE r.pc \in {"insert", "resend"}
      <3>1. req'[p] = [r EXCEPT !.age = Older(r.age)]
        BY <2>3 DEF Tick
      <3>2. Older(r.age) \in Ages
        BY <2>1, <2>3, OlderType DEF Request, Idle
      <3>3. req'[p] \in Request
        BY <2>1, <2>3, <3>1, <3>2 DEF Request, Idle
      <3>4. CASE r.pc = "insert"
        <4>1. req'[p].pc = "insert"
          BY <2>1, <3>1, <3>4 DEF Request, Idle
        <4> QED
          BY <3>3, <4>1 DEF RequestWithin, HasRow
      <3>5. CASE r.pc = "resend"
        <4>1. /\ req'[p].pc = "resend" /\ req'[p].target = r.target
              /\ req'[p].attempt = r.attempt
          BY <2>1, <3>1, <3>5 DEF Request, Idle
        <4> QED
          BY <2>1, <3>3, <3>5, <4>1 DEF RequestWithin, HasRow
      <3> QED
        BY <2>3, <3>4, <3>5
    <2>4. CASE r.pc \notin {"sendFound", "verifyFound", "insert", "resend"}
      <3>1. req'[p] = r
        BY <2>4 DEF Tick
      <3> QED
        BY <2>1, <3>1
    <2> QED
      BY <2>2, <2>3, <2>4
  <1>3. TypeOK'
    BY <1>1, <1>2 DEF TypeOK, Tick, LimitsInv
  <1>4. LimitsHold'
    BY <1>1 DEF LimitsHold, Exists, WithinLimits
  <1>5. ASSUME NEW p \in Procs PROVE HasRow(req[p])'
    <2>1. req'[p] = Idle \/ req'[p].target \in Targets
      BY <1>2 DEF Request
    <2> QED
      BY <1>1, <1>2, <2>1 DEF HasRow, Idle
  <1> QED
    BY <1>2, <1>3, <1>4, <1>5 DEF LimitsInv, RequestWithin, WithinLimits

\* A request is lost.
LEMMA CrashPreserves ==
    ASSUME LimitsInv, NEW p \in Procs, Crash(p)
    PROVE  LimitsInv'
  <1>1. told' \in [Targets -> Seen \cup {Null}]
    BY DEF LimitsInv, TypeOK, Crash
  <1> QED
    BY <1>1, SlotStep, IdleIsWithin DEF Crash

-----------------------------------------------------------------------------

\* The limits survive every step.
LEMMA LimitsStep ==
    ASSUME LimitsInv, [Next]_vars
    PROVE  LimitsInv'
  <1>1. ASSUME NEW p \in Procs, NEW t \in Targets, SendFind(p, t) PROVE LimitsInv'
    BY <1>1, SendFindPreserves
  <1>2. ASSUME NEW p \in Procs, NEW t \in Targets, NEW code \in Codes, VerifyFind(p, t, code)
        PROVE  LimitsInv'
    BY <1>2, VerifyFindPreserves
  <1>3. ASSUME NEW p \in Procs, Step(p) PROVE LimitsInv'
    BY <1>3, SendFirstPreserves, SendAgainPreserves, InsertPreserves, BlockPreserves,
       ResendPreserves, DeliverPreserves, VerifyDecidePreserves, WrongPreserves,
       RightPreserves DEF Step
  <1>4. ASSUME NEW p \in Procs, Crash(p) PROVE LimitsInv'
    BY <1>4, CrashPreserves
  <1>5. CASE Tick
    BY <1>5, TickPreserves
  <1>6. CASE UNCHANGED vars
    BY <1>6 DEF vars, LimitsInv, TypeOK, LimitsHold, Exists, RequestWithin, HasRow,
                WithinLimits
  <1> QED
    BY <1>1, <1>2, <1>3, <1>4, <1>5, <1>6 DEF Next, AskForCode

\* At first there are no rows and no requests.
LEMMA LimitsInit == Init => LimitsInv
  <1> SUFFICES ASSUME Init PROVE LimitsInv
    OBVIOUS
  <1>1. TypeOK
    BY LimitsAssumption, IdleIsWithin DEF Init, TypeOK, Seen, Unseen
  <1>2. LimitsHold
    BY DEF Init, LimitsHold, Exists
  <1>3. \A p \in Procs : RequestWithin(req[p]) /\ HasRow(req[p])
    BY IdleIsWithin DEF Init
  <1> QED
    BY <1>1, <1>2, <1>3 DEF LimitsInv

\* LimitsInv is an invariant: requests interleaved in any way, however old
\* what they write, keep the table and each other within the limits.
THEOREM LimitsInvariant == Spec => []LimitsInv
  BY LimitsInit, LimitsStep, PTL DEF Spec

\* The table, the requests in flight and the history keep their types.
THEOREM TypeCorrect == Spec => []TypeOK
  BY LimitsInvariant, PTL DEF LimitsInv

\* No counter passes its limit and used-up retries block, although both are
\* read, increased and written back at different moments by any number of
\* requests.
THEOREM LimitsAreKept == Spec => []LimitsHold
  BY LimitsInvariant, PTL DEF LimitsInv

-----------------------------------------------------------------------------
(* Targets whose requests run one at a time *)

\* A request of a calm target is alone with it and knows the row.
LEMMA Alone ==
    ASSUME LimitsInv, CalmInv, NEW p \in Procs, req[p] # Idle, told[req[p].target] # Null
    PROVE  /\ \A q \in Procs \ {p} : ~Busy(q, req[p].target)
           /\ Knows(req[p], otp[req[p].target], told[req[p].target])
  <1>1. req[p].target \in Targets /\ Busy(p, req[p].target)
    BY DEF LimitsInv, TypeOK, Request, Busy
  <1> QED
    BY <1>1 DEF CalmInv

\* A step of one slot about one target: other targets do not notice it.
LEMMA OneTarget ==
    ASSUME LimitsInv, CalmInv, NEW p \in Procs, NEW t \in Targets, NEW r,
           r = Idle \/ r.target = t,
           req[p] = Idle \/ req[p].target = t,
           req' = [req EXCEPT ![p] = r],
           \A u \in Targets \ {t} : told'[u] = told[u] /\ otp'[u] = otp[u],
           told'[t] # Null => /\ \A q \in Procs \ {p} : ~Busy(q, t)
                              /\ Knows(r, otp'[t], told'[t])
    PROVE  CalmInv'
  <1>1. req'[p] = r /\ \A q \in Procs \ {p} : req'[q] = req[q]
    BY DEF LimitsInv, TypeOK
  <1> SUFFICES ASSUME NEW u \in Targets, told'[u] # Null
               PROVE  /\ \A q1, q2 \in Procs : Busy(q1, u)' /\ Busy(q2, u)' => q1 = q2
                      /\ Quiet(u)' => told'[u] = Shown(otp'[u])
                      /\ \A q \in Procs : Busy(q, u)' => Knows(req'[q], otp'[u], told'[u])
    BY DEF CalmInv, Knows, Shown, Quiet, Busy, Refused, IsBlockTimeout, IsTimeout
  <1>2. CASE u = t
    <2>1. \A q \in Procs \ {p} : ~Busy(q, t)'
      BY <1>1, <1>2 DEF Busy
    <2>2. Quiet(t)' => r = Idle
      BY <1>1 DEF Quiet, Busy
    <2>3. r = Idle => told'[t] = Shown(otp'[t])
      BY <1>2 DEF Knows, Idle
    <2> QED
      BY <1>1, <1>2, <2>1, <2>2, <2>3
  <1>3. CASE u # t
    <2>1. \A q \in Procs : Busy(q, u)' <=> Busy(q, u)
      BY <1>1, <1>3 DEF Busy
    <2>2. \A q \in Procs : Busy(q, u) => req'[q] = req[q]
      BY <1>1, <1>3 DEF Busy
    <2>3. told[u] = told'[u] /\ otp[u] = otp'[u]
      BY <1>3
    <2>4. Quiet(u)' => Quiet(u)
      BY <2>1 DEF Quiet
    <2> QED
      BY <2>1, <2>2, <2>3, <2>4 DEF CalmInv
  <1> QED
    BY <1>2, <1>3

\* A request starts on a calm target: no other is there, so what it reads is
\* the truth.
LEMMA BeginCalm ==
    ASSUME LimitsInv, CalmInv, NEW p \in Procs, NEW t \in Targets, NEW r, Begin(p, r),
           r.target = t, r # Idle, r.pc \in {"sendFound", "verifyFound"}, r.row = otp[t],
           UNCHANGED otp
    PROVE  CalmInv'
  <1>1. \A u \in Targets \ {t} : told'[u] = told[u]
    BY DEF Begin, LimitsInv, TypeOK
  <1>2. ASSUME told'[t] # Null
        PROVE  (\A q \in Procs \ {p} : ~Busy(q, t)) /\ Knows(r, otp'[t], told'[t])
    <2>1. Quiet(t) /\ told' = told
      BY <1>2 DEF Begin, LimitsInv, TypeOK
    <2>2. told[t] = Shown(otp[t])
      BY <1>2, <2>1 DEF CalmInv
    <2> QED
      BY <2>1, <2>2 DEF Knows, Quiet
  <1> QED
    BY <1>1, <1>2, OneTarget DEF Begin

\* A request under way goes on: what it knows next is all there is to show.
LEMMA GotoCalm ==
    ASSUME LimitsInv, CalmInv, NEW p \in Procs, req[p] # Idle, NEW r,
           r = Idle \/ r.target = req[p].target, Goto(p, r),
           \A u \in Targets \ {req[p].target} : told'[u] = told[u] /\ otp'[u] = otp[u],
           told'[req[p].target] # Null => told[req[p].target] # Null,
           /\ told'[req[p].target] # Null
           /\ Knows(req[p], otp[req[p].target], told[req[p].target])
           => Knows(r, otp'[req[p].target], told'[req[p].target])
    PROVE  CalmInv'
  <1>1. req[p].target \in Targets
    BY DEF LimitsInv, TypeOK, Request
  <1>2. told'[req[p].target] # Null
        => /\ \A q \in Procs \ {p} : ~Busy(q, req[p].target)
           /\ Knows(r, otp'[req[p].target], told'[req[p].target])
    BY Alone
  <1> QED
    BY <1>1, <1>2, OneTarget DEF Goto

-----------------------------------------------------------------------------

\* What a generated code makes of what the owner has seen, field by field.
LEMMA SeenGenerated ==
    ASSUME NEW seen \in Seen, NEW n
    PROVE  [seen EXCEPT !.codes = n, !.wrong = 0, !.right = FALSE]
           = [code |-> seen.code, codes |-> n, wrong |-> 0, right |-> FALSE]
  <1>1. [seen EXCEPT !.codes = n, !.wrong = 0, !.right = FALSE]
        = [[[seen EXCEPT !.codes = n] EXCEPT !.wrong = 0] EXCEPT !.right = FALSE]
    OBVIOUS
  <1>2. PICK code, codes, wrong, right :
            /\ seen = [code |-> code, codes |-> codes, wrong |-> wrong, right |-> right]
            /\ code = seen.code
    BY DEF Seen
  <1>3. PICK a : a = [seen EXCEPT !.codes = n]
    OBVIOUS
  <1>4. a = [code |-> code, codes |-> n, wrong |-> wrong, right |-> right]
    BY <1>2, <1>3
  <1>5. PICK b : b = [a EXCEPT !.wrong = 0]
    OBVIOUS
  <1>6. b = [code |-> code, codes |-> n, wrong |-> 0, right |-> right]
    BY <1>4, <1>5
  <1>7. PICK no : no = FALSE
    OBVIOUS
  <1>8. [b EXCEPT !.right = no] = [code |-> code, codes |-> n, wrong |-> 0, right |-> no]
    BY <1>6
  <1>9. [b EXCEPT !.right = FALSE] = [code |-> code, codes |-> n, wrong |-> 0, right |-> FALSE]
    BY <1>7, <1>8, Zenon
  <1> QED
    BY <1>1, <1>2, <1>3, <1>5, <1>9, Zenon

\* send without a row: the first code is one more than the owner has seen.
LEMMA SendFirstCalm ==
    ASSUME LimitsInv, CalmInv, NEW p \in Procs, SendFirst(p)
    PROVE  CalmInv'
  <1> DEFINE t == req[p].target
  <1>1. t \in Targets /\ req[p] # Idle
    BY DEF LimitsInv, TypeOK, SendFirst, Request, Idle
  <1>2. PICK code \in Codes :
            Goto(p, [pc |-> "insert", target |-> t, code |-> code, age |-> 0])
    BY DEF SendFirst
  <1> DEFINE r == [pc |-> "insert", target |-> t, code |-> code, age |-> 0]
  <1>3. \A u \in Targets \ {t} : told'[u] = told[u] /\ otp'[u] = otp[u]
    BY DEF SendFirst, Generated, Tell, LimitsInv, TypeOK
  <1>4. told'[t] # Null => told[t] # Null
    BY <1>1 DEF SendFirst, Generated, Tell, LimitsInv, TypeOK
  <1>5. ASSUME told'[t] # Null, Knows(req[p], otp[t], told[t])
        PROVE  Knows(r, otp'[t], told'[t])
    <2>1. told[t] = Unseen /\ otp[t] = Null
      BY <1>5 DEF SendFirst, Knows, Shown
    <2>2. told'[t] = [told[t] EXCEPT
                         !.codes = IF told[t].right THEN 1 ELSE AtMost(told[t].codes + 1, MaxAttempt + 1),
                         !.wrong = 0, !.right = FALSE]
      BY <1>1, <1>4, <1>5 DEF SendFirst, Generated, Tell, LimitsInv, TypeOK
    <2>3. AtMost(0 + 1, MaxAttempt + 1) = 1
      BY LimitsAssumption DEF AtMost
    <2>4. told'[t] = [code |-> Null, codes |-> 1, wrong |-> 0, right |-> FALSE]
      <3>1. told[t].right = FALSE /\ told[t].codes = 0 /\ told[t].code = Null
        BY <2>1 DEF Unseen
      <3>2. told'[t] = [told[t] EXCEPT !.codes = 1, !.wrong = 0, !.right = FALSE]
        BY <2>2, <2>3, <3>1
      <3>3. told[t] \in Seen
        BY <1>1, <1>4, <1>5 DEF LimitsInv, TypeOK
      <3>4. told'[t] = [code |-> told[t].code, codes |-> 1, wrong |-> 0, right |-> FALSE]
        BY <3>2, <3>3, SeenGenerated, Zenon
      <3> QED
        BY <3>1, <3>4, Zenon
    <2>5. otp'[t] = Null
      BY <2>1 DEF SendFirst
    <2> QED
      BY <2>4, <2>5 DEF Knows
  <1> HIDE DEF r
  <1>6. r.target = t
    BY DEF r
  <1> QED
    BY <1>1, <1>2, <1>3, <1>4, <1>5, <1>6, GotoCalm DEF r

\* What the row shows of the attempts is what send counts on from.
LEMMA AttemptsCounted ==
    ASSUME NEW row \in Row, WithinLimits(row), Attempts(row) # MaxAttempt,
           NEW seen \in Seen, seen = Shown(row)
    PROVE  [seen EXCEPT !.codes = IF IsBlockTimeout(row.age) \/ seen.right THEN 1
                                  ELSE AtMost(seen.codes + 1, MaxAttempt + 1),
                        !.wrong = 0, !.right = FALSE]
           = [code |-> seen.code, codes |-> Attempts(row) + 1, wrong |-> 0, right |-> FALSE]
  <1>1. row # Null
    BY NullAssumption
  <1>2. seen = [code |-> row.code, codes |-> row.attempt, wrong |-> row.retries,
                right |-> row.verified]
    BY <1>1 DEF Shown
  <1>3. (IF IsBlockTimeout(row.age) \/ seen.right THEN 1 ELSE AtMost(seen.codes + 1, MaxAttempt + 1))
        = Attempts(row) + 1
    <2>1. seen.right = row.verified /\ seen.codes = row.attempt
      BY <1>2
    <2>2. row.attempt \in 1..MaxAttempt /\ MaxAttempt \in Nat
      BY LimitsAssumption DEF WithinLimits
    <2>3. CASE IsBlockTimeout(row.age) \/ row.verified
      BY <2>1, <2>3 DEF Attempts
    <2>4. CASE ~(IsBlockTimeout(row.age) \/ row.verified)
      <3>1. Attempts(row) = row.attempt
        BY <2>4 DEF Attempts
      <3>2. AtMost(row.attempt + 1, MaxAttempt + 1) = row.attempt + 1
        BY <2>2 DEF AtMost
      <3> QED
        BY <2>1, <2>4, <3>1, <3>2
    <2> QED
      BY <2>3, <2>4
  <1> DEFINE n == IF IsBlockTimeout(row.age) \/ seen.right THEN 1
                  ELSE AtMost(seen.codes + 1, MaxAttempt + 1)
  <1>4. n = Attempts(row) + 1
    BY <1>3
  <1> HIDE DEF n
  <1>5. [seen EXCEPT !.codes = n, !.wrong = 0, !.right = FALSE]
        = [code |-> seen.code, codes |-> n, wrong |-> 0, right |-> FALSE]
    BY SeenGenerated, Zenon
  <1> QED
    BY <1>4, <1>5 DEF n

\* send with a row: a refusal and a block show nothing, a new code one more.
LEMMA SendAgainCalm ==
    ASSUME LimitsInv, CalmInv, NEW p \in Procs, SendAgain(p)
    PROVE  CalmInv'
  <1> DEFINE t == req[p].target
             row == req[p].row
  <1>1. t \in Targets /\ row \in Row /\ WithinLimits(row) /\ req[p] # Idle
    BY DEF LimitsInv, TypeOK, SendAgain, Request, Idle, RequestWithin
  <1>2. ASSUME Knows(req[p], otp[t], told[t])
        PROVE  row = otp[t] /\ told[t] = Shown(row)
    BY <1>2 DEF Knows, SendAgain
  <1>3. CASE Goto(p, Idle) /\ UNCHANGED told
    <2>1. Knows(req[p], otp[t], told[t]) => Knows(Idle, otp'[t], told'[t])
      BY <1>2, <1>3 DEF Knows, Idle, SendAgain
    <2> QED
      BY <1>1, <1>3, <2>1, GotoCalm DEF SendAgain
  <1>4. CASE Goto(p, [pc |-> "block", target |-> t]) /\ UNCHANGED told
    <2> DEFINE r == [pc |-> "block", target |-> t]
    <2>1. Knows(req[p], otp[t], told[t]) => Knows(r, otp'[t], told'[t])
      BY <1>2, <1>4 DEF Knows, SendAgain
    <2>2. r.target = t
      OBVIOUS
    <2> HIDE DEF r
    <2> QED
      BY <1>1, <1>4, <2>1, <2>2, GotoCalm DEF SendAgain, r
  <1>5. ASSUME NEW code \in Codes, ~Refused(row), Attempts(row) # MaxAttempt,
               Goto(p, [pc |-> "resend", target |-> t, code |-> code, age |-> 0,
                        attempt |-> Attempts(row) + 1]),
               Generated(t, IsBlockTimeout(row.age))
        PROVE  CalmInv'
    <2> DEFINE r == [pc |-> "resend", target |-> t, code |-> code, age |-> 0,
                     attempt |-> Attempts(row) + 1]
    <2>1. \A u \in Targets \ {t} : told'[u] = told[u] /\ otp'[u] = otp[u]
      BY <1>5 DEF SendAgain, Generated, Tell, LimitsInv, TypeOK
    <2>2. told'[t] # Null => told[t] # Null
      BY <1>1, <1>5 DEF Generated, Tell, LimitsInv, TypeOK
    <2>3. ASSUME told'[t] # Null, Knows(req[p], otp[t], told[t])
          PROVE  Knows(r, otp'[t], told'[t])
      <3>1. told'[t] = [told[t] EXCEPT
                           !.codes = IF IsBlockTimeout(row.age) \/ told[t].right THEN 1
                                     ELSE AtMost(told[t].codes + 1, MaxAttempt + 1),
                           !.wrong = 0, !.right = FALSE]
        BY <1>1, <1>5, <2>2, <2>3 DEF Generated, Tell, LimitsInv, TypeOK
      <3>2. told'[t] = [code |-> told[t].code, codes |-> Attempts(row) + 1, wrong |-> 0,
                        right |-> FALSE]
        <4>1. told[t] \in Seen
          BY <1>1, <2>2, <2>3 DEF LimitsInv, TypeOK
        <4> QED
          BY <1>1, <1>2, <1>5, <2>3, <3>1, <4>1, AttemptsCounted
      <3>3. otp'[t] = row /\ row # Null
        BY <1>2, <2>3 DEF SendAgain
      <3>4. told'[t] = [code |-> told'[t].code, codes |-> r.attempt, wrong |-> 0, right |-> FALSE]
        BY <3>2
      <3> QED
        BY <1>5, <3>3, <3>4 DEF Knows
    <2>4. r.target = t
      OBVIOUS
    <2> HIDE DEF r
    <2> QED
      BY <1>1, <1>5, <2>1, <2>2, <2>3, <2>4, GotoCalm DEF r
  <1> QED
    BY <1>3, <1>4, <1>5 DEF SendAgain

\* The first row of a calm target: no other request put one there.
LEMMA InsertCalm ==
    ASSUME LimitsInv, CalmInv, NEW p \in Procs, Insert(p)
    PROVE  CalmInv'
  <1> DEFINE t == req[p].target
             row == [code |-> req[p].code, age |-> req[p].age, attempt |-> 1, retries |-> 0,
                     blocked |-> FALSE, verified |-> FALSE]
  <1>1. /\ t \in Targets /\ req[p] # Idle /\ req[p].code \in Codes /\ req[p].age \in Ages
    BY DEF LimitsInv, TypeOK, Insert, Request, Idle
  <1>2. CASE Exists(t) /\ Goto(p, Idle) /\ UNCHANGED otp
    <2>1. ~Knows(req[p], otp[t], told[t])
      BY <1>2 DEF Knows, Insert, Exists
    <2> QED
      BY <1>1, <1>2, <2>1, GotoCalm DEF Insert
  <1>3. CASE otp' = [otp EXCEPT ![t] = row] /\ Goto(p, Delivery(req[p]))
    <2>1. otp'[t] = row /\ \A u \in Targets \ {t} : otp'[u] = otp[u]
      BY <1>1, <1>3 DEF LimitsInv, TypeOK
    <2>2. row # Null
      <3>1. row \in Row
        BY <1>1 DEF Row
      <3> QED
        BY <3>1, NullAssumption
    <2>3. Shown(row) = [code |-> req[p].code, codes |-> 1, wrong |-> 0, right |-> FALSE]
      BY <2>2 DEF Shown
    <2>4. ASSUME Knows(req[p], otp[t], told[t])
          PROVE  Knows(Delivery(req[p]), otp'[t], told'[t])
      <3>1. told'[t] = [code |-> Null, codes |-> 1, wrong |-> 0, right |-> FALSE]
        BY <2>4 DEF Knows, Insert
      <3>2. told'[t] = [code |-> told'[t].code, codes |-> row.attempt, wrong |-> row.retries,
                        right |-> row.verified]
        BY <3>1
      <3> HIDE DEF row
      <3> QED
        BY <2>1, <2>2, <3>2 DEF Knows, Delivery, row
    <2> QED
      BY <1>1, <1>3, <2>1, <2>4, GotoCalm DEF Insert, Delivery
  <1> QED
    BY <1>2, <1>3 DEF Insert

\* A block shows nothing.
LEMMA BlockCalm ==
    ASSUME LimitsInv, CalmInv, NEW p \in Procs, Block(p)
    PROVE  CalmInv'
  <1> DEFINE t == req[p].target
             row == [otp[t] EXCEPT !.blocked = TRUE]
  <1>1. t \in Targets /\ req[p] # Idle /\ Exists(t)
    BY DEF LimitsInv, TypeOK, Block, Request, Idle, HasRow
  <1>2. otp'[t] = row /\ \A u \in Targets \ {t} : otp'[u] = otp[u]
    BY <1>1 DEF Block, LimitsInv, TypeOK
  <1>3. Shown(row) = Shown(otp[t])
    <2>1. otp[t] \in Row /\ otp[t] # Null
      BY <1>1, TableRow DEF Exists
    <2>2. row \in Row
      BY <2>1 DEF Row
    <2>3. row # Null
      BY <2>2, NullAssumption
    <2>4. /\ row.code = otp[t].code /\ row.attempt = otp[t].attempt
          /\ row.retries = otp[t].retries /\ row.verified = otp[t].verified
      BY <2>1 DEF Row
    <2> HIDE DEF row
    <2> QED
      BY <2>1, <2>3, <2>4 DEF Shown
  <1>4. Knows(req[p], otp[t], told[t]) => Knows(Idle, otp'[t], told'[t])
    BY <1>2, <1>3 DEF Knows, Idle, Block
  <1> QED
    BY <1>1, <1>2, <1>4, GotoCalm DEF Block

\* The row catches up with the code that was generated.
LEMMA ResendCalm ==
    ASSUME LimitsInv, CalmInv, NEW p \in Procs, Resend(p)
    PROVE  CalmInv'
  <1> DEFINE t == req[p].target
             row == [code |-> req[p].code, age |-> req[p].age, attempt |-> req[p].attempt,
                     retries |-> 0, blocked |-> FALSE, verified |-> FALSE]
  <1>1. /\ t \in Targets /\ req[p] # Idle /\ req[p].code \in Codes /\ req[p].age \in Ages
        /\ req[p].attempt \in Nat
    BY DEF LimitsInv, TypeOK, Resend, Request, Idle
  <1>2. otp'[t] = row /\ \A u \in Targets \ {t} : otp'[u] = otp[u]
    BY <1>1 DEF Resend, LimitsInv, TypeOK
  <1>3. row # Null
    <2>1. row \in Row
      BY <1>1 DEF Row
    <2> QED
      BY <2>1, NullAssumption
  <1>4. Shown(row) = [code |-> req[p].code, codes |-> req[p].attempt, wrong |-> 0,
                      right |-> FALSE]
    BY <1>3 DEF Shown
  <1>5. ASSUME Knows(req[p], otp[t], told[t])
        PROVE  Knows(Delivery(req[p]), otp'[t], told'[t])
    <2>1. told'[t] = [code |-> told'[t].code, codes |-> req[p].attempt, wrong |-> 0,
                      right |-> FALSE]
      BY <1>5 DEF Knows, Resend
    <2>2. told'[t] = [code |-> told'[t].code, codes |-> row.attempt, wrong |-> row.retries,
                      right |-> row.verified]
      BY <2>1
    <2> HIDE DEF row
    <2> QED
      BY <1>2, <1>3, <2>2 DEF Knows, Delivery, row
  <1>6. Goto(p, Delivery(req[p])) /\ told' = told
    BY DEF Resend
  <1> QED
    BY <1>1, <1>2, <1>5, <1>6, GotoCalm DEF Delivery

\* The owner sees the code of the row.
LEMMA DeliverCalm ==
    ASSUME LimitsInv, CalmInv, NEW p \in Procs, Deliver(p)
    PROVE  CalmInv'
  <1> DEFINE t == req[p].target
  <1>1. t \in Targets /\ req[p] # Idle
    BY DEF LimitsInv, TypeOK, Deliver, Request, Idle
  <1>2. \A u \in Targets \ {t} : told'[u] = told[u] /\ otp'[u] = otp[u]
    BY DEF Deliver, Tell, LimitsInv, TypeOK
  <1>3. told'[t] # Null => told[t] # Null
    BY <1>1 DEF Deliver, Tell, LimitsInv, TypeOK
  <1>4. ASSUME told'[t] # Null, Knows(req[p], otp[t], told[t])
        PROVE  Knows(Idle, otp'[t], told'[t])
    <2>1. told'[t] = [told[t] EXCEPT !.code = req[p].code]
      BY <1>1, <1>3, <1>4 DEF Deliver, Tell, LimitsInv, TypeOK
    <2>2. /\ otp[t] # Null /\ otp[t].code = req[p].code
          /\ told[t] = [code |-> told[t].code, codes |-> otp[t].attempt,
                        wrong |-> otp[t].retries, right |-> otp[t].verified]
      BY <1>4 DEF Knows, Deliver
    <2>3. Shown(otp[t]) = [code |-> req[p].code, codes |-> otp[t].attempt,
                           wrong |-> otp[t].retries, right |-> otp[t].verified]
      BY <2>2 DEF Shown
    <2>4. told'[t] = Shown(otp[t])
      BY <2>1, <2>2, <2>3
    <2> QED
      BY <2>4 DEF Knows, Idle, Deliver
  <1> QED
    BY <1>1, <1>2, <1>3, <1>4, GotoCalm DEF Deliver

-----------------------------------------------------------------------------

\* verify compares with the row as it is: one more answer, right or wrong.
LEMMA VerifyDecideCalm ==
    ASSUME LimitsInv, CalmInv, NEW p \in Procs, VerifyDecide(p)
    PROVE  CalmInv'
  <1> DEFINE t == req[p].target
             row == req[p].row
  <1>1. t \in Targets /\ row \in Row /\ WithinLimits(row) /\ req[p] # Idle
    BY DEF LimitsInv, TypeOK, VerifyDecide, Request, Idle, RequestWithin
  <1>2. ASSUME Knows(req[p], otp[t], told[t])
        PROVE  row = otp[t] /\ told[t] = Shown(row)
    BY <1>2 DEF Knows, VerifyDecide
  <1>3. Shown(row) = [code |-> row.code, codes |-> row.attempt, wrong |-> row.retries,
                      right |-> row.verified]
    BY <1>1, NullAssumption DEF Shown
  <1>4. CASE Goto(p, Idle) /\ UNCHANGED told
    <2>1. Knows(req[p], otp[t], told[t]) => Knows(Idle, otp'[t], told'[t])
      BY <1>2, <1>4 DEF Knows, Idle, VerifyDecide
    <2> QED
      BY <1>1, <1>4, <2>1, GotoCalm DEF VerifyDecide
  <1>5. ASSUME ~row.blocked,
               Goto(p, [pc |-> "wrong", target |-> t, retries |-> row.retries + 1]),
               Tell(t, LAMBDA seen : [seen EXCEPT !.wrong = AtMost(@ + 1, MaxRetries + 1)])
        PROVE  CalmInv'
    <2> DEFINE r == [pc |-> "wrong", target |-> t, retries |-> row.retries + 1]
    <2>1. \A u \in Targets \ {t} : told'[u] = told[u] /\ otp'[u] = otp[u]
      BY <1>5 DEF VerifyDecide, Tell, LimitsInv, TypeOK
    <2>2. told'[t] # Null => told[t] # Null
      BY <1>1, <1>5 DEF Tell, LimitsInv, TypeOK
    <2>3. ASSUME told'[t] # Null, Knows(req[p], otp[t], told[t])
          PROVE  Knows(r, otp'[t], told'[t])
      <3>1. told'[t] = [told[t] EXCEPT !.wrong = AtMost(told[t].wrong + 1, MaxRetries + 1)]
        BY <1>1, <1>5, <2>2, <2>3 DEF Tell, LimitsInv, TypeOK
      <3>2. told[t].wrong = row.retries
        BY <1>2, <1>3, <2>3
      <3>3. AtMost(row.retries + 1, MaxRetries + 1) = row.retries + 1
        BY <1>1, LimitsAssumption DEF AtMost, WithinLimits
      <3>4. told'[t] = [Shown(row) EXCEPT !.wrong = row.retries + 1]
        BY <1>2, <2>3, <3>1, <3>2, <3>3
      <3>5. otp'[t] = row /\ row # Null
        BY <1>1, <1>2, <2>3, NullAssumption DEF VerifyDecide
      <3>6. r.pc = "wrong" /\ r.retries = row.retries + 1
        OBVIOUS
      <3> HIDE DEF r, row
      <3> QED
        BY <1>5, <3>4, <3>5, <3>6 DEF Knows
    <2>4. r.target = t
      OBVIOUS
    <2> HIDE DEF r
    <2> QED
      BY <1>1, <1>5, <2>1, <2>2, <2>3, <2>4, GotoCalm DEF r
  <1>6. ASSUME Goto(p, [pc |-> "right", target |-> t]),
               Tell(t, LAMBDA seen : [seen EXCEPT !.right = TRUE])
        PROVE  CalmInv'
    <2> DEFINE r == [pc |-> "right", target |-> t]
    <2>1. \A u \in Targets \ {t} : told'[u] = told[u] /\ otp'[u] = otp[u]
      BY <1>6 DEF VerifyDecide, Tell, LimitsInv, TypeOK
    <2>2. told'[t] # Null => told[t] # Null
      BY <1>1, <1>6 DEF Tell, LimitsInv, TypeOK
    <2>3. ASSUME told'[t] # Null, Knows(req[p], otp[t], told[t])
          PROVE  Knows(r, otp'[t], told'[t])
      <3>1. told'[t] = [told[t] EXCEPT !.right = TRUE]
        BY <1>1, <1>6, <2>2, <2>3 DEF Tell, LimitsInv, TypeOK
      <3>2. otp'[t] = row /\ row # Null
        BY <1>1, <1>2, <2>3, NullAssumption DEF VerifyDecide
      <3> QED
        BY <1>2, <2>3, <3>1, <3>2 DEF Knows
    <2>4. r.target = t
      OBVIOUS
    <2> HIDE DEF r
    <2> QED
      BY <1>1, <1>6, <2>1, <2>2, <2>3, <2>4, GotoCalm DEF r
  <1> QED
    BY <1>4, <1>5, <1>6 DEF VerifyDecide

\* The row catches up with the wrong answer.
LEMMA WrongCalm ==
    ASSUME LimitsInv, CalmInv, NEW p \in Procs, Wrong(p)
    PROVE  CalmInv'
  <1> DEFINE t == req[p].target
             last == MaxRetries - req[p].retries = 0
             row == [otp[t] EXCEPT !.retries = req[p].retries, !.blocked = last]
  <1>1. /\ t \in Targets /\ req[p] # Idle /\ Exists(t) /\ req[p].retries \in 1..MaxRetries
    BY DEF LimitsInv, TypeOK, Wrong, Request, Idle, HasRow, RequestWithin
  <1>2. otp'[t] = row /\ \A u \in Targets \ {t} : otp'[u] = otp[u]
    BY <1>1 DEF Wrong, LimitsInv, TypeOK
  <1>3. otp[t] \in Row /\ WithinLimits(otp[t]) /\ otp[t] # Null
    BY <1>1, TableRow DEF Exists
  <1>4. last \in BOOLEAN /\ (req[p].retries = MaxRetries => last)
    BY <1>1, LimitsAssumption
  <1> HIDE DEF last
  <1>5. row \in Row
    BY <1>1, <1>3, <1>4, AnswerCounted
  <1>6. row # Null
    BY <1>5, NullAssumption
  <1>7. /\ row.code = otp[t].code /\ row.attempt = otp[t].attempt
        /\ row.retries = req[p].retries /\ row.verified = otp[t].verified
    BY <1>3 DEF Row
  <1> HIDE DEF row
  <1>8. Shown(row) = [Shown(otp[t]) EXCEPT !.wrong = req[p].retries]
    BY <1>3, <1>6, <1>7 DEF Shown
  <1>9. Knows(req[p], otp[t], told[t]) => Knows(Idle, otp'[t], told'[t])
    BY <1>2, <1>8 DEF Knows, Idle, Wrong
  <1> QED
    BY <1>1, <1>2, <1>9, GotoCalm DEF Wrong

\* The row catches up with the right answer.
LEMMA RightCalm ==
    ASSUME LimitsInv, CalmInv, NEW p \in Procs, Right(p)
    PROVE  CalmInv'
  <1> DEFINE t == req[p].target
             row == [otp[t] EXCEPT !.verified = TRUE]
  <1>1. t \in Targets /\ req[p] # Idle /\ Exists(t)
    BY DEF LimitsInv, TypeOK, Right, Request, Idle, HasRow
  <1>2. otp'[t] = row /\ \A u \in Targets \ {t} : otp'[u] = otp[u]
    BY <1>1 DEF Right, LimitsInv, TypeOK
  <1>3. otp[t] \in Row /\ otp[t] # Null
    BY <1>1, TableRow DEF Exists
  <1>4. row \in Row
    BY <1>3 DEF Row
  <1>5. row # Null
    BY <1>4, NullAssumption
  <1>6. /\ row.code = otp[t].code /\ row.attempt = otp[t].attempt
        /\ row.retries = otp[t].retries /\ row.verified = TRUE
    BY <1>3 DEF Row
  <1> HIDE DEF row
  <1>7. Shown(row) = [Shown(otp[t]) EXCEPT !.right = TRUE]
    <2>1. PICK yes : yes = row.verified
      OBVIOUS
    <2>2. Shown(row) = [Shown(otp[t]) EXCEPT !.right = yes]
      <3>1. /\ row.code = otp[t].code /\ row.attempt = otp[t].attempt
            /\ row.retries = otp[t].retries
        BY <1>6
      <3> QED
        BY <1>3, <1>5, <2>1, <3>1 DEF Shown
    <2>3. yes = TRUE
      BY <1>6, <2>1
    <2> QED
      BY <2>2, <2>3, Zenon
  <1>8. Knows(req[p], otp[t], told[t]) => Knows(Idle, otp'[t], told'[t])
    BY <1>2, <1>7 DEF Knows, Idle, Right
  <1> QED
    BY <1>1, <1>2, <1>8, GotoCalm DEF Right

\* A lost request: its target is calm no more.
LEMMA CrashCalm ==
    ASSUME LimitsInv, CalmInv, NEW p \in Procs, Crash(p)
    PROVE  CalmInv'
  <1>1. req[p] # Idle /\ req[p].target \in Targets
    BY DEF Crash, LimitsInv, TypeOK, Request
  <1>2. told'[req[p].target] = Null
    BY <1>1 DEF Crash, LimitsInv, TypeOK
  <1>3. \A u \in Targets \ {req[p].target} : told'[u] = told[u] /\ otp'[u] = otp[u]
    BY DEF Crash, LimitsInv, TypeOK
  <1> QED
    BY <1>1, <1>2, <1>3, GotoCalm DEF Crash, Goto

-----------------------------------------------------------------------------

\* A date that grows older passes every timeout it had passed.
LEMMA OlderAge == ASSUME NEW age \in Ages PROVE Older(age) >= age
  BY TimeoutsAssumption DEF Older, AtMost, Ages

\* An older row shows the same, and what was not refused is not refused.
LEMMA OlderRowShows ==
    ASSUME NEW row \in Row
    PROVE  /\ OlderRow(row) # Null /\ Shown(OlderRow(row)) = Shown(row)
           /\ OlderRow(row).code = row.code /\ OlderRow(row).blocked = row.blocked
           /\ OlderRow(row).age >= row.age
           /\ ~Refused(row) => ~Refused(OlderRow(row))
  <1> DEFINE old == OlderRow(row)
  <1>1. old \in Row /\ old = [row EXCEPT !.age = Older(row.age)]
    BY OlderRowType
  <1>2. old # Null /\ row # Null
    BY <1>1, NullAssumption
  <1>3. /\ old.code = row.code /\ old.attempt = row.attempt /\ old.retries = row.retries
        /\ old.blocked = row.blocked /\ old.verified = row.verified
        /\ old.age = Older(row.age)
    BY <1>1 DEF Row
  <1>4. row.age \in Ages /\ old.age \in Ages
    BY <1>1 DEF Row
  <1> HIDE DEF old
  <1>5. old.age >= row.age
    BY <1>3, <1>4, OlderAge
  <1>6. Shown(old) = Shown(row)
    BY <1>2, <1>3 DEF Shown
  <1>7. ~Refused(row) => ~Refused(old)
    BY <1>3, <1>4, <1>5, TimeoutsAssumption DEF Refused, IsTimeout, IsBlockTimeout, Ages
  <1> QED
    BY <1>2, <1>3, <1>5, <1>6, <1>7 DEF old

\* Time passes: what a request knows grows older with the row.
LEMMA TickCalm ==
    ASSUME LimitsInv, CalmInv, Tick
    PROVE  CalmInv'
  <1>1. ASSUME NEW p \in Procs
        PROVE  /\ req'[p] = Idle <=> req[p] = Idle
               /\ req[p] # Idle => req'[p].target = req[p].target
               /\ req'[p].pc = req[p].pc
               /\ req[p].pc \in {"sendFound", "verifyFound"} => req'[p].row = OlderRow(req[p].row)
               /\ req[p].pc = "deliver" => req'[p].code = req[p].code
               /\ req[p].pc = "resend" => req'[p].attempt = req[p].attempt
               /\ req[p].pc = "wrong" => req'[p].retries = req[p].retries
    <2> DEFINE r == req[p]
    <2>1. r \in Request
      BY DEF LimitsInv, TypeOK
    <2>2. CASE r.pc \in {"sendFound", "verifyFound"}
      <3>1. req'[p] = [r EXCEPT !.row = OlderRow(r.row)]
        BY <2>2 DEF Tick
      <3> QED
        BY <2>1, <2>2, <3>1 DEF Request, Idle
    <2>3. CASE r.pc \in {"insert", "resend"}
      <3>1. req'[p] = [r EXCEPT !.age = Older(r.age)]
        BY <2>3 DEF Tick
      <3> QED
        BY <2>1, <2>3, <3>1 DEF Request, Idle
    <2>4. CASE r.pc \notin {"sendFound", "verifyFound", "insert", "resend"}
      <3>1. req'[p] = r
        BY <2>4 DEF Tick
      <3> QED
        BY <2>4, <3>1
    <2> QED
      BY <2>2, <2>3, <2>4
  <1>2. ASSUME NEW t \in Targets
        PROVE  /\ otp'[t] = OlderRow(otp[t]) /\ told'[t] = told[t]
               /\ Shown(otp'[t]) = Shown(otp[t])
               /\ otp[t] = Null => otp'[t] = Null
               /\ otp[t] # Null => /\ otp'[t] # Null
                                   /\ otp'[t].code = otp[t].code
                                   /\ otp'[t].blocked = otp[t].blocked
                                   /\ otp'[t].attempt = otp[t].attempt
                                   /\ otp'[t].retries = otp[t].retries
                                   /\ otp'[t].verified = otp[t].verified
                                   /\ ~Refused(otp[t]) => ~Refused(otp'[t])
    <2>1. otp'[t] = OlderRow(otp[t]) /\ told'[t] = told[t]
      BY DEF Tick
    <2>2. CASE otp[t] = Null
      BY <2>1, <2>2 DEF OlderRow
    <2>3. CASE otp[t] # Null
      <3>1. otp[t] \in Row
        BY <2>3 DEF LimitsInv, TypeOK
      <3>2. otp'[t] = [otp[t] EXCEPT !.age = Older(otp[t].age)]
        BY <2>1, <3>1, OlderRowType
      <3>3. otp'[t].attempt = otp[t].attempt /\ otp'[t].retries = otp[t].retries
            /\ otp'[t].verified = otp[t].verified
        BY <3>1, <3>2 DEF Row
      <3> QED
        BY <2>1, <2>3, <3>1, <3>3, OlderRowShows
    <2> QED
      BY <2>2, <2>3
  <1> SUFFICES ASSUME NEW t \in Targets, told'[t] # Null
               PROVE  /\ \A p, q \in Procs : Busy(p, t)' /\ Busy(q, t)' => p = q
                      /\ Quiet(t)' => told'[t] = Shown(otp'[t])
                      /\ \A p \in Procs : Busy(p, t)' => Knows(req'[p], otp'[t], told'[t])
    BY DEF CalmInv, Knows, Shown, Quiet, Busy, Refused, IsBlockTimeout, IsTimeout
  <1>3. \A p \in Procs : Busy(p, t)' <=> Busy(p, t)
    BY <1>1 DEF Busy
  <1>4. Quiet(t)' <=> Quiet(t)
    BY <1>3 DEF Quiet
  <1>5. told[t] # Null
    BY <1>2
  <1>6. ASSUME NEW p \in Procs, Knows(req[p], otp[t], told[t])
        PROVE  Knows(req'[p], otp'[t], told'[t])
    BY <1>1, <1>2, <1>6 DEF Knows
  <1> QED
    BY <1>2, <1>3, <1>4, <1>5, <1>6 DEF CalmInv

\* CalmInv survives every step.
LEMMA CalmStep ==
    ASSUME LimitsInv, CalmInv, [Next]_vars
    PROVE  CalmInv'
  <1>1. ASSUME NEW p \in Procs, NEW t \in Targets, SendFind(p, t) PROVE CalmInv'
    <2> DEFINE r == [pc |-> "sendFound", target |-> t, row |-> otp[t]]
    <2>1. r.target = t /\ r # Idle /\ r.pc = "sendFound" /\ r.row = otp[t]
      BY DEF Idle
    <2> HIDE DEF r
    <2> QED
      BY <1>1, <2>1, BeginCalm DEF SendFind, r
  <1>2. ASSUME NEW p \in Procs, NEW t \in Targets, NEW code \in Codes, VerifyFind(p, t, code)
        PROVE  CalmInv'
    <2> DEFINE r == [pc |-> "verifyFound", target |-> t, row |-> otp[t], code |-> code]
    <2>1. r.target = t /\ r # Idle /\ r.pc = "verifyFound" /\ r.row = otp[t]
      BY DEF Idle
    <2> HIDE DEF r
    <2> QED
      BY <1>2, <2>1, BeginCalm DEF VerifyFind, r
  <1>3. ASSUME NEW p \in Procs, Step(p) PROVE CalmInv'
    BY <1>3, SendFirstCalm, SendAgainCalm, InsertCalm, BlockCalm, ResendCalm, DeliverCalm,
       VerifyDecideCalm, WrongCalm, RightCalm DEF Step
  <1>4. ASSUME NEW p \in Procs, Crash(p) PROVE CalmInv'
    BY <1>4, CrashCalm
  <1>5. CASE Tick
    BY <1>5, TickCalm
  <1>6. CASE UNCHANGED vars
    <2> SUFFICES ASSUME NEW t \in Targets, told'[t] # Null
                 PROVE  /\ \A p, q \in Procs : Busy(p, t)' /\ Busy(q, t)' => p = q
                        /\ Quiet(t)' => told'[t] = Shown(otp'[t])
                        /\ \A p \in Procs : Busy(p, t)' => Knows(req'[p], otp'[t], told'[t])
      BY DEF CalmInv, Knows, Shown, Quiet, Busy, Refused, IsBlockTimeout, IsTimeout
    <2>1. otp' = otp /\ req' = req /\ told' = told
      BY <1>6 DEF vars
    <2>2. (Quiet(t)' <=> Quiet(t)) /\ \A p \in Procs : Busy(p, t)' <=> Busy(p, t)
      BY <2>1 DEF Quiet, Busy
    <2> QED
      BY <2>1, <2>2 DEF CalmInv
  <1> QED
    BY <1>1, <1>2, <1>3, <1>4, <1>5, <1>6 DEF Next, AskForCode

\* CalmInv is an invariant: whatever happens to other targets, a request that
\* is alone with its target acts on the row as it is.
THEOREM CalmInvariant == Spec => []CalmInv
  <1>1. Init => CalmInv
    BY DEF Init, CalmInv, Shown, Busy
  <1>2. LimitsInv /\ CalmInv /\ [Next]_vars => CalmInv'
    BY CalmStep
  <1> QED
    BY <1>1, <1>2, LimitsInvariant, PTL DEF Spec

\* Between requests that ran one at a time and did not fail, the row agrees
\* with what the owner of the target has seen of send and verify.
THEOREM CountsStayTrue == Spec => []CountsAreTrue
  <1>1. LimitsInv /\ CalmInv => CountsAreTrue
    BY DEF LimitsInv, TypeOK, CalmInv, CountsAreTrue, Calm, Exists, Shown
  <1> QED
    BY <1>1, LimitsInvariant, CalmInvariant, PTL

-----------------------------------------------------------------------------
(* How long a block lasts *)

\* A step about one target's request, seen from the targets that stay calm.
LEMMA BlockKeptBy ==
    ASSUME LimitsInv, CalmInv, NEW p \in Procs, req[p] # Idle,
           \A u \in Targets \ {req[p].target} : otp'[u] = otp[u],
           told'[req[p].target] # Null => told[req[p].target] # Null,
           LET t == req[p].target
           IN Exists(t) /\ told'[t] # Null /\ Knows(req[p], otp[t], told[t])
              => /\ otp[t].blocked /\ ~IsBlockTimeout(otp[t].age) => otp'[t].blocked
                 /\ otp'[t].code # otp[t].code \/ otp'[t].age < otp[t].age
                    => IsTimeout(otp[t].age) \/ otp[t].verified
    PROVE  BlockKept
  <1>1. ASSUME NEW u \in Targets, Exists(u), otp'[u] = otp[u]
        PROVE  /\ otp[u].blocked /\ ~IsBlockTimeout(otp[u].age) => otp'[u].blocked
               /\ ~(otp'[u].code # otp[u].code \/ otp'[u].age < otp[u].age)
    <2>1. otp[u] \in Row
      BY <1>1, TableRow
    <2> QED
      BY <1>1, <2>1 DEF Row, Ages
  <1>2. told[req[p].target] # Null => Knows(req[p], otp[req[p].target], told[req[p].target])
    BY Alone
  <1> QED
    BY <1>1, <1>2 DEF BlockKept, Calm

\* One step of one request.
LEMMA StepKeepsBlock ==
    ASSUME LimitsInv, CalmInv, NEW p \in Procs, Step(p)
    PROVE  BlockKept
  <1> DEFINE t == req[p].target
  <1>1. req[p] # Idle /\ t \in Targets
    <2>1. req[p].pc \in {"sendFound", "insert", "block", "resend", "deliver", "verifyFound",
                         "wrong", "right"}
      BY DEF Step, SendFirst, SendAgain, Insert, Block, Resend, Deliver, VerifyDecide, Wrong,
             Right
    <2>2. req[p] # Idle
      BY <2>1 DEF Idle
    <2> QED
      BY <2>2 DEF LimitsInv, TypeOK, Request
  <1>2. ASSUME Exists(t) PROVE otp[t] \in Row
    BY <1>1, <1>2, TableRow
  <1>3. CASE SendFirst(p) \/ SendAgain(p) \/ Deliver(p) \/ VerifyDecide(p)
    <2>1. otp' = otp
      BY <1>3 DEF SendFirst, SendAgain, Deliver, VerifyDecide
    <2>2. told'[t] # Null => told[t] # Null
      BY <1>1, <1>3 DEF SendFirst, SendAgain, Deliver, VerifyDecide, Generated, Tell, LimitsInv,
                        TypeOK
    <2>3. Exists(t) => ~(otp'[t].age < otp[t].age)
      BY <1>2, <2>1 DEF Row, Ages
    <2> QED
      BY <1>1, <2>1, <2>2, <2>3, BlockKeptBy
  <1>4. CASE Insert(p)
    <2>1. told' = told /\ \A u \in Targets \ {t} : otp'[u] = otp[u]
      BY <1>4 DEF Insert, LimitsInv, TypeOK
    <2>2. ~(Exists(t) /\ Knows(req[p], otp[t], told[t]))
      BY <1>4 DEF Insert, Knows, Exists
    <2> QED
      BY <1>1, <2>1, <2>2, BlockKeptBy
  <1>5. CASE Block(p)
    <2>1. /\ told' = told /\ \A u \in Targets \ {t} : otp'[u] = otp[u]
          /\ otp'[t] = [otp[t] EXCEPT !.blocked = TRUE]
      BY <1>1, <1>5 DEF Block, LimitsInv, TypeOK
    <2>2. Exists(t) => /\ otp'[t].blocked /\ otp'[t].code = otp[t].code
                       /\ ~(otp'[t].age < otp[t].age)
      BY <1>2, <2>1 DEF Row, Ages
    <2> QED
      BY <1>1, <2>1, <2>2, BlockKeptBy
  <1>6. CASE Resend(p)
    <2>1. told' = told /\ \A u \in Targets \ {t} : otp'[u] = otp[u]
      BY <1>6 DEF Resend, LimitsInv, TypeOK
    <2>2. Knows(req[p], otp[t], told[t]) => ~Refused(otp[t])
      BY <1>6 DEF Resend, Knows
    <2>3. ~Refused(otp[t]) => /\ ~(otp[t].blocked /\ ~IsBlockTimeout(otp[t].age))
                              /\ IsTimeout(otp[t].age) \/ otp[t].verified
      BY DEF Refused
    <2> QED
      BY <1>1, <2>1, <2>2, <2>3, BlockKeptBy
  <1>7. CASE Wrong(p)
    <2> DEFINE last == MaxRetries - req[p].retries = 0
    <2>1. /\ told' = told /\ \A u \in Targets \ {t} : otp'[u] = otp[u]
          /\ otp'[t] = [otp[t] EXCEPT !.retries = req[p].retries, !.blocked = last]
      BY <1>1, <1>7 DEF Wrong, LimitsInv, TypeOK
    <2> HIDE DEF last
    <2>2. Exists(t) => otp'[t].code = otp[t].code /\ ~(otp'[t].age < otp[t].age)
      BY <1>2, <2>1 DEF Row, Ages
    <2>3. Knows(req[p], otp[t], told[t]) => ~otp[t].blocked
      BY <1>7 DEF Wrong, Knows
    <2> QED
      BY <1>1, <2>1, <2>2, <2>3, BlockKeptBy
  <1>8. CASE Right(p)
    <2>1. /\ told' = told /\ \A u \in Targets \ {t} : otp'[u] = otp[u]
          /\ otp'[t] = [otp[t] EXCEPT !.verified = TRUE]
      BY <1>1, <1>8 DEF Right, LimitsInv, TypeOK
    <2>2. Exists(t) => /\ otp'[t].blocked = otp[t].blocked /\ otp'[t].code = otp[t].code
                       /\ ~(otp'[t].age < otp[t].age)
      BY <1>2, <2>1 DEF Row, Ages
    <2> QED
      BY <1>1, <2>1, <2>2, BlockKeptBy
  <1> QED
    BY <1>3, <1>4, <1>5, <1>6, <1>7, <1>8 DEF Step

\* No step ends a block early or replaces a code that is neither answered nor
\* timed out.
LEMMA NextKeepsBlock ==
    ASSUME LimitsInv, CalmInv, [Next]_vars
    PROVE  [BlockKept]_vars
  <1>1. ASSUME otp' = otp PROVE BlockKept
    <2>1. ASSUME NEW t \in Targets, Exists(t) PROVE ~(otp'[t].age < otp[t].age)
      <3>1. otp[t] \in Row
        BY <2>1, TableRow
      <3> QED
        BY <1>1, <3>1 DEF Row, Ages
    <2> QED
      BY <1>1, <2>1 DEF BlockKept, Calm
  <1>2. ASSUME NEW p \in Procs, NEW t \in Targets, SendFind(p, t) PROVE BlockKept
    BY <1>1, <1>2 DEF SendFind
  <1>3. ASSUME NEW p \in Procs, NEW t \in Targets, NEW code \in Codes, VerifyFind(p, t, code)
        PROVE  BlockKept
    BY <1>1, <1>3 DEF VerifyFind
  <1>4. ASSUME NEW p \in Procs, Step(p) PROVE BlockKept
    BY <1>4, StepKeepsBlock
  <1>5. ASSUME NEW p \in Procs, Crash(p) PROVE BlockKept
    BY <1>1, <1>5 DEF Crash
  <1>6. CASE Tick
    <2>1. ASSUME NEW t \in Targets, Exists(t)
          PROVE  /\ otp'[t].blocked = otp[t].blocked /\ otp'[t].code = otp[t].code
                 /\ ~(otp'[t].age < otp[t].age)
      <3>1. otp[t] \in Row /\ otp'[t] = OlderRow(otp[t])
        BY <1>6, <2>1, TableRow DEF Tick
      <3>2. otp[t].age \in Ages /\ otp'[t].age \in Ages
        BY <3>1, OlderRowType DEF Row
      <3> QED
        BY <3>1, <3>2, OlderRowShows DEF Ages
    <2> QED
      BY <2>1 DEF BlockKept, Calm
  <1> QED
    BY <1>2, <1>3, <1>4, <1>5, <1>6 DEF Next, AskForCode

\* For a target whose requests run one at a time, a block lasts until
\* BlockTimeout after the last code, and a code is replaced only once it is
\* answered or timed out.
THEOREM BlocksLast == Spec => BlockLasts
  <1>1. LimitsInv /\ CalmInv /\ [Next]_vars => [BlockKept]_vars
    BY NextKeepsBlock
  <1> QED
    BY <1>1, LimitsInvariant, CalmInvariant, PTL DEF Spec, BlockLasts
=============================================================================
