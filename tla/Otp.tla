--------------------------------- MODULE Otp ---------------------------------
(***************************************************************************)
(* OtpService: one row per target (an address on a transport) holds the    *)
(* current code and the counters that limit how often a code is sent and   *)
(* how often it may be entered wrong.  send and verify both read the row,  *)
(* decide on the copy and write absolute values back, each at its own      *)
(* moment; nothing makes the three one.                                    *)
(*                                                                         *)
(* Time: a date is its age, which Tick advances wherever it is held, and   *)
(* which stops one beyond BlockTimeout, where both timeouts have passed.   *)
(***************************************************************************)
EXTENDS RequestSlots, Integers

CONSTANTS
    Targets,       \* (transport, target in lower case)
    Codes,         \* what generateCode may return
    MaxAttempt,    \* config.maxAttempt
    MaxRetries,    \* config.maxRetries
    Timeout,       \* config.timeout
    BlockTimeout,  \* config.blockTimeout
    Null,          \* no row, no code
    Faults         \* whether "crash" may happen

ASSUME LimitsAssumption == MaxAttempt \in Nat \ {0} /\ MaxRetries \in Nat \ {0}
ASSUME TimeoutsAssumption ==
    Timeout \in Nat /\ BlockTimeout \in Nat /\ Timeout < BlockTimeout

VARIABLES
    otp,       \* the table: a row or Null for each target
    told       \* history: what the target's owner has seen (see Seen); Null
               \* once two requests on it overlapped or one crashed

vars == <<otp, req, told>>

Ages == 0..(BlockTimeout + 1)

Row == [code : Codes, age : Ages, attempt : Nat, retries : Nat,
        blocked : BOOLEAN, verified : BOOLEAN]

\* code: the last one that arrived; codes: how many were generated since the
\* last quiet period or right answer; wrong: wrong answers to the current
\* code; right: whether it has been answered.
Seen == [code : Codes \cup {Null}, codes : 0..(MaxAttempt + 1),
         wrong : 0..(MaxRetries + 1), right : BOOLEAN]

\* What an owner has seen before the first code.
Unseen == [code |-> Null, codes |-> 0, wrong |-> 0, right |-> FALSE]

ASSUME NullAssumption == Null \notin Codes \cup Row \cup Seen

Request ==
    {Idle}
    \cup [pc : {"sendFound"}, target : Targets, row : Row \cup {Null}]
    \cup [pc : {"verifyFound"}, target : Targets, row : Row, code : Codes]
    \cup [pc : {"insert"}, target : Targets, code : Codes, age : Ages]
    \cup [pc : {"deliver"}, target : Targets, code : Codes]
    \cup [pc : {"resend"}, target : Targets, code : Codes, age : Ages, attempt : Nat]
    \cup [pc : {"wrong"}, target : Targets, retries : Nat]
    \cup [pc : {"block", "right"}, target : Targets]

\* The table and the requests in flight keep their shape.
TypeOK ==
    /\ otp \in [Targets -> Row \cup {Null}]
    /\ req \in [Procs -> Request]
    /\ told \in [Targets -> Seen \cup {Null}]

Init ==
    /\ otp = [t \in Targets |-> Null]
    /\ req = [p \in Procs |-> Idle]
    /\ told = [t \in Targets |-> Unseen]

-----------------------------------------------------------------------------

Exists(t) == otp[t] # Null

Blocked(t) == Exists(t) /\ otp[t].blocked

Busy(p, t) == req[p] # Idle /\ req[p].target = t

Quiet(t) == \A p \in Procs : ~Busy(p, t)

\* A request starts, perhaps while others work on the target.
Begin(p, r) ==
    /\ req[p] = Idle
    /\ req' = [req EXCEPT ![p] = r]
    /\ told' = IF Quiet(r.target) THEN told ELSE [told EXCEPT ![r.target] = Null]

\* The owner of the target has seen something.
Tell(t, seen(_)) ==
    told' = [told EXCEPT ![t] = IF @ = Null THEN Null ELSE seen(@)]

AtMost(n, max) == IF n > max THEN max ELSE n

Older(age) == AtMost(age + 1, BlockTimeout + 1)

IsTimeout(age) == age > Timeout

IsBlockTimeout(age) == age > BlockTimeout

-----------------------------------------------------------------------------
(* send *)

SendFind(p, t) ==
    /\ Begin(p, [pc |-> "sendFound", target |-> t, row |-> otp[t]])
    /\ UNCHANGED otp

\* Mutant: a block does not keep the target from a new code.
RefusedUnlessRecent(row) == ~IsTimeout(row.age) /\ ~row.verified

\* Blocked, or still waiting for an answer to the last code.
Refused(row) ==
    \/ row.blocked /\ ~IsBlockTimeout(row.age)
    \/ ~IsTimeout(row.age) /\ ~row.verified

\* Mutant: only a right answer sets the attempts back.
AttemptsOnlyVerified(row) == IF row.verified THEN 0 ELSE row.attempt

Attempts(row) == IF IsBlockTimeout(row.age) \/ row.verified THEN 0 ELSE row.attempt

\* A new code is generated: answers to the old one no longer count.
Generated(t, quiet) ==
    Tell(t, LAMBDA seen : [seen EXCEPT
        !.codes = IF quiet \/ seen.right THEN 1 ELSE AtMost(@ + 1, MaxAttempt + 1),
        !.wrong = 0, !.right = FALSE])

Delivery(r) == [pc |-> "deliver", target |-> r.target, code |-> r.code]

SendFirst(p) ==
    /\ req[p].pc = "sendFound" /\ req[p].row = Null
    /\ \E code \in Codes :
          Goto(p, [pc |-> "insert", target |-> req[p].target, code |-> code, age |-> 0])
    /\ Generated(req[p].target, FALSE)
    /\ UNCHANGED otp

SendAgain(p) ==
    /\ req[p].pc = "sendFound" /\ req[p].row # Null
    /\ LET t == req[p].target
           row == req[p].row
       IN \/ /\ Refused(row)
             /\ Goto(p, Idle)
             /\ UNCHANGED told
          \/ /\ ~Refused(row) /\ Attempts(row) = MaxAttempt
             /\ Goto(p, [pc |-> "block", target |-> t])
             /\ UNCHANGED told
          \/ /\ ~Refused(row) /\ Attempts(row) # MaxAttempt
             /\ \E code \in Codes :
                   Goto(p, [pc |-> "resend", target |-> t, code |-> code, age |-> 0,
                            attempt |-> Attempts(row) + 1])
             /\ Generated(t, IsBlockTimeout(row.age))
    /\ UNCHANGED otp

\* The unique index lets one of two first rows in; the other request throws
\* before it delivers.
Insert(p) ==
    /\ req[p].pc = "insert"
    /\ LET r == req[p]
       IN \/ /\ ~Exists(r.target)
             /\ otp' = [otp EXCEPT ![r.target] =
                          [code |-> r.code, age |-> r.age, attempt |-> 1, retries |-> 0,
                           blocked |-> FALSE, verified |-> FALSE]]
             /\ Goto(p, Delivery(r))
          \/ /\ Exists(r.target)
             /\ Goto(p, Idle)
             /\ UNCHANGED otp
    /\ UNCHANGED told

Block(p) ==
    /\ req[p].pc = "block"
    /\ otp' = [otp EXCEPT ![req[p].target].blocked = TRUE]
    /\ Goto(p, Idle)
    /\ UNCHANGED told

\* Mutant: wrong answers to the old code count against the new one.
ResendKeepsRetries(p) ==
    /\ req[p].pc = "resend"
    /\ LET r == req[p]
       IN /\ otp' = [otp EXCEPT ![r.target] =
                       [code |-> r.code, age |-> r.age, attempt |-> r.attempt, retries |-> @.retries,
                        blocked |-> FALSE, verified |-> FALSE]]
          /\ Goto(p, Delivery(r))
    /\ UNCHANGED told

Resend(p) ==
    /\ req[p].pc = "resend"
    /\ LET r == req[p]
       IN /\ otp' = [otp EXCEPT ![r.target] =
                       [code |-> r.code, age |-> r.age, attempt |-> r.attempt, retries |-> 0,
                        blocked |-> FALSE, verified |-> FALSE]]
          /\ Goto(p, Delivery(r))
    /\ UNCHANGED told

\* sendCodeOnTarget, after the write.
Deliver(p) ==
    /\ req[p].pc = "deliver"
    /\ Tell(req[p].target, LAMBDA seen : [seen EXCEPT !.code = req[p].code])
    /\ Goto(p, Idle)
    /\ UNCHANGED otp

-----------------------------------------------------------------------------
(* verify *)

\* Mutant: verify does not ask whether there is a row.
VerifyFindAny(p, t, code) ==
    /\ Begin(p, [pc |-> "verifyFound", target |-> t, row |-> otp[t], code |-> code])
    /\ UNCHANGED otp

\* Without a row verify throws at once.
VerifyFind(p, t, code) ==
    /\ Exists(t)
    /\ Begin(p, [pc |-> "verifyFound", target |-> t, row |-> otp[t], code |-> code])
    /\ UNCHANGED otp

VerifyDecide(p) ==
    /\ req[p].pc = "verifyFound"
    /\ LET t == req[p].target
           row == req[p].row
           open == ~row.blocked /\ ~IsTimeout(row.age)
       IN \/ /\ ~open
             /\ Goto(p, Idle)
             /\ UNCHANGED told
          \/ /\ open /\ req[p].code # row.code
             /\ Goto(p, [pc |-> "wrong", target |-> t, retries |-> row.retries + 1])
             /\ Tell(t, LAMBDA seen : [seen EXCEPT !.wrong = AtMost(@ + 1, MaxRetries + 1)])
          \/ /\ open /\ req[p].code = row.code
             /\ Goto(p, [pc |-> "right", target |-> t])
             /\ Tell(t, LAMBDA seen : [seen EXCEPT !.right = TRUE])
    /\ UNCHANGED otp

\* Mutant: the block starts one answer late.
WrongLate(p) ==
    /\ req[p].pc = "wrong"
    /\ otp' = [otp EXCEPT ![req[p].target].retries = req[p].retries,
                          ![req[p].target].blocked = req[p].retries > MaxRetries]
    /\ Goto(p, Idle)
    /\ UNCHANGED told

\* blocked is set by equality, not by comparison.
Wrong(p) ==
    /\ req[p].pc = "wrong"
    /\ otp' = [otp EXCEPT ![req[p].target].retries = req[p].retries,
                          ![req[p].target].blocked = MaxRetries - req[p].retries = 0]
    /\ Goto(p, Idle)
    /\ UNCHANGED told

Right(p) ==
    /\ req[p].pc = "right"
    /\ otp' = [otp EXCEPT ![req[p].target].verified = TRUE]
    /\ Goto(p, Idle)
    /\ UNCHANGED told

-----------------------------------------------------------------------------
(* Around the service *)

OlderRow(row) == IF row = Null THEN Null ELSE [row EXCEPT !.age = Older(@)]

\* Time passes for the table and for every copy of a row or a date.
Tick ==
    /\ otp' = [t \in Targets |-> OlderRow(otp[t])]
    /\ req' = [p \in Procs |->
                 CASE req[p].pc \in {"sendFound", "verifyFound"} ->
                        [req[p] EXCEPT !.row = OlderRow(@)]
                   [] req[p].pc \in {"insert", "resend"} ->
                        [req[p] EXCEPT !.age = Older(@)]
                   [] OTHER -> req[p]]
    /\ UNCHANGED told

\* A query fails or the worker dies: the request ends where it is.
Crash(p) ==
    /\ "crash" \in Faults
    /\ req[p] # Idle
    /\ req' = [req EXCEPT ![p] = Idle]
    /\ told' = [told EXCEPT ![req[p].target] = Null]
    /\ UNCHANGED otp

Step(p) ==
    \/ SendFirst(p) \/ SendAgain(p) \/ Insert(p) \/ Block(p) \/ Resend(p) \/ Deliver(p)
    \/ VerifyDecide(p) \/ Wrong(p) \/ Right(p)

AskForCode(t) == \E p \in Procs : SendFind(p, t)

Next ==
    \/ \E t \in Targets : AskForCode(t)
    \/ \E p \in Procs, t \in Targets, code \in Codes : VerifyFind(p, t, code)
    \/ \E p \in Procs : Step(p) \/ Crash(p)
    \/ Tick

Spec == Init /\ [][Next]_vars

\* Node's event loop serves every request it has taken, time passes, failures
\* end some day, and the owner of a target keeps asking.  The number of slots
\* is a bound of the model: with all of them taken again and again the
\* question still gets in, hence the strong fairness.
Fairness ==
    /\ \A p \in Procs : WF_vars(Step(p))
    /\ WF_vars(Tick)
    /\ <>[][\A p \in Procs : ~Crash(p)]_vars
    /\ \A t \in Targets : SF_vars(AskForCode(t))

LiveSpec == Spec /\ Fairness

-----------------------------------------------------------------------------
(* However requests interleave and fail *)

\* Neither limit is ever passed, and a target whose retries are used up is
\* blocked: both are tested for equality, so a counter that got past its
\* limit would never be stopped again.
LimitsHold ==
    \A t \in Targets : Exists(t) =>
        /\ otp[t].attempt \in 1..MaxAttempt
        /\ otp[t].retries \in 0..MaxRetries
        /\ otp[t].retries = MaxRetries => otp[t].blocked

\* A block ends for an owner who keeps asking, whatever else is going on:
\* only send takes it away, and only if it also sets the attempts back.
BlockEnds == \A t \in Targets : Blocked(t) ~> ~Blocked(t)

-----------------------------------------------------------------------------
(* For a target whose requests ran one at a time and did not fail *)

Calm(t) == Exists(t) /\ told[t] # Null

\* Between requests the row agrees with what the owner has seen: the code
\* that arrived last counts, the attempts are the codes generated in a row,
\* the retries the wrong answers to this one, and verified means answered.
CountsAreTrue ==
    \A t \in Targets : Calm(t) /\ Quiet(t) =>
        told[t] = [code |-> otp[t].code, codes |-> otp[t].attempt,
                   wrong |-> otp[t].retries, right |-> otp[t].verified]

BlockKept ==
    \A t \in Targets :
        Calm(t) /\ told'[t] # Null =>
           /\ otp[t].blocked /\ ~IsBlockTimeout(otp[t].age) => otp'[t].blocked
           /\ otp'[t].code # otp[t].code \/ otp'[t].age < otp[t].age
                 => IsTimeout(otp[t].age) \/ otp[t].verified

\* A block lasts until BlockTimeout after the last code, and a code that is
\* neither answered nor timed out is not replaced.
BlockLasts == [][BlockKept]_vars

-----------------------------------------------------------------------------
(* Why a request that is alone with its target acts on the truth *)

\* What the owner of a target has seen if the row is the truth.
Shown(row) ==
    IF row = Null THEN Unseen
    ELSE [code |-> row.code, codes |-> row.attempt, wrong |-> row.retries, right |-> row.verified]

\* What a request alone with its target knows of the row, and how far what the
\* owner has seen is ahead of the row.
Knows(r, row, seen) ==
    /\ r.pc \in {"idle", "block"} => seen = Shown(row)
    /\ r.pc \in {"sendFound", "verifyFound"} => r.row = row /\ seen = Shown(row)
    /\ r.pc = "insert" => /\ row = Null
                          /\ seen = [code |-> Null, codes |-> 1, wrong |-> 0, right |-> FALSE]
    /\ r.pc = "deliver" => /\ row # Null /\ row.code = r.code
                           /\ seen = [code |-> seen.code, codes |-> row.attempt,
                                      wrong |-> row.retries, right |-> row.verified]
    /\ r.pc = "resend" => /\ row # Null /\ ~Refused(row)
                          /\ seen = [code |-> seen.code, codes |-> r.attempt,
                                     wrong |-> 0, right |-> FALSE]
    /\ r.pc = "wrong" => /\ row # Null /\ ~row.blocked
                         /\ seen = [Shown(row) EXCEPT !.wrong = r.retries]
    /\ r.pc = "right" => row # Null /\ seen = [Shown(row) EXCEPT !.right = TRUE]

\* With no history of overlaps and crashes, at most one request is at work on
\* a target, and nothing has changed since it read the row.
CalmInv ==
    \A t \in Targets : told[t] # Null =>
        /\ \A p, q \in Procs : Busy(p, t) /\ Busy(q, t) => p = q
        /\ Quiet(t) => told[t] = Shown(otp[t])
        /\ \A p \in Procs : Busy(p, t) => Knows(req[p], otp[t], told[t])
=============================================================================
