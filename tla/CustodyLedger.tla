---------------------------- MODULE CustodyLedger ----------------------------
(***************************************************************************)
(* What the dispatch book promises, with every operation a single step:    *)
(* copies of an issue move only from a holder that has them, one           *)
(* consignment per route moves at a time, and what was taken in is never   *)
(* undone.  Dispatches implements this when its requests run one after the *)
(* other; when they overlap it does not (README, "Findings").              *)
(***************************************************************************)
EXTENDS Integers, Sequences, FiniteSetsExt

CONSTANTS
    Issues, Points,
    Central,      \* the publisher, source of every printed copy
    Routes,       \* the <<from, to>> pairs on which copies may travel
    Origins,      \* points that may send without having taken anything in
    Terminals,    \* points that send nothing on
    TotalCopies   \* printed copies of each issue

VARIABLE book     \* the consignments, in the order they were entered

Entry == [issue : Issues, route : Routes, copies : Nat \ {0}, taken : Nat,
          state : {"moving", "held", "passed", "closed", "void"}]

Source(e) == e.route[1]
Target(e) == e.route[2]

-----------------------------------------------------------------------------

Lines == DOMAIN book

SentFrom(i, n) ==
    SumFunctionOnSet([l \in Lines |-> book[l].copies],
                     {l \in Lines : /\ book[l].issue = i
                                    /\ Source(book[l]) = n
                                    /\ book[l].state # "void"})

TakenAt(i, n) ==
    SumFunctionOnSet([l \in Lines |-> book[l].taken],
                     {l \in Lines : book[l].issue = i /\ Target(book[l]) = n})

Stock(i, n) == (IF n = Central THEN TotalCopies[i] ELSE TakenAt(i, n)) - SentFrom(i, n)

RouteFree(e) ==
    \A l \in Lines : ~ /\ book[l].issue = e.issue
                       /\ book[l].route = e.route
                       /\ book[l].state = "moving"

New(i, r, c) == [issue |-> i, route |-> r, copies |-> c, taken |-> 0, state |-> "moving"]

Send(e) ==
    /\ Source(e) \in Origins \/ e.copies <= Stock(e.issue, Source(e))
    /\ RouteFree(e)
    /\ book' = Append(book, e)

PassOn(l, e) ==
    /\ book[l].state \in {"held", "passed"}
    /\ Source(e) = Target(book[l])
    /\ e.issue = book[l].issue
    /\ e.copies <= Stock(e.issue, Source(e))
    /\ RouteFree(e)
    /\ book' = Append([book EXCEPT ![l].state = "passed"], e)

TakeIn(l, c) ==
    /\ book[l].state = "moving"
    /\ c \in 0..book[l].copies
    /\ book' = [book EXCEPT ![l].state = "held", ![l].taken = c]

Void(l) ==
    /\ book[l].state = "moving"
    /\ book' = [book EXCEPT ![l].state = "void"]

Close(l) ==
    /\ \/ book[l].state = "passed"
       \/ book[l].state = "held" /\ Target(book[l]) \in Terminals
    /\ book' = [book EXCEPT ![l].state = "closed"]

-----------------------------------------------------------------------------

\* A new line is the last of book', and the line that changes, with what it
\* takes in, can be read off book': the steps need no bound on copies.
Next ==
    \/ LET e == book'[Len(book')]
       IN /\ Len(book') = Len(book) + 1
          /\ e \in Entry /\ e.taken = 0 /\ e.state = "moving"
          /\ Send(e) \/ \E l \in Lines : PassOn(l, e)
    \/ \E l \in {k \in Lines : book'[k] # book[k]} :
        \/ TakeIn(l, book'[l].taken)
        \/ Void(l)
        \/ Close(l)

Spec == book = <<>> /\ [][Next]_book
=============================================================================
