----------------------------- MODULE RequestSlots -----------------------------
(***************************************************************************)
(* Handlers in flight.  A handler runs from await to await, and at every   *)
(* await another may run: a slot carries one request at a time and knows   *)
(* what its handler has in local variables, pc names the query that comes  *)
(* next.                                                                   *)
(***************************************************************************)
CONSTANT Procs      \* request slots

VARIABLE req        \* what each slot's request knows between two awaits

Idle == [pc |-> "idle"]

Goto(p, r) == req' = [req EXCEPT ![p] = r]
=============================================================================
