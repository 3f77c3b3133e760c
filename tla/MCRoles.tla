------------------------------- MODULE MCRoles --------------------------------
(* Instances of Roles for TLC: a protected role of the seeded administrator, a
   business role, and an id for a role to come. *)
EXTENDS Roles, TLC

CONSTANTS r1, r2, r3, a1, a2

MCSeeds ==
    r1 :> [name |-> "ADMIN", status |-> "Active", protected |-> TRUE, keys |-> Keys]
    @@ r2 :> [name |-> "EDITOR", status |-> "Active", protected |-> FALSE, keys |-> {"view"}]
    @@ r3 :> Null
MCBodies ==
    {[name |-> Null, keys |-> {"view"}], [name |-> Null, keys |-> {"edit"}],
     [name |-> "WRITER", keys |-> {}], [name |-> "WRITER", keys |-> {"view"}],
     [name |-> "EDITOR", keys |-> {"edit"}]}
MCStaff == a1 :> r1 @@ a2 :> Null
MCSymmetry == Permutations(Procs)
=============================================================================
