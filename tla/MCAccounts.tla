------------------------------ MODULE MCAccounts ------------------------------
(* Instances of Accounts for TLC: two accounts, of which one has images, and
   two e-mail addresses that both may want. *)
EXTENDS Accounts, TLC

CONSTANTS u1, u2, i1, i2

MCContacts ==
    {[email |-> "e1", username |-> None, mobile |-> None],
     [email |-> "e2", username |-> None, mobile |-> "m1"],
     [email |-> None, username |-> "n1", mobile |-> None],
     [email |-> None, username |-> None, mobile |-> "m1"]}
MCUploader == i1 :> u1 @@ i2 :> u1
MCSymmetry == Permutations(Procs) \cup Permutations(Passwords)
=============================================================================
