------------------------------ MODULE MCAccess ------------------------------
(* Instances of Access for TLC: one account and what its role grants. *)
EXTENDS Access, TLC

MCSubjects == {<<"access", 1>>, <<"privileges", 1>>}
MCLifetime == "access" :> 1 @@ "privileges" :> 0 @@ "page" :> 0
=============================================================================
