------------------------------ MODULE MCLogin ------------------------------
(* Logins of one account with all its personas. *)
EXTENDS Login

OwnerMC == [p \in Persona |-> CHOOSE u \in User : TRUE]
=============================================================================
