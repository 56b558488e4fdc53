--------------------------- MODULE MCCareerStats ---------------------------
(* Personas that share one name; matches credit and take. *)
EXTENDS CareerStats

NameOfMC == [p \in Persona |-> CHOOSE n \in PlayerName : TRUE]
DeltaMC == {-1, 1}
=============================================================================
