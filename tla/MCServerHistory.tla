-------------------------- MODULE MCServerHistory --------------------------
(***************************************************************************)
(* Instances of ServerHistory.                                             *)
(***************************************************************************)
EXTENDS ServerHistory

CONSTANTS w1, w2

=============================================================================
