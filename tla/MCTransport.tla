---------------------------- MODULE MCTransport ----------------------------
(***************************************************************************)
(* Instances of Transport.                                                 *)
(***************************************************************************)
EXTENDS Transport

=============================================================================
