---------------------------- MODULE MCDirectory ----------------------------
(***************************************************************************)
(* Instances of Directory.                                                 *)
(***************************************************************************)
EXTENDS Directory

CONSTANTS a1, r1, q1

=============================================================================
