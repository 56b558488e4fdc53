------------------------------ MODULE MCLobby ------------------------------
(***************************************************************************)
(* An instance of Lobby: clients without discipline, interchangeable.      *)
(***************************************************************************)
EXTENDS Lobby, TLC

CONSTANTS c1, c2, p1, p2

\* Every connection may speak for every player.
AnyEnters == Conn \X Pid

Symmetric == Permutations({c1, c2}) \cup Permutations({p1, p2})

=============================================================================
