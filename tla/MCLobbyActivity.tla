-------------------------- MODULE MCLobbyActivity --------------------------
(***************************************************************************)
(* Instances of LobbyActivity, to be chosen as Enters.                     *)
(***************************************************************************)
EXTENDS LobbyActivity

CONSTANTS c1, c2, p1, p2

\* Each connection speaks for one player of its own.
OneEach == {<<c1, p1>>, <<c2, p2>>}

\* p1 comes back on c2 while c1 has not been seen to drop yet; or is what the
\* Number() of two database UUIDs comes to on both, NaN.
Reconnecting == {<<c1, p1>>, <<c2, p1>>}

=============================================================================
