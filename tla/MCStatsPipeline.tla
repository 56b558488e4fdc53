-------------------------- MODULE MCStatsPipeline --------------------------
(***************************************************************************)
(* Instances of StatsPipeline.  A snapshot is written as the sequence of   *)
(* its players; <<>> is a frame whose gamedata is empty.                   *)
(***************************************************************************)
EXTENDS StatsPipeline

CONSTANTS m1, m2, a, b, u

MCMatch == {m1, m2}
MCMatch1 == {m1}
MCName == {a, b, u}
MCSoldier == {a, b}

P(n, k) == [name |-> n, kills |-> k]

\* Snapshots that grow, u being nobody's persona, or name a and b in the other
\* order, as those of a second server do.
Whole == {<<>>, <<P(a, 1)>>, <<P(a, 2), P(u, 1), P(b, 1)>>, <<P(b, 1), P(a, 1)>>}

\* Two versions of a match; in the second, u only has an account.
Versions == {<<>>, <<P(a, 1), P(b, 1)>>, <<P(b, 2), P(u, 1)>>}

\* One player, known as a user of the site and without a persona.
Unlisted == {<<P(u, 1)>>}

=============================================================================
