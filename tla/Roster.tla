------------------------------- MODULE Roster -------------------------------
(***************************************************************************)
(* What the lobby promises about who plays where, with none of the         *)
(* machinery: games open and close, a player joins a game that has room    *)
(* and leaves whatever other game it was in within the same step, and      *)
(* players depart.  LobbyManager keeps four Maps to achieve this.          *)
(***************************************************************************)
EXTENDS Integers, FiniteSets, Maps

CONSTANTS Gid,       \* identifiers of games
          Pid,       \* identifiers of players
          Capacity   \* the sizes a host may announce

VARIABLES roster,    \* open game -> the players in it
          capacity   \* open game -> the most players it accepts

rosterVars == <<roster, capacity>>

Init == /\ roster = EmptyMap
        /\ capacity = EmptyMap

\* A host opens a game that has no players yet.
Open(g, cap) == /\ g \notin DOMAIN roster
                /\ roster' = Put(roster, g, {})
                /\ capacity' = Put(capacity, g, cap)

\* Player p enters g and is, from this very step on, in no other game.
Join(g, p) == /\ g \in DOMAIN roster
              /\ Cardinality(roster[g]) < capacity[g]
              /\ roster' = [h \in DOMAIN roster |->
                              IF h = g THEN roster[h] \cup {p}
                                       ELSE roster[h] \ {p}]
              /\ UNCHANGED capacity

\* The games G close and the players P leave the games they are in.
Depart(G, P) == /\ roster' = [g \in DOMAIN roster \ G |-> roster[g] \ P]
                /\ capacity' = Without(capacity, G)

\* One connection hosts at most one indexed game and speaks for at most one
\* indexed player, so a drop closes one game and removes one player; the
\* server's shutdown closes every game.
Next == \/ \E g \in Gid, cap \in Capacity : Open(g, cap)
        \/ \E g \in Gid, p \in Pid : Join(g, p)
        \/ \E g \in Gid, p \in Pid : Depart({g}, {p})
        \/ \E g \in Gid : Depart({g}, {})
        \/ \E p \in Pid : Depart({}, {p})
        \/ Depart(DOMAIN roster, {})

Spec == Init /\ [][Next]_rosterVars

=============================================================================
