---------------------------- MODULE StatsLedger ----------------------------
(***************************************************************************)
(* What the statistics promise: a ledger with at most one entry per match  *)
(* key, written once and never changed, and careers that move only by the  *)
(* entry being written, for all its players at once.                       *)
(***************************************************************************)
EXTENDS Integers, Sequences, FiniteSetsExt, Maps

CONSTANTS Match,     \* match keys
          Soldier,   \* names of personas
          Kills,     \* kills a player may have in one match
          MaxPlayers \* bound: the players of one match

VARIABLES ledger,    \* match key -> the players credited for it
          career     \* persona -> its kills

ledgerVars == <<ledger, career>>

\* What the players of one match add to n: a name may occur twice in it.
Earned(n, players) ==
  MapThenSumSet(LAMBDA i : players[i].kills,
                {i \in DOMAIN players : players[i].name = n})

\* The careers after the players of one match have been credited.
Credited(old, players) == [n \in DOMAIN old |-> old[n] + Earned(n, players)]

Init == /\ ledger = EmptyMap
        /\ career = [n \in Soldier |-> 0]

\* A match enters the ledger; everyone in it has a career.
Record(m, players) == /\ m \notin DOMAIN ledger
                      /\ \A i \in DOMAIN players : players[i].name \in DOMAIN career
                      /\ ledger' = Put(ledger, m, players)
                      /\ career' = Credited(career, players)

\* A persona is deleted and its career with it.
Retire(n) == /\ n \in DOMAIN career
             /\ career' = Delete(career, n)
             /\ UNCHANGED ledger

Entry == UNION {[1 .. k -> [name : Soldier, kills : Kills]] :
                  k \in 0 .. MaxPlayers}

Next == \/ \E m \in Match, players \in Entry : Record(m, players)
        \/ \E n \in Soldier : Retire(n)

Spec == Init /\ [][Next]_ledgerVars

=============================================================================
