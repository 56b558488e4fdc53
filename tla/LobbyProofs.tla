---------------------------- MODULE LobbyProofs ----------------------------
(***************************************************************************)
(* LobbyManager is sound in every reachable state, for every number of     *)
(* connections, players and games, every capacity and every mix of packets *)
(* the clients may send.                                                   *)
(*                                                                         *)
(* The invariants of Lobby are not inductive one by one.  enterGame reuses *)
(* the count it checked before it left the previous game, so the slot      *)
(* argument needs the exactness of the index (the previous game is another *)
(* one); createGame needs the gid to be fresh, which no property says; and *)
(* the counts need finite games.  SoundLobby is their conjunction, and     *)
(* each method of the manager is shown to preserve it.                     *)
(*                                                                         *)
(* The second half is about who is in which game, and who knows it:        *)
(* LobbyManager implements Roster, and a host that can be reached is told  *)
(* of exactly the players of its game; and for clients that keep to one    *)
(* role per connection, connToPlayer is exact, nothing outlives its        *)
(* connection, a drop takes only what is its own and an entry unseats      *)
(* nobody else.  It rests on the soundness, and each of its proofs has the *)
(* same three layers: the effect of each method of LobbyManager on the     *)
(* fields, stated once; what that effect preserves, method by method; and  *)
(* one step per action, most of which say which method the action calls.   *)
(***************************************************************************)
EXTENDS LobbyActivity, MapLemmas, FiniteSetTheorems

\* Some slot of 0 .. max is free or is max, with every slot below it taken: the
\* scan of enterGame always stops.
LEMMA SlotExists ==
  ASSUME NEW taken, NEW max \in Nat
  PROVE  \E s \in 0 .. max : /\ s \notin taken \/ s = max
                             /\ 0 .. (s - 1) \subseteq taken
<1> DEFINE Free   == {s \in 0 .. max : s \notin taken \/ s = max}
           All    == 0 .. max
           Below  == {0 .. (s - 1) : s \in Free}
<1>1. IsFiniteSet(All)
  BY FS_Interval
<1>2. FiniteSubsetsOf(All) = SUBSET All
  BY <1>1, FS_FiniteSubsetsOfFinite
<1>3. IsWellFoundedOn(StrictSubsetOrdering(All), SUBSET All)
  BY <1>2, FS_StrictSubsetOrderingWellFounded
<1>4. Below \subseteq SUBSET All /\ Below # {}
  <2>1. max \in Free
    OBVIOUS
  <2> QED
    BY <2>1
<1>5. PICK B \in Below : \A C \in Below : ~ (<<C, B>> \in StrictSubsetOrdering(All))
  <2> HIDE DEF All, Below
  <2> QED
    BY <1>3, <1>4, WFMin
<1>6. PICK s \in Free : B = 0 .. (s - 1)
  BY <1>5
<1>7. ASSUME NEW t \in 0 .. (s - 1), t \notin taken
      PROVE  FALSE
  <2>1. t \in Free /\ 0 .. (t - 1) \in Below
    BY <1>6, <1>7
  <2>2. 0 .. (t - 1) \subseteq B /\ 0 .. (t - 1) # B
    <3>1. t \in B /\ t \notin 0 .. (t - 1)
      BY <1>6, <1>7
    <3> QED
      BY <3>1, <1>6, <1>7
  <2>3. <<0 .. (t - 1), B>> \in StrictSubsetOrdering(All)
    BY <2>1, <2>2, <1>4 DEF StrictSubsetOrdering
  <2> QED
    BY <1>5, <2>1, <2>3
<1> QED
  BY <1>6, <1>7

\* FirstFree returns such a slot.
LEMMA FirstFreeSlot ==
  ASSUME NEW taken, NEW max \in Nat
  PROVE  LET s == FirstFree(taken, max)
         IN  /\ s \in 0 .. max
             /\ s \notin taken \/ s = max
             /\ 0 .. (s - 1) \subseteq taken
BY SlotExists DEF FirstFree

\* With fewer players than slots the slot found is one of the game's own, and
\* nobody sits in it.
LEMMA FreeSlotInside ==
  ASSUME NEW taken, IsFiniteSet(taken),
         NEW max \in Nat, Cardinality(taken) < max
  PROVE  FirstFree(taken, max) \in 0 .. (max - 1) \ taken
<1>1. ASSUME FirstFree(taken, max) = max
      PROVE  FALSE
  <2>1. 0 .. (max - 1) \subseteq taken
    BY <1>1, FirstFreeSlot
  <2>2. Cardinality(0 .. (max - 1)) <= Cardinality(taken)
    BY <2>1, FS_Subset
  <2>3. Cardinality(0 .. (max - 1)) = max
    BY FS_Interval
  <2>4. Cardinality(taken) \in Nat
    BY FS_CardinalityType
  <2> QED
    BY <2>2, <2>3, <2>4
<1> QED
  BY <1>1, FirstFreeSlot

-----------------------------------------------------------------------------
\* A game the lobby can hold: well typed, finite, its players properly seated.
SoundGame(game) == /\ IsGame(game)
                   /\ IsFiniteSet(DOMAIN game.players)
                   /\ Seated(game)

\* What the type of a game says of each field.
LEMMA GameFields ==
  ASSUME NEW game, IsGame(game)
  PROVE  /\ game.lid \in Lid /\ game.maxPlayers \in Capacity
         /\ game.maxPlayers \in Int
         /\ game.currentPlayers \in Nat
         /\ game.hostConnection \in Conn
         /\ IsMap(game.players, Pid, Player)
         /\ DOMAIN game.players \subseteq Pid
         /\ \A p \in DOMAIN game.players : game.players[p] \in Player
BY LobbyAssumption DEF IsGame, IsMap

\* Replacing the players of a game keeps it a game, with the count of the new
\* players and every other field as before.
LEMMA WithPlayersFields ==
  ASSUME NEW game, IsGame(game),
         NEW players, IsMap(players, Pid, Player), IsFiniteSet(DOMAIN players)
  PROVE  LET new == WithPlayers(game, players)
         IN  /\ IsGame(new)
             /\ new.players = players
             /\ new.currentPlayers = Cardinality(DOMAIN players)
             /\ new.lid = game.lid
             /\ new.maxPlayers = game.maxPlayers
             /\ new.hostConnection = game.hostConnection
BY FS_CardinalityType DEF IsGame, WithPlayers

\* A game that a player leaves stays sound.
LEMMA LeaveSound ==
  ASSUME NEW game, SoundGame(game), NEW p \in DOMAIN game.players
  PROVE  SoundGame(WithPlayers(game, Delete(game.players, p)))
<1> DEFINE rest == Delete(game.players, p)
           new  == WithPlayers(game, rest)
<1>1. /\ DOMAIN rest = DOMAIN game.players \ {p}
      /\ \A q \in DOMAIN rest : rest[q] = game.players[q]
  BY ZenonT(40), DeleteLookup
<1>2. IsMap(rest, Pid, Player)
  BY DeleteType, GameFields DEF SoundGame
<1>3. /\ IsFiniteSet(DOMAIN rest)
      /\ Cardinality(DOMAIN rest) = Cardinality(DOMAIN game.players) - 1
  BY <1>1, FS_RemoveElement DEF SoundGame
<1>4. /\ IsGame(new) /\ new.players = rest
      /\ new.currentPlayers = Cardinality(DOMAIN rest)
      /\ new.maxPlayers = game.maxPlayers
  BY <1>2, <1>3, WithPlayersFields DEF SoundGame
<1>5. Cardinality(DOMAIN rest) <= game.maxPlayers
  BY <1>3, GameFields, FS_CardinalityType DEF SoundGame, Seated
<1> HIDE DEF rest, new
<1>6. Seated(new)
  BY <1>1, <1>4, <1>5 DEF SoundGame, Seated
<1> QED
  BY <1>3, <1>4, <1>6 DEF SoundGame, new, rest

\* A game with room stays sound when a player, new or returning, is given the
\* slot that the scan of enterGame finds.
LEMMA EnterSound ==
  ASSUME NEW game, SoundGame(game), game.currentPlayers < game.maxPlayers,
         NEW p \in Pid, NEW c \in Conn
  PROVE  LET taken  == {game.players[q].slot : q \in DOMAIN game.players}
             player == [slot |-> FirstFree(taken, game.maxPlayers),
                        connection |-> c, score |-> 0]
         IN  SoundGame(WithPlayers(game, Put(game.players, p, player)))
<1> DEFINE taken   == {game.players[q].slot : q \in DOMAIN game.players}
           max     == game.maxPlayers
           slot    == FirstFree(taken, max)
           player  == [slot |-> slot, connection |-> c, score |-> 0]
           players == Put(game.players, p, player)
           new     == WithPlayers(game, players)
<1>1. /\ IsFiniteSet(DOMAIN game.players)
      /\ game.currentPlayers = Cardinality(DOMAIN game.players)
      /\ game.currentPlayers \in Nat /\ max \in Nat
  BY GameFields DEF SoundGame, Seated
<1>2. IsFiniteSet(taken) /\ Cardinality(taken) <= Cardinality(DOMAIN game.players)
  <2> DEFINE f == [q \in DOMAIN game.players |-> game.players[q].slot]
  <2>1. f \in Surjection(DOMAIN game.players, taken)
    BY DEF Surjection
  <2> HIDE DEF f, taken
  <2> QED
    BY <1>1, <2>1, FS_Surjection
<1>3. slot \in 0 .. (max - 1) \ taken
  <2>1. Cardinality(taken) < max
    BY <1>1, <1>2, FS_CardinalityType
  <2> HIDE DEF taken, max
  <2> QED
    BY <1>1, <1>2, <2>1, FreeSlotInside
<1> HIDE DEF slot
<1>4. player \in Player
  BY <1>1, <1>3, LobbyAssumption DEF Player
<1> HIDE DEF player
<1>5. /\ IsMap(players, Pid, Player)
      /\ DOMAIN players = DOMAIN game.players \cup {p}
      /\ players[p] = player
      /\ \A q \in DOMAIN game.players : q # p => players[q] = game.players[q]
  <2>1. IsMap(game.players, Pid, Player)
    BY GameFields DEF SoundGame
  <2>2. IsMap(players, Pid, Player)
    BY <1>4, <2>1, PutType
  <2>3. /\ DOMAIN players = DOMAIN game.players \cup {p}
        /\ players[p] = player
        /\ \A q \in DOMAIN game.players : q # p => players[q] = game.players[q]
    BY DEF Put
  <2> QED
    BY <2>2, <2>3
<1> HIDE DEF players
<1>6. /\ IsFiniteSet(DOMAIN players)
      /\ Cardinality(DOMAIN players) <= Cardinality(DOMAIN game.players) + 1
  <2> DEFINE before == DOMAIN game.players
  <2> HIDE DEF before
  <2>1. IsFiniteSet(before) /\ Cardinality(before) \in Nat
    BY <1>1, FS_CardinalityType DEF before
  <2>2. /\ IsFiniteSet(before \cup {p})
        /\ Cardinality(before \cup {p}) =
             IF p \in before THEN Cardinality(before) ELSE Cardinality(before) + 1
    BY <2>1, FS_AddElement, Zenon
  <2>3. Cardinality(before \cup {p}) <= Cardinality(before) + 1
    BY <2>1, <2>2
  <2>4. before \cup {p} = DOMAIN players
    BY <1>5 DEF before
  <2> QED
    BY <2>2, <2>3, <2>4, Zenon DEF before
<1>7. /\ IsGame(new) /\ new.players = players
      /\ new.currentPlayers = Cardinality(DOMAIN players)
      /\ new.maxPlayers = max
  BY <1>5, <1>6, WithPlayersFields DEF SoundGame
<1> HIDE DEF new
<1>8. Cardinality(DOMAIN players) <= max
  BY <1>1, <1>6, FS_CardinalityType
<1>9. \A q \in DOMAIN players : q # p => /\ players[q].slot \in taken
                                         /\ players[q].slot < max
  BY <1>5 DEF SoundGame, Seated
<1>10. players[p].slot = slot
  BY <1>5 DEF player
<1>11. \A q, r \in DOMAIN players : q # r => players[q].slot # players[r].slot
  <2> SUFFICES ASSUME NEW q \in DOMAIN players, NEW r \in DOMAIN players, q # r
               PROVE  players[q].slot # players[r].slot
    OBVIOUS
  <2>1. CASE q = p \/ r = p
    BY <2>1, <1>3, <1>9, <1>10
  <2>2. CASE q # p /\ r # p
    BY <2>2, <1>5 DEF SoundGame, Seated
  <2> QED
    BY <2>1, <2>2
<1>12. Seated(new)
  <2>1. players[p].slot < max
    BY <1>1, <1>3, <1>10
  <2> QED
    BY <1>7, <1>8, <1>9, <1>11, <2>1 DEF Seated
<1> QED
  BY <1>6, <1>7, <1>12 DEF SoundGame, new, players, player, slot

-----------------------------------------------------------------------------
\* The games of L and how the indexes and the counts refer to them.
GamesSound(L)  == \A g \in DOMAIN L.games : SoundGame(L.games[g])
FreshGid(L)    == \A g \in DOMAIN L.games : g < L.nextGid
CountsExact(L) == L.numGames = LobbyCounts(L.games)

SoundLobby(L) == /\ LobbyType(L)
                 /\ GamesSound(L)
                 /\ IndexExact(L)
                 /\ HostsSound(L)
                 /\ FreshGid(L)
                 /\ CountsExact(L)

\* The type of the manager's fields, without the one sort of records that L is.
LEMMA LobbyFields ==
  ASSUME NEW L, LobbyType(L)
  PROVE  /\ L = [games |-> L.games, playerToGame |-> L.playerToGame,
                 connToGameHost |-> L.connToGameHost,
                 connToPlayer |-> L.connToPlayer, nextGid |-> L.nextGid,
                 numGames |-> L.numGames, told |-> L.told]
         /\ L.games = [g \in DOMAIN L.games |-> L.games[g]]
         /\ DOMAIN L.games \subseteq Gid
         /\ \A g \in DOMAIN L.games : IsGame(L.games[g])
         /\ IsMap(L.playerToGame, Pid, Gid)
         /\ IsMap(L.connToGameHost, Conn, Gid)
         /\ IsMap(L.connToPlayer, Conn, [gid : Gid, pid : Pid])
         /\ L.nextGid \in 1 .. (MaxGid + 1)
         /\ L.numGames \in [LobbyIds -> Nat]
         /\ IsMap(L.told, Gid, SUBSET Pid)
         /\ DOMAIN L.told = DOMAIN L.games
BY DEF LobbyType, IsMap

\* Fields of the right types make a well typed manager.
LEMMA LobbyTypeIntro ==
  ASSUME NEW games, NEW playerToGame, NEW connToGameHost, NEW connToPlayer,
         NEW nextGid, NEW numGames, NEW told,
         games = [g \in DOMAIN games |-> games[g]],
         DOMAIN games \subseteq Gid,
         \A g \in DOMAIN games : IsGame(games[g]),
         IsMap(playerToGame, Pid, Gid),
         IsMap(connToGameHost, Conn, Gid),
         IsMap(connToPlayer, Conn, [gid : Gid, pid : Pid]),
         nextGid \in 1 .. (MaxGid + 1),
         numGames \in [LobbyIds -> Nat],
         IsMap(told, Gid, SUBSET Pid),
         DOMAIN told = DOMAIN games
  PROVE  LobbyType([games |-> games, playerToGame |-> playerToGame,
                    connToGameHost |-> connToGameHost,
                    connToPlayer |-> connToPlayer, nextGid |-> nextGid,
                    numGames |-> numGames, told |-> told])
<1>1. IsMap(games, Gid, {games[g] : g \in DOMAIN games})
  BY DEF IsMap
<1> QED
  BY <1>1 DEF LobbyType

\* updateLobbyCounts computes a natural number for each lobby.
LEMMA LobbyCountsType ==
  ASSUME NEW games, DOMAIN games \subseteq Gid
  PROVE  LobbyCounts(games) \in [LobbyIds -> Nat]
<1> DEFINE Of(l) == {g \in DOMAIN games : games[g].lid = l}
<1>1. IsFiniteSet(Gid)
  BY LobbyAssumption, FS_Interval DEF Gid
<1>2. ASSUME NEW l \in LobbyIds
      PROVE  Cardinality(Of(l)) \in Nat
  <2>1. Of(l) \in SUBSET Gid
    OBVIOUS
  <2>2. IsFiniteSet(Of(l))
    BY <1>1, <2>1, FS_Subset
  <2> QED
    BY <2>2, FS_CardinalityType
<1> QED
  BY <1>2 DEF LobbyCounts

-----------------------------------------------------------------------------
\* Replacing a game by one of the same lobby leaves the counts alone.
LEMMA SameCounts ==
  ASSUME NEW games, NEW g \in DOMAIN games, NEW new, new.lid = games[g].lid
  PROVE  LobbyCounts(Put(games, g, new)) = LobbyCounts(games)
<1> DEFINE next == Put(games, g, new)
<1>1. /\ DOMAIN next = DOMAIN games
      /\ \A h \in DOMAIN games : next[h].lid = games[h].lid
  BY DEF Put
<1> HIDE DEF next
<1>2. \A l : {h \in DOMAIN next : next[h].lid = l} =
             {h \in DOMAIN games : games[h].lid = l}
  BY <1>1
<1> QED
  BY <1>2 DEF LobbyCounts, next

\* removePlayer keeps the lobby sound, for a player in the game or not.
LEMMA RemovePlayerSound ==
  ASSUME NEW L, SoundLobby(L), NEW alive, NEW g, NEW p
  PROVE  SoundLobby(RemovePlayer(L, alive, g, p))
<1> DEFINE game == L.games[g]
           rest == Delete(game.players, p)
           new  == WithPlayers(game, rest)
           told == IF game.hostConnection \in alive
                     THEN Put(L.told, g, L.told[g] \ {p}) ELSE L.told
           pc   == game.players[p].connection
           M    == RemovePlayer(L, alive, g, p)
<1>1. CASE ~InGame(L, g, p)
  BY <1>1 DEF RemovePlayer
<1>2. CASE InGame(L, g, p)
  <2>1. /\ g \in DOMAIN L.games /\ p \in DOMAIN game.players
        /\ SoundGame(game) /\ LobbyType(L)
    BY <1>2 DEF InGame, SoundLobby, GamesSound
  <2>2. M = [games |-> Put(L.games, g, new),
             playerToGame |-> Delete(L.playerToGame, p),
             connToGameHost |-> L.connToGameHost,
             connToPlayer |-> Delete(L.connToPlayer, pc),
             nextGid |-> L.nextGid, numGames |-> L.numGames, told |-> told]
    <3>1. M = [L EXCEPT !.games = Put(L.games, g, new),
                        !.playerToGame = Delete(L.playerToGame, p),
                        !.connToPlayer = Delete(L.connToPlayer, pc),
                        !.told = told]
      BY <1>2 DEF RemovePlayer
    <3>2. L = [games |-> L.games, playerToGame |-> L.playerToGame,
               connToGameHost |-> L.connToGameHost,
               connToPlayer |-> L.connToPlayer, nextGid |-> L.nextGid,
               numGames |-> L.numGames, told |-> L.told]
      BY <2>1, LobbyFields
    <3> HIDE DEF M, new, rest, told, pc, game
    <3> QED
      BY <3>1, <3>2
  <2> HIDE DEF M
  <2>3. /\ M.games = Put(L.games, g, new)
        /\ M.playerToGame = Delete(L.playerToGame, p)
        /\ M.connToGameHost = L.connToGameHost
        /\ M.connToPlayer = Delete(L.connToPlayer, pc)
        /\ M.nextGid = L.nextGid /\ M.numGames = L.numGames /\ M.told = told
        /\ M = [games |-> M.games, playerToGame |-> M.playerToGame,
                connToGameHost |-> M.connToGameHost,
                connToPlayer |-> M.connToPlayer, nextGid |-> M.nextGid,
                numGames |-> M.numGames, told |-> M.told]
    BY <2>2
  <2>4. /\ DOMAIN rest = DOMAIN game.players \ {p}
        /\ \A q \in DOMAIN rest : rest[q] = game.players[q]
    BY DEF Delete, Without
  <2>5. /\ SoundGame(new) /\ new.players = rest
        /\ new.lid = game.lid /\ new.hostConnection = game.hostConnection
    <3>1. IsMap(game.players, Pid, Player) /\ IsFiniteSet(DOMAIN game.players)
      BY <2>1, GameFields DEF SoundGame
    <3>2. IsMap(rest, Pid, Player)
      BY <3>1 DEF IsMap, Delete, Without
    <3>3. IsFiniteSet(DOMAIN rest)
      BY <2>4, <3>1, FS_RemoveElement
    <3>4. SoundGame(new)
      BY <2>1, LeaveSound
    <3> HIDE DEF rest
    <3> QED
      BY <2>1, <3>2, <3>3, <3>4, WithPlayersFields DEF SoundGame
  <2> HIDE DEF rest, new
  <2>6. /\ DOMAIN M.games = DOMAIN L.games
        /\ M.games = [h \in DOMAIN M.games |-> M.games[h]]
        /\ M.games[g] = new
        /\ \A h \in DOMAIN L.games : h # g => M.games[h] = L.games[h]
    BY <2>1, <2>3 DEF Put
  <2>7. /\ DOMAIN M.playerToGame = DOMAIN L.playerToGame \ {p}
        /\ \A q \in DOMAIN M.playerToGame : M.playerToGame[q] = L.playerToGame[q]
    BY <2>3 DEF Delete, Without
  <2>8. LobbyCounts(M.games) = LobbyCounts(L.games)
    <3>1. LobbyCounts(Put(L.games, g, new)) = LobbyCounts(L.games)
      BY <2>1, <2>5, SameCounts
    <3> QED
      BY <2>3, <3>1
  <2>9. GamesSound(M)
    BY <2>1, <2>5, <2>6 DEF SoundLobby, GamesSound
  <2>10. LobbyType(M)
    <3>1. /\ IsMap(L.playerToGame, Pid, Gid)
          /\ IsMap(L.connToGameHost, Conn, Gid)
          /\ IsMap(L.connToPlayer, Conn, [gid : Gid, pid : Pid])
          /\ IsMap(L.told, Gid, SUBSET Pid) /\ DOMAIN L.told = DOMAIN L.games
          /\ L.nextGid \in 1 .. (MaxGid + 1)
          /\ L.numGames \in [LobbyIds -> Nat]
          /\ DOMAIN L.games \subseteq Gid
      BY <2>1, LobbyFields
    <3>2. /\ IsMap(M.playerToGame, Pid, Gid)
          /\ IsMap(M.connToPlayer, Conn, [gid : Gid, pid : Pid])
      BY <2>3, <3>1, DeleteType
    <3>3. IsMap(M.told, Gid, SUBSET Pid) /\ DOMAIN M.told = DOMAIN L.games
      BY <2>1, <2>3, <3>1 DEF IsMap, Put
    <3>4. \A h \in DOMAIN M.games : IsGame(M.games[h])
      BY <2>9 DEF GamesSound, SoundGame
    <3>5. LobbyType([games |-> M.games, playerToGame |-> M.playerToGame,
               connToGameHost |-> M.connToGameHost,
               connToPlayer |-> M.connToPlayer, nextGid |-> M.nextGid,
               numGames |-> M.numGames, told |-> M.told])
      BY <2>3, <2>6, <3>1, <3>2, <3>3, <3>4, LobbyTypeIntro
    <3> QED
      BY <2>3, <3>5, Zenon
  <2>11. IndexExact(M)
    BY <2>1, <2>4, <2>5, <2>6, <2>7 DEF SoundLobby, IndexExact, InGame
  <2>12. HostsSound(M) /\ FreshGid(M) /\ CountsExact(M)
    BY <2>1, <2>3, <2>5, <2>6, <2>8
       DEF SoundLobby, HostsSound, FreshGid, CountsExact
  <2> QED
    BY <2>9, <2>10, <2>11, <2>12 DEF SoundLobby, M
<1> QED
  BY <1>1, <1>2

\* removeGame keeps the lobby sound, for a game that exists or not.
LEMMA RemoveGameSound ==
  ASSUME NEW L, SoundLobby(L), NEW g
  PROVE  SoundLobby(RemoveGame(L, g))
<1> DEFINE game    == L.games[g]
           members == DOMAIN game.players
           conns   == {game.players[p].connection : p \in members}
           host    == game.hostConnection
           games   == Delete(L.games, g)
           M       == RemoveGame(L, g)
<1>1. CASE g \notin DOMAIN L.games
  BY <1>1 DEF RemoveGame
<1>2. CASE g \in DOMAIN L.games
  <2>1. /\ LobbyType(L) /\ SoundGame(game)
        /\ L = [games |-> L.games, playerToGame |-> L.playerToGame,
                connToGameHost |-> L.connToGameHost,
                connToPlayer |-> L.connToPlayer, nextGid |-> L.nextGid,
                numGames |-> L.numGames, told |-> L.told]
    BY <1>2, LobbyFields DEF SoundLobby, GamesSound
  <2>2. M = [L EXCEPT !.games = games,
                      !.playerToGame = Without(L.playerToGame, members),
                      !.connToPlayer = Without(L.connToPlayer, conns),
                      !.connToGameHost = Delete(L.connToGameHost, host),
                      !.numGames = LobbyCounts(games),
                      !.told = Delete(L.told, g)]
    BY <1>2 DEF RemoveGame
  <2> HIDE DEF M, conns, games
  <2>3. /\ M.games = games
        /\ M.playerToGame = Without(L.playerToGame, members)
        /\ M.connToGameHost = Delete(L.connToGameHost, host)
        /\ M.connToPlayer = Without(L.connToPlayer, conns)
        /\ M.nextGid = L.nextGid
        /\ M.numGames = LobbyCounts(games)
        /\ M.told = Delete(L.told, g)
        /\ M = [games |-> M.games, playerToGame |-> M.playerToGame,
                connToGameHost |-> M.connToGameHost,
                connToPlayer |-> M.connToPlayer, nextGid |-> M.nextGid,
                numGames |-> M.numGames, told |-> M.told]
    <3> HIDE DEF game, members, host
    <3> QED
      BY <2>1, <2>2
  <2>4. /\ DOMAIN games = DOMAIN L.games \ {g}
        /\ games = [h \in DOMAIN games |-> games[h]]
        /\ \A h \in DOMAIN games : games[h] = L.games[h]
    BY DEF games, Delete, Without
  <2>5. /\ DOMAIN M.playerToGame = DOMAIN L.playerToGame \ members
        /\ \A q \in DOMAIN M.playerToGame : M.playerToGame[q] = L.playerToGame[q]
    BY <2>3 DEF Without
  <2>6. /\ DOMAIN M.connToGameHost = DOMAIN L.connToGameHost \ {host}
        /\ \A d \in DOMAIN M.connToGameHost :
             M.connToGameHost[d] = L.connToGameHost[d]
    BY <2>3 DEF Delete, Without
  <2>7. GamesSound(M)
    BY <2>3, <2>4 DEF SoundLobby, GamesSound
  <2>8. LobbyType(M)
    <3>1. /\ IsMap(L.playerToGame, Pid, Gid)
          /\ IsMap(L.connToGameHost, Conn, Gid)
          /\ IsMap(L.connToPlayer, Conn, [gid : Gid, pid : Pid])
          /\ IsMap(L.told, Gid, SUBSET Pid) /\ DOMAIN L.told = DOMAIN L.games
          /\ L.nextGid \in 1 .. (MaxGid + 1)
          /\ DOMAIN L.games \subseteq Gid
      BY <2>1, LobbyFields
    <3>2. /\ IsMap(M.playerToGame, Pid, Gid)
          /\ IsMap(M.connToGameHost, Conn, Gid)
          /\ IsMap(M.connToPlayer, Conn, [gid : Gid, pid : Pid])
      BY <2>3, <3>1 DEF IsMap, Delete, Without
    <3>3. IsMap(M.told, Gid, SUBSET Pid) /\ DOMAIN M.told = DOMAIN M.games
      BY <2>3, <2>4, <3>1 DEF IsMap, Delete, Without
    <3>4. M.numGames \in [LobbyIds -> Nat]
      BY <2>3, <2>4, <3>1, LobbyCountsType
    <3>5. \A h \in DOMAIN M.games : IsGame(M.games[h])
      BY <2>7 DEF GamesSound, SoundGame
    <3>6. LobbyType([games |-> M.games, playerToGame |-> M.playerToGame,
               connToGameHost |-> M.connToGameHost,
               connToPlayer |-> M.connToPlayer, nextGid |-> M.nextGid,
               numGames |-> M.numGames, told |-> M.told])
      <4>1. DOMAIN M.games \subseteq Gid
            /\ M.games = [h \in DOMAIN M.games |-> M.games[h]]
            /\ M.nextGid \in 1 .. (MaxGid + 1)
        BY <2>3, <2>4, <3>1
      <4> QED
        BY <3>2, <3>3, <3>4, <3>5, <4>1, LobbyTypeIntro
    <3>7. M = [games |-> M.games, playerToGame |-> M.playerToGame,
               connToGameHost |-> M.connToGameHost,
               connToPlayer |-> M.connToPlayer, nextGid |-> M.nextGid,
               numGames |-> M.numGames, told |-> M.told]
      BY <2>3
    <3> QED
      BY ONLY <3>6, <3>7, Zenon
  <2>9. IndexExact(M)
    BY <1>2, <2>3, <2>4, <2>5 DEF SoundLobby, IndexExact, InGame
  <2>10. HostsSound(M)
    BY <2>3, <2>4, <2>6 DEF SoundLobby, HostsSound
  <2>11. FreshGid(M) /\ CountsExact(M)
    BY <2>3, <2>4 DEF SoundLobby, FreshGid, CountsExact
  <2> QED
    BY <2>7, <2>8, <2>9, <2>10, <2>11 DEF SoundLobby, M
<1> QED
  BY <1>1, <1>2

\* createGame keeps the lobby sound: its gid is fresh, so that no player or
\* host is in the index for it.
LEMMA CreateGameSound ==
  ASSUME NEW L, SoundLobby(L), L.nextGid \in Gid,
         NEW c \in Conn, NEW lid \in Lid, NEW max \in Capacity
  PROVE  SoundLobby(CreateGame(L, c, lid, max))
<1> DEFINE g     == L.nextGid
           game  == [lid |-> lid, maxPlayers |-> max, currentPlayers |-> 0,
                     hostConnection |-> c, players |-> EmptyMap]
           games == Put(L.games, g, game)
           M     == CreateGame(L, c, lid, max)
<1>1. /\ LobbyType(L)
      /\ L = [games |-> L.games, playerToGame |-> L.playerToGame,
              connToGameHost |-> L.connToGameHost,
              connToPlayer |-> L.connToPlayer, nextGid |-> L.nextGid,
              numGames |-> L.numGames, told |-> L.told]
  BY LobbyFields DEF SoundLobby
<1>2. M = [L EXCEPT !.games = games,
                    !.connToGameHost = Put(L.connToGameHost, c, g),
                    !.nextGid = g + 1,
                    !.numGames = LobbyCounts(games),
                    !.told = Put(L.told, g, {})]
  BY DEF CreateGame
<1>3. SoundGame(game)
  <2>1. DOMAIN EmptyMap = {} /\ IsMap(EmptyMap, Pid, Player)
    BY EmptyMapType
  <2>2. IsFiniteSet(DOMAIN EmptyMap) /\ Cardinality(DOMAIN EmptyMap) = 0
    BY <2>1, FS_EmptySet
  <2>3. IsGame(game)
    BY <2>1 DEF IsGame
  <2>4. Seated(game)
    BY <2>1, <2>2 DEF Seated
  <2> QED
    BY <2>2, <2>3, <2>4 DEF SoundGame
<1>4. game.players = EmptyMap /\ DOMAIN game.players = {}
      /\ game.hostConnection = c
  BY EmptyMapType
<1> HIDE DEF M, game, games
<1>5. /\ M.games = games
      /\ M.playerToGame = L.playerToGame
      /\ M.connToGameHost = Put(L.connToGameHost, c, g)
      /\ M.connToPlayer = L.connToPlayer
      /\ M.nextGid = g + 1
      /\ M.numGames = LobbyCounts(games)
      /\ M.told = Put(L.told, g, {})
      /\ M = [games |-> M.games, playerToGame |-> M.playerToGame,
              connToGameHost |-> M.connToGameHost,
              connToPlayer |-> M.connToPlayer, nextGid |-> M.nextGid,
              numGames |-> M.numGames, told |-> M.told]
  BY <1>1, <1>2
<1>6. /\ DOMAIN games = DOMAIN L.games \cup {g}
      /\ games = [h \in DOMAIN games |-> games[h]]
      /\ games[g] = game
      /\ \A h \in DOMAIN L.games : h # g => games[h] = L.games[h]
  BY DEF games, Put
<1>7. g \notin DOMAIN L.games /\ DOMAIN L.games \subseteq Gid
  <2>1. DOMAIN L.games \subseteq Gid
    BY <1>1, LobbyFields
  <2>2. \A h \in DOMAIN L.games : h < g
    BY DEF SoundLobby, FreshGid
  <2>3. ~ (g < g)
    BY DEF Gid
  <2> QED
    BY <2>1, <2>2, <2>3
<1>8. GamesSound(M)
  BY <1>3, <1>5, <1>6 DEF SoundLobby, GamesSound
<1>9. LobbyType(M)
  <2>1. /\ IsMap(L.playerToGame, Pid, Gid)
        /\ IsMap(L.connToGameHost, Conn, Gid)
        /\ IsMap(L.connToPlayer, Conn, [gid : Gid, pid : Pid])
        /\ IsMap(L.told, Gid, SUBSET Pid) /\ DOMAIN L.told = DOMAIN L.games
        /\ L.nextGid \in 1 .. (MaxGid + 1)
    BY <1>1, LobbyFields
  <2>2. /\ IsMap(M.connToGameHost, Conn, Gid)
        /\ IsMap(M.told, Gid, SUBSET Pid)
        /\ DOMAIN M.told = DOMAIN M.games
    BY <1>5, <1>6, <2>1 DEF IsMap, Put
  <2>3. M.nextGid \in 1 .. (MaxGid + 1)
    BY <1>5, LobbyAssumption DEF Gid
  <2>4. M.numGames \in [LobbyIds -> Nat]
    BY <1>5, <1>6, <1>7, LobbyCountsType
  <2>5. \A h \in DOMAIN M.games : IsGame(M.games[h])
    BY <1>8 DEF GamesSound, SoundGame
  <2>6. LobbyType([games |-> M.games, playerToGame |-> M.playerToGame,
             connToGameHost |-> M.connToGameHost,
             connToPlayer |-> M.connToPlayer, nextGid |-> M.nextGid,
             numGames |-> M.numGames, told |-> M.told])
    <3> HIDE DEF g
    <3>1. DOMAIN M.games \subseteq Gid
      BY <1>5, <1>6, <1>7 DEF g
    <3> QED
      BY <1>5, <1>6, <2>1, <2>2, <2>3, <2>4, <2>5, <3>1, LobbyTypeIntro
  <2> QED
    BY <1>5, <2>6, Zenon
<1>10. IndexExact(M)
  BY <1>4, <1>5, <1>6, <1>7 DEF SoundLobby, IndexExact, InGame
<1>11. HostsSound(M)
  <2>1. /\ DOMAIN M.connToGameHost = DOMAIN L.connToGameHost \cup {c}
        /\ M.connToGameHost[c] = g
        /\ \A d \in DOMAIN L.connToGameHost :
             d # c => M.connToGameHost[d] = L.connToGameHost[d]
    BY <1>5 DEF Put
  <2> QED
    BY <1>4, <1>5, <1>6, <1>7, <2>1 DEF SoundLobby, HostsSound
<1>12. FreshGid(M) /\ CountsExact(M)
  BY <1>5, <1>6, <1>7 DEF SoundLobby, FreshGid, CountsExact, Gid
<1> QED
  BY <1>8, <1>9, <1>10, <1>11, <1>12 DEF SoundLobby, M

\* Seating a player who is in no other game keeps the lobby sound.
LEMMA SeatSound ==
  ASSUME NEW L, SoundLobby(L), NEW alive, NEW g \in DOMAIN L.games,
         L.games[g].currentPlayers < L.games[g].maxPlayers,
         NEW c \in Conn, NEW p \in Pid,
         p \in DOMAIN L.playerToGame => L.playerToGame[p] = g
  PROVE  SoundLobby(Seat(L, alive, g, c, p))
<1> DEFINE game    == L.games[g]
           taken   == {game.players[q].slot : q \in DOMAIN game.players}
           player  == [slot |-> FirstFree(taken, game.maxPlayers),
                       connection |-> c, score |-> 0]
           players == Put(game.players, p, player)
           new     == WithPlayers(game, players)
           told    == IF game.hostConnection \in alive
                        THEN Put(L.told, g, L.told[g] \cup {p}) ELSE L.told
           M       == Seat(L, alive, g, c, p)
<1>1. /\ LobbyType(L) /\ SoundGame(game)
      /\ L = [games |-> L.games, playerToGame |-> L.playerToGame,
              connToGameHost |-> L.connToGameHost,
              connToPlayer |-> L.connToPlayer, nextGid |-> L.nextGid,
              numGames |-> L.numGames, told |-> L.told]
  BY LobbyFields DEF SoundLobby, GamesSound
<1>2. M = [L EXCEPT !.games = Put(L.games, g, new),
                    !.playerToGame = Put(L.playerToGame, p, g),
                    !.connToPlayer = Put(L.connToPlayer, c, [gid |-> g, pid |-> p]),
                    !.told = told]
  BY DEF Seat
<1>3. SoundGame(new)
  BY <1>1, EnterSound
<1>4. /\ new.players = players /\ DOMAIN players = DOMAIN game.players \cup {p}
      /\ new.lid = game.lid /\ new.hostConnection = game.hostConnection
  <2>1. DOMAIN players = DOMAIN game.players \cup {p}
    BY DEF Put
  <2> HIDE DEF players
  <2>2. game \in [lid : Lid, maxPlayers : Capacity, currentPlayers : Nat,
                  hostConnection : Conn, players : {game.players}]
    BY <1>1 DEF SoundGame, IsGame
  <2> HIDE DEF game
  <2>3. /\ new.players = players
        /\ new.lid = game.lid /\ new.hostConnection = game.hostConnection
    BY <2>2 DEF WithPlayers
  <2> QED
    BY <2>1, <2>3 DEF game
<1> HIDE DEF M, new, players
<1>5. /\ M.games = Put(L.games, g, new)
      /\ M.playerToGame = Put(L.playerToGame, p, g)
      /\ M.connToGameHost = L.connToGameHost
      /\ M.connToPlayer = Put(L.connToPlayer, c, [gid |-> g, pid |-> p])
      /\ M.nextGid = L.nextGid /\ M.numGames = L.numGames /\ M.told = told
      /\ M = [games |-> M.games, playerToGame |-> M.playerToGame,
              connToGameHost |-> M.connToGameHost,
              connToPlayer |-> M.connToPlayer, nextGid |-> M.nextGid,
              numGames |-> M.numGames, told |-> M.told]
  <2> HIDE DEF told, game
  <2> QED
    BY <1>1, <1>2
<1>6. /\ DOMAIN M.games = DOMAIN L.games
      /\ M.games = [h \in DOMAIN M.games |-> M.games[h]]
      /\ M.games[g] = new
      /\ \A h \in DOMAIN L.games : h # g => M.games[h] = L.games[h]
  BY <1>5 DEF Put
<1>7. /\ DOMAIN M.playerToGame = DOMAIN L.playerToGame \cup {p}
      /\ M.playerToGame[p] = g
      /\ \A q \in DOMAIN L.playerToGame :
           q # p => M.playerToGame[q] = L.playerToGame[q]
  BY <1>5 DEF Put
<1>8. LobbyCounts(M.games) = LobbyCounts(L.games)
  <2>1. LobbyCounts(Put(L.games, g, new)) = LobbyCounts(L.games)
    BY <1>4, SameCounts
  <2> QED
    BY <1>5, <2>1
<1>9. GamesSound(M)
  BY <1>3, <1>6 DEF SoundLobby, GamesSound
<1>10. LobbyType(M)
  <2>1. /\ IsMap(L.playerToGame, Pid, Gid)
        /\ IsMap(L.connToGameHost, Conn, Gid)
        /\ IsMap(L.connToPlayer, Conn, [gid : Gid, pid : Pid])
        /\ IsMap(L.told, Gid, SUBSET Pid) /\ DOMAIN L.told = DOMAIN L.games
        /\ L.nextGid \in 1 .. (MaxGid + 1)
        /\ L.numGames \in [LobbyIds -> Nat]
        /\ DOMAIN L.games \subseteq Gid
    BY <1>1, LobbyFields
  <2>2. IsMap(M.playerToGame, Pid, Gid)
    BY <1>5, <2>1 DEF IsMap, Put
  <2>3. IsMap(M.connToPlayer, Conn, [gid : Gid, pid : Pid])
    BY <1>5, <2>1 DEF IsMap, Put
  <2>4. IsMap(M.told, Gid, SUBSET Pid) /\ DOMAIN M.told = DOMAIN L.games
    BY <1>5, <2>1 DEF IsMap, Put
  <2>5. \A h \in DOMAIN M.games : IsGame(M.games[h])
    BY <1>9 DEF GamesSound, SoundGame
  <2>6. LobbyType([games |-> M.games, playerToGame |-> M.playerToGame,
             connToGameHost |-> M.connToGameHost,
             connToPlayer |-> M.connToPlayer, nextGid |-> M.nextGid,
             numGames |-> M.numGames, told |-> M.told])
    BY <1>5, <1>6, <2>1, <2>2, <2>3, <2>4, <2>5, LobbyTypeIntro
  <2> QED
    BY <1>5, <2>6, Zenon
<1>11. IndexExact(M)
  BY <1>4, <1>6, <1>7 DEF SoundLobby, IndexExact, InGame
<1>12. HostsSound(M) /\ FreshGid(M) /\ CountsExact(M)
  BY <1>4, <1>5, <1>6, <1>8 DEF SoundLobby, HostsSound, FreshGid, CountsExact
<1> QED
  BY <1>9, <1>10, <1>11, <1>12 DEF SoundLobby, M

\* removePlayer on one game leaves every other game as it was and takes the
\* player out of the index.
LEMMA RemovePlayerElsewhere ==
  ASSUME NEW L, SoundLobby(L), NEW alive, NEW h, NEW p, InGame(L, h, p)
  PROVE  LET M == RemovePlayer(L, alive, h, p)
         IN  /\ p \notin DOMAIN M.playerToGame
             /\ DOMAIN M.games = DOMAIN L.games
             /\ \A g \in DOMAIN L.games : g # h => M.games[g] = L.games[g]
<1> DEFINE game == L.games[h]
           new  == WithPlayers(game, Delete(game.players, p))
           told == IF game.hostConnection \in alive
                     THEN Put(L.told, h, L.told[h] \ {p}) ELSE L.told
           pc   == game.players[p].connection
           M    == RemovePlayer(L, alive, h, p)
<1>1. M = [L EXCEPT !.games = Put(L.games, h, new),
                    !.playerToGame = Delete(L.playerToGame, p),
                    !.connToPlayer = Delete(L.connToPlayer, pc),
                    !.told = told]
  BY DEF RemovePlayer
<1>2. L = [games |-> L.games, playerToGame |-> L.playerToGame,
           connToGameHost |-> L.connToGameHost,
           connToPlayer |-> L.connToPlayer, nextGid |-> L.nextGid,
           numGames |-> L.numGames, told |-> L.told]
  BY LobbyFields DEF SoundLobby
<1>3. h \in DOMAIN L.games
  BY DEF InGame
<1> HIDE DEF M, new, told, pc, game
<1>4. /\ M.games = Put(L.games, h, new)
      /\ M.playerToGame = Delete(L.playerToGame, p)
  BY <1>1, <1>2
<1> QED
  BY <1>3, <1>4 DEF Put, Delete, Without, M

\* enterGame keeps the lobby sound: what it leaves behind in the previous game
\* does not touch the game whose room was checked.
LEMMA EnterGameSound ==
  ASSUME NEW L, SoundLobby(L), NEW alive, NEW g \in DOMAIN L.games,
         L.games[g].currentPlayers < L.games[g].maxPlayers,
         NEW c \in Conn, NEW p \in Pid
  PROVE  SoundLobby(EnterGame(L, alive, g, c, p))
<1> DEFINE M == LeavePrevious(L, alive, g, p)
<1>1. /\ SoundLobby(M) /\ g \in DOMAIN M.games
      /\ M.games[g] = L.games[g]
      /\ p \in DOMAIN M.playerToGame => M.playerToGame[p] = g
  <2>1. CASE p \in DOMAIN L.playerToGame /\ L.playerToGame[p] # g
    <3>1. InGame(L, L.playerToGame[p], p)
      BY <2>1 DEF SoundLobby, IndexExact
    <3>2. M = RemovePlayer(L, alive, L.playerToGame[p], p)
      BY <2>1 DEF LeavePrevious
    <3>3. SoundLobby(M)
      BY <3>2, RemovePlayerSound
    <3> HIDE DEF M
    <3>4. /\ p \notin DOMAIN M.playerToGame
          /\ DOMAIN M.games = DOMAIN L.games
          /\ M.games[g] = L.games[g]
      BY <2>1, <3>1, <3>2, RemovePlayerElsewhere
    <3> QED
      BY <3>3, <3>4
  <2>2. CASE ~ (p \in DOMAIN L.playerToGame /\ L.playerToGame[p] # g)
    BY <2>2 DEF LeavePrevious
  <2> QED
    BY <2>1, <2>2
<1> HIDE DEF M
<1>2. SoundLobby(Seat(M, alive, g, c, p))
  BY <1>1, SeatSound
<1> QED
  BY <1>2 DEF EnterGame, M

\* updatePlayerAttributes keeps the lobby sound.
LEMMA UpdateSound ==
  ASSUME NEW L, SoundLobby(L), NEW g, NEW p, NEW score \in Score
  PROVE  SoundLobby(UpdatePlayerAttributes(L, g, p, score))
<1> DEFINE game    == L.games[g]
           player  == [game.players[p] EXCEPT !.score = score]
           players == [game.players EXCEPT ![p] = player]
           new     == [game EXCEPT !.players = players]
           games   == [L.games EXCEPT ![g] = new]
           M       == UpdatePlayerAttributes(L, g, p, score)
<1>1. CASE ~InGame(L, g, p)
  BY <1>1 DEF UpdatePlayerAttributes
<1>2. CASE InGame(L, g, p)
  <2>1. /\ g \in DOMAIN L.games /\ p \in DOMAIN game.players
        /\ LobbyType(L) /\ SoundGame(game)
        /\ L.games = [h \in DOMAIN L.games |-> L.games[h]]
        /\ L = [games |-> L.games, playerToGame |-> L.playerToGame,
                connToGameHost |-> L.connToGameHost,
                connToPlayer |-> L.connToPlayer, nextGid |-> L.nextGid,
                numGames |-> L.numGames, told |-> L.told]
    BY <1>2, LobbyFields DEF SoundLobby, GamesSound, InGame
  <2>2. M = [L EXCEPT !.games = games]
    BY <1>2 DEF UpdatePlayerAttributes
  <2>3. game \in [lid : Lid, maxPlayers : Capacity, currentPlayers : Nat,
                  hostConnection : Conn, players : {game.players}]
        /\ game.players \in [DOMAIN game.players -> Player]
        /\ DOMAIN game.players \subseteq Pid
    BY <2>1 DEF SoundGame, IsGame, IsMap
  <2>4. /\ player \in Player /\ player.slot = game.players[p].slot
    BY <2>1, <2>3 DEF Player
  <2> HIDE DEF player
  <2>5. /\ players \in [DOMAIN game.players -> Player]
        /\ DOMAIN players = DOMAIN game.players
        /\ \A q \in DOMAIN players : players[q].slot = game.players[q].slot
    <3> HIDE DEF game
    <3> QED
      BY <2>1, <2>3, <2>4
  <2> HIDE DEF players
  <2>6. /\ new \in [lid : Lid, maxPlayers : Capacity, currentPlayers : Nat,
                    hostConnection : Conn, players : {new.players}]
        /\ new.players = players
        /\ new.lid = game.lid /\ new.hostConnection = game.hostConnection
        /\ new.maxPlayers = game.maxPlayers
        /\ new.currentPlayers = game.currentPlayers
    <3> HIDE DEF game
    <3> QED
      BY <2>3
  <2> HIDE DEF new
  <2>7. SoundGame(new)
    BY <2>1, <2>3, <2>5, <2>6 DEF SoundGame, IsGame, IsMap, Seated
  <2>8. /\ DOMAIN games = DOMAIN L.games
        /\ games = [h \in DOMAIN games |-> games[h]]
        /\ games[g] = new
        /\ \A h \in DOMAIN L.games : h # g => games[h] = L.games[h]
        /\ games = Put(L.games, g, new)
    BY <2>1 DEF Put
  <2> HIDE DEF games, M
  <2>9. /\ M.games = games
        /\ M.playerToGame = L.playerToGame
        /\ M.connToGameHost = L.connToGameHost
        /\ M.connToPlayer = L.connToPlayer
        /\ M.nextGid = L.nextGid /\ M.numGames = L.numGames
        /\ M.told = L.told
        /\ M = [games |-> M.games, playerToGame |-> M.playerToGame,
                connToGameHost |-> M.connToGameHost,
                connToPlayer |-> M.connToPlayer, nextGid |-> M.nextGid,
                numGames |-> M.numGames, told |-> M.told]
    BY <2>1, <2>2
  <2>10. GamesSound(M)
    BY <2>7, <2>8, <2>9 DEF SoundLobby, GamesSound
  <2>11. LobbyType(M)
    <3>1. \A h \in DOMAIN M.games : IsGame(M.games[h])
      BY <2>10 DEF GamesSound, SoundGame
    <3>2. /\ IsMap(L.playerToGame, Pid, Gid)
          /\ IsMap(L.connToGameHost, Conn, Gid)
          /\ IsMap(L.connToPlayer, Conn, [gid : Gid, pid : Pid])
          /\ IsMap(L.told, Gid, SUBSET Pid) /\ DOMAIN L.told = DOMAIN L.games
          /\ L.nextGid \in 1 .. (MaxGid + 1)
          /\ L.numGames \in [LobbyIds -> Nat]
          /\ DOMAIN L.games \subseteq Gid
      BY <2>1, LobbyFields
    <3>3. LobbyType([games |-> M.games, playerToGame |-> M.playerToGame,
               connToGameHost |-> M.connToGameHost,
               connToPlayer |-> M.connToPlayer, nextGid |-> M.nextGid,
               numGames |-> M.numGames, told |-> M.told])
      BY <2>8, <2>9, <3>1, <3>2, LobbyTypeIntro
    <3> QED
      BY <2>9, <3>3, Zenon
  <2>12. IndexExact(M)
    BY <2>5, <2>6, <2>8, <2>9 DEF SoundLobby, IndexExact, InGame
  <2>13. HostsSound(M) /\ FreshGid(M)
    BY <2>6, <2>8, <2>9 DEF SoundLobby, HostsSound, FreshGid
  <2>14. CountsExact(M)
    <3>1. LobbyCounts(games) = LobbyCounts(L.games)
      BY <2>1, <2>6, <2>8, SameCounts
    <3> QED
      BY <2>9, <3>1 DEF SoundLobby, CountsExact
  <2> QED
    BY <2>10, <2>11, <2>12, <2>13, <2>14 DEF SoundLobby, M
<1> QED
  BY <1>1, <1>2

\* handleDisconnect keeps the lobby sound, whatever roles c has.
LEMMA DisconnectSound ==
  ASSUME NEW L, SoundLobby(L), NEW alive, NEW c
  PROVE  SoundLobby(HandleDisconnect(L, alive, c))
<1>1. SoundLobby(DropHost(L, c))
  BY RemoveGameSound DEF DropHost
<1>2. ASSUME NEW M, SoundLobby(M)
      PROVE  SoundLobby(DropPlayer(M, alive, c))
  BY <1>2, RemovePlayerSound DEF DropPlayer
<1> QED
  BY <1>1, <1>2 DEF HandleDisconnect

\* The manager is sound when it is constructed and after clear().
LEMMA EmptyLobbySound == SoundLobby(EmptyLobby)
<1>1. DOMAIN EmptyMap = {}
  BY DEF EmptyMap
<1>2. LobbyCounts(EmptyMap) \in [LobbyIds -> Nat]
  BY <1>1, LobbyCountsType
<1>3. /\ IsMap(EmptyMap, Pid, Gid)
      /\ IsMap(EmptyMap, Conn, Gid)
      /\ IsMap(EmptyMap, Conn, [gid : Gid, pid : Pid])
      /\ IsMap(EmptyMap, Gid, SUBSET Pid)
      /\ EmptyMap = [x \in DOMAIN EmptyMap |-> EmptyMap[x]]
  BY <1>1, EmptyMapType DEF EmptyMap
<1>4. 1 \in 1 .. (MaxGid + 1)
  BY LobbyAssumption
<1>5. LobbyType(EmptyLobby)
  <2> HIDE DEF EmptyMap
  <2> QED
    BY <1>1, <1>2, <1>3, <1>4, LobbyTypeIntro DEF EmptyLobby
<1>6. GamesSound(EmptyLobby) /\ IndexExact(EmptyLobby) /\ HostsSound(EmptyLobby)
      /\ FreshGid(EmptyLobby) /\ CountsExact(EmptyLobby)
  BY <1>1 DEF EmptyLobby, GamesSound, IndexExact, HostsSound, FreshGid, CountsExact
<1> QED
  BY <1>5, <1>6 DEF SoundLobby

-----------------------------------------------------------------------------
\* The inductive invariant.
IInv == /\ conn \in [Conn -> ConnState]
        /\ SoundLobby(lobby)
        /\ phase \in {"up", "stopping", "stopped"}

\* The server starts in the invariant.
LEMMA InitIInv == Init => IInv
BY EmptyLobbySound DEF Init, IInv, ConnState

\* Every packet, drop, timeout and step of the shutdown preserves it.
LEMMA NextIInv == IInv /\ [Next]_vars => IInv'
<1> SUFFICES ASSUME IInv, [Next]_vars
             PROVE  IInv'
  OBVIOUS
<1> USE DEF IInv
<1>1. ASSUME NEW c \in Conn, Accept(c)
      PROVE  IInv'
  BY <1>1 DEF Accept, ConnState
<1>2. ASSUME NEW c \in Conn, CloseByServer(c)
      PROVE  IInv'
  BY <1>2 DEF CloseByServer, ConnState
<1>3. ASSUME NEW c \in Conn, NEW s \in ConnState, ConnectionClose(c, s)
      PROVE  IInv'
  BY <1>3, DisconnectSound DEF ConnectionClose
<1>4. ASSUME NEW c \in Conn, SocketClose(c)
      PROVE  IInv'
  BY <1>3, <1>4 DEF SocketClose, ConnState
<1>5. ASSUME NEW c \in Conn, ActivityTimeout(c)
      PROVE  IInv'
  BY <1>3, <1>5 DEF ActivityTimeout, ConnState
<1>6. ASSUME NEW c \in Conn, LateSocketClose(c)
      PROVE  IInv'
  BY <1>6 DEF LateSocketClose, ConnState
<1>7. ASSUME NEW c \in Conn, NEW lid \in Lid, NEW max \in Capacity,
             Cgam(c, lid, max)
      PROVE  IInv'
  BY <1>7, CreateGameSound DEF Cgam, Packet
<1>8. ASSUME NEW c \in Conn, NEW g \in Gid, NEW p \in Pid, Egam(c, g, p)
      PROVE  IInv'
  BY <1>8, EnterGameSound DEF Egam, Packet
<1>9. ASSUME NEW c \in Conn, NEW g \in Gid, NEW p \in Pid,
             Ecnl(c, g, p) \/ Kick(c, g, p)
      PROVE  IInv'
  BY <1>9, RemovePlayerSound DEF Ecnl, Kick, Packet
<1>10. ASSUME NEW c \in Conn, NEW g \in Gid, NEW p \in Pid,
              NEW score \in Score, Upla(c, g, p, score)
       PROVE  IInv'
  BY <1>10, UpdateSound DEF Upla, Packet
<1>11. CASE Clear
  BY <1>11, EmptyLobbySound DEF Clear
<1>12. CASE TcpStop
  BY <1>12 DEF TcpStop, ConnState
<1>13. CASE UNCHANGED vars
  BY <1>13 DEF vars
<1> QED
  BY <1>1, <1>2, <1>4, <1>5, <1>6, <1>7, <1>8, <1>9, <1>10, <1>11, <1>12, <1>13
     DEF Next

\* The manager is sound in every reachable state.
LEMMA InvariantHolds == Spec => []IInv
<1>1. QED
  BY InitIInv, NextIInv, PTL DEF Spec

\* The fields of LobbyManager always hold what their TypeScript types declare.
THEOREM TypeCorrect == Spec => []TypeOK
<1>1. IInv => TypeOK
  BY DEF IInv, SoundLobby, TypeOK
<1> QED
  BY <1>1, InvariantHolds, PTL

\* For any number of clients sending anything, playerToGame and the players of
\* the games agree, so that nobody is in two games; connToGameHost only points
\* at games that exist and that its connection hosts; and the NUM-GAMES of LLST
\* is the number of games in the lobby.
THEOREM IndexesCorrect == Spec => []IndexesExact
<1>1. IInv => PlayerIndexExact /\ HostIndexSound
  BY DEF IInv, SoundLobby, PlayerIndexExact, HostIndexSound
<1>2. IInv => LobbyCountsExact
  BY DEF IInv, SoundLobby, CountsExact, LobbyCounts, LobbyCountsExact
<1>3. IInv => IndexesExact
  BY <1>1, <1>2 DEF IndexesExact
<1> QED
  BY <1>3, InvariantHolds, PTL

\* No sequence of entering, switching, leaving and dropping overfills a game
\* or gives one slot to two players.
THEOREM SlotsCorrect == Spec => []SlotsSound
<1>1. IInv => SlotsSound
  BY DEF IInv, SoundLobby, GamesSound, SoundGame, SlotsSound
<1> QED
  BY <1>1, InvariantHolds, PTL

-----------------------------------------------------------------------------
(* What each method of LobbyManager does to the fields, for the proofs that *)
(* follow; what it leaves out is as before.                                 *)

\* The manager as a record of its fields.
Fields(L) == [games |-> L.games, playerToGame |-> L.playerToGame,
              connToGameHost |-> L.connToGameHost, connToPlayer |-> L.connToPlayer,
              nextGid |-> L.nextGid, numGames |-> L.numGames, told |-> L.told]

\* Game n is game m with other players.
SameGame(n, m) == n.maxPlayers = m.maxPlayers /\ n.hostConnection = m.hostConnection

\* The connections of the players of game g.
ConnsOf(L, g) == {L.games[g].players[p].connection : p \in DOMAIN L.games[g].players}

\* removePlayer
LEMMA RemovePlayerEffect ==
  ASSUME NEW L, LobbyType(L), NEW alive, NEW g, NEW p, InGame(L, g, p),
         NEW M, M = RemovePlayer(L, alive, g, p)
  PROVE  /\ DOMAIN M.games = DOMAIN L.games
         /\ \A h \in DOMAIN L.games : h # g => M.games[h] = L.games[h]
         /\ SameGame(M.games[g], L.games[g])
         /\ M.games[g].players = Delete(L.games[g].players, p)
         /\ M.connToGameHost = L.connToGameHost
         /\ M.connToPlayer = Delete(L.connToPlayer, L.games[g].players[p].connection)
         /\ \A h \in DOMAIN L.games : h # g => M.told[h] = L.told[h]
         /\ L.games[g].hostConnection \in alive => M.told[g] = L.told[g] \ {p}
<1> DEFINE game == L.games[g]
           rest == Delete(game.players, p)
           new  == WithPlayers(game, rest)
           told == IF game.hostConnection \in alive
                     THEN Put(L.told, g, L.told[g] \ {p}) ELSE L.told
           cp   == game.players[p].connection
<1>1. M = [L EXCEPT !.games = Put(L.games, g, new),
                    !.playerToGame = Delete(L.playerToGame, p),
                    !.connToPlayer = Delete(L.connToPlayer, cp),
                    !.told = told]
  BY DEF RemovePlayer
<1>2. L = Fields(L)
  BY LobbyFields DEF Fields
<1>3. g \in DOMAIN L.games /\ IsGame(game)
  BY LobbyFields DEF InGame
<1>4. game \in [lid : Lid, maxPlayers : Capacity, currentPlayers : Nat,
                hostConnection : Conn, players : {game.players}]
  BY <1>3 DEF IsGame
<1>5. new.players = rest /\ SameGame(new, game)
  <2> HIDE DEF rest, game
  <2> QED
    BY <1>4 DEF WithPlayers, SameGame
<1> HIDE DEF new, told, cp, rest
<1>6. /\ M.games = Put(L.games, g, new)
      /\ M.connToGameHost = L.connToGameHost
      /\ M.connToPlayer = Delete(L.connToPlayer, cp)
      /\ M.told = told
  <2> HIDE DEF game
  <2> QED
    BY <1>1, <1>2 DEF Fields
<1>7. /\ DOMAIN M.games = DOMAIN L.games /\ M.games[g] = new
      /\ \A h \in DOMAIN L.games : h # g => M.games[h] = L.games[h]
  BY <1>3, <1>6 DEF Put
<1>8. /\ \A h \in DOMAIN L.games : h # g => told[h] = L.told[h]
      /\ game.hostConnection \in alive => told[g] = L.told[g] \ {p}
  <2>1. DOMAIN L.told = DOMAIN L.games
    BY LobbyFields
  <2> HIDE DEF game
  <2> QED
    BY <2>1, <1>3 DEF told, Put
<1> QED
  BY <1>5, <1>6, <1>7, <1>8 DEF cp, rest

\* removeGame
LEMMA RemoveGameEffect ==
  ASSUME NEW L, LobbyType(L), NEW g, g \in DOMAIN L.games,
         NEW M, M = RemoveGame(L, g)
  PROVE  /\ M.games = Delete(L.games, g)
         /\ M.connToGameHost = Delete(L.connToGameHost, L.games[g].hostConnection)
         /\ M.connToPlayer = Without(L.connToPlayer, ConnsOf(L, g))
         /\ M.told = Delete(L.told, g)
<1> DEFINE game    == L.games[g]
           members == DOMAIN game.players
           conns   == {game.players[p].connection : p \in members}
           games   == Delete(L.games, g)
<1>1. M = [L EXCEPT !.games = games,
                    !.playerToGame = Without(L.playerToGame, members),
                    !.connToPlayer = Without(L.connToPlayer, conns),
                    !.connToGameHost = Delete(L.connToGameHost, game.hostConnection),
                    !.numGames = LobbyCounts(games),
                    !.told = Delete(L.told, g)]
  BY DEF RemoveGame
<1>2. L = Fields(L)
  BY LobbyFields DEF Fields
<1> HIDE DEF conns, games, members, game
<1>3. /\ M.games = games
      /\ M.connToGameHost = Delete(L.connToGameHost, game.hostConnection)
      /\ M.connToPlayer = Without(L.connToPlayer, conns)
      /\ M.told = Delete(L.told, g)
  BY <1>1, <1>2 DEF Fields
<1> QED
  BY <1>3 DEF ConnsOf, conns, games, members, game

\* createGame
LEMMA CreateGameEffect ==
  ASSUME NEW L, LobbyType(L), NEW c, NEW lid, NEW max,
         NEW M, M = CreateGame(L, c, lid, max),
         NEW g, g = L.nextGid
  PROVE  /\ DOMAIN M.games = DOMAIN L.games \cup {g}
         /\ \A h \in DOMAIN L.games : h # g => M.games[h] = L.games[h]
         /\ M.games[g].maxPlayers = max /\ M.games[g].hostConnection = c
         /\ M.games[g].players = EmptyMap
         /\ M.connToGameHost = Put(L.connToGameHost, c, g)
         /\ M.connToPlayer = L.connToPlayer
         /\ M.told = Put(L.told, g, {})
<1> DEFINE game  == [lid |-> lid, maxPlayers |-> max, currentPlayers |-> 0,
                     hostConnection |-> c, players |-> EmptyMap]
           games == Put(L.games, g, game)
<1>1. M = [L EXCEPT !.games = games,
                    !.connToGameHost = Put(L.connToGameHost, c, g),
                    !.nextGid = g + 1,
                    !.numGames = LobbyCounts(games),
                    !.told = Put(L.told, g, {})]
  BY DEF CreateGame
<1>2. L = Fields(L)
  BY LobbyFields DEF Fields
<1>3. game.maxPlayers = max /\ game.hostConnection = c /\ game.players = EmptyMap
  OBVIOUS
<1> HIDE DEF game, games
<1>4. /\ M.games = games
      /\ M.connToGameHost = Put(L.connToGameHost, c, g)
      /\ M.connToPlayer = L.connToPlayer
      /\ M.told = Put(L.told, g, {})
  BY <1>1, <1>2 DEF Fields
<1>5. /\ DOMAIN games = DOMAIN L.games \cup {g} /\ games[g] = game
      /\ \A h \in DOMAIN L.games : h # g => games[h] = L.games[h]
  BY DEF Put, games
<1> QED
  BY <1>3, <1>4, <1>5

\* The part of enterGame that seats the player.
Seats(L, alive, g, c, p, M) ==
  /\ DOMAIN M.games = DOMAIN L.games
  /\ \A h \in DOMAIN L.games : h # g => M.games[h] = L.games[h]
  /\ SameGame(M.games[g], L.games[g])
  /\ DOMAIN M.games[g].players = DOMAIN L.games[g].players \cup {p}
  /\ M.games[g].players[p].connection = c
  /\ \A q \in DOMAIN L.games[g].players :
       q # p => M.games[g].players[q] = L.games[g].players[q]
  /\ M.connToGameHost = L.connToGameHost
  /\ M.connToPlayer = Put(L.connToPlayer, c, [gid |-> g, pid |-> p])
  /\ \A h \in DOMAIN L.games : h # g => M.told[h] = L.told[h]
  /\ L.games[g].hostConnection \in alive => M.told[g] = L.told[g] \cup {p}

LEMMA SeatEffect ==
  ASSUME NEW L, LobbyType(L), NEW alive, NEW g, g \in DOMAIN L.games, NEW c, NEW p,
         NEW M, M = Seat(L, alive, g, c, p)
  PROVE  Seats(L, alive, g, c, p, M)
<1> DEFINE game    == L.games[g]
           taken   == {game.players[q].slot : q \in DOMAIN game.players}
           player  == [slot |-> FirstFree(taken, game.maxPlayers),
                       connection |-> c, score |-> 0]
           players == Put(game.players, p, player)
           new     == WithPlayers(game, players)
           told    == IF game.hostConnection \in alive
                        THEN Put(L.told, g, L.told[g] \cup {p}) ELSE L.told
<1>1. M = [L EXCEPT !.games = Put(L.games, g, new),
                    !.playerToGame = Put(L.playerToGame, p, g),
                    !.connToPlayer = Put(L.connToPlayer, c, [gid |-> g, pid |-> p]),
                    !.told = told]
  BY DEF Seat
<1>2. L = Fields(L)
  BY LobbyFields DEF Fields
<1>3. game \in [lid : Lid, maxPlayers : Capacity, currentPlayers : Nat,
                hostConnection : Conn, players : {game.players}]
  BY LobbyFields DEF IsGame
<1>4. player.connection = c
  OBVIOUS
<1> HIDE DEF player
<1>5. /\ DOMAIN players = DOMAIN game.players \cup {p} /\ players[p].connection = c
      /\ \A q \in DOMAIN game.players : q # p => players[q] = game.players[q]
  BY <1>4 DEF Put
<1> HIDE DEF players
<1>6. new.players = players /\ SameGame(new, game)
  <2> HIDE DEF game
  <2> QED
    BY <1>3 DEF WithPlayers, SameGame
<1> HIDE DEF new, told
<1>7. /\ M.games = Put(L.games, g, new)
      /\ M.connToGameHost = L.connToGameHost
      /\ M.connToPlayer = Put(L.connToPlayer, c, [gid |-> g, pid |-> p])
      /\ M.told = told
  <2> HIDE DEF game
  <2> QED
    BY <1>1, <1>2 DEF Fields
<1>8. /\ DOMAIN M.games = DOMAIN L.games /\ M.games[g] = new
      /\ \A h \in DOMAIN L.games : h # g => M.games[h] = L.games[h]
  BY <1>7 DEF Put
<1>9. /\ \A h \in DOMAIN L.games : h # g => told[h] = L.told[h]
      /\ game.hostConnection \in alive => told[g] = L.told[g] \cup {p}
  <2>1. DOMAIN L.told = DOMAIN L.games
    BY LobbyFields
  <2> HIDE DEF game
  <2> QED
    BY <2>1 DEF told, Put
<1> QED
  BY <1>5, <1>6, <1>7, <1>8, <1>9 DEF Seats

\* updatePlayerAttributes
LEMMA UpdateEffect ==
  ASSUME NEW L, LobbyType(L), NEW g, NEW p, NEW score, InGame(L, g, p),
         NEW M, M = UpdatePlayerAttributes(L, g, p, score)
  PROVE  /\ DOMAIN M.games = DOMAIN L.games
         /\ \A h \in DOMAIN L.games : h # g => M.games[h] = L.games[h]
         /\ SameGame(M.games[g], L.games[g])
         /\ DOMAIN M.games[g].players = DOMAIN L.games[g].players
         /\ \A q \in DOMAIN L.games[g].players :
              M.games[g].players[q].connection = L.games[g].players[q].connection
         /\ M.connToGameHost = L.connToGameHost
         /\ M.connToPlayer = L.connToPlayer
         /\ M.told = L.told
<1> DEFINE game    == L.games[g]
           player  == [game.players[p] EXCEPT !.score = score]
           players == [game.players EXCEPT ![p] = player]
           new     == [game EXCEPT !.players = players]
           games   == [L.games EXCEPT ![g] = new]
<1>1. M = [L EXCEPT !.games = games]
  BY DEF UpdatePlayerAttributes
<1>2. L = Fields(L)
  BY LobbyFields DEF Fields
<1>3. /\ g \in DOMAIN L.games /\ p \in DOMAIN game.players
      /\ game \in [lid : Lid, maxPlayers : Capacity, currentPlayers : Nat,
                   hostConnection : Conn, players : {game.players}]
      /\ game.players[p] \in Player
      /\ L.games = [h \in DOMAIN L.games |-> L.games[h]]
      /\ game.players = [q \in DOMAIN game.players |-> game.players[q]]
  BY LobbyFields, GameFields DEF InGame, IsGame, IsMap
<1>4. player.connection = game.players[p].connection
  BY <1>3 DEF Player
<1> HIDE DEF player
<1>5. /\ DOMAIN players = DOMAIN game.players
      /\ \A q \in DOMAIN game.players : players[q].connection = game.players[q].connection
  <2> HIDE DEF game
  <2> QED
    BY <1>3, <1>4
<1> HIDE DEF players
<1>6. new.players = players /\ SameGame(new, game)
  <2> HIDE DEF game
  <2> QED
    BY <1>3 DEF SameGame
<1> HIDE DEF new
<1>7. /\ DOMAIN games = DOMAIN L.games /\ games[g] = new
      /\ \A h \in DOMAIN L.games : h # g => games[h] = L.games[h]
  BY <1>3
<1> HIDE DEF games
<1>8. /\ M.games = games /\ M.connToGameHost = L.connToGameHost
      /\ M.connToPlayer = L.connToPlayer /\ M.told = L.told
  BY <1>1, <1>2 DEF Fields
<1> QED
  BY <1>5, <1>6, <1>7, <1>8
-----------------------------------------------------------------------------
(* What hosts are told. *)

\* Every game has a host among H, and a host among alive was told of exactly the
\* players its game has.
HostsTold(L, H, alive) ==
  \A g \in DOMAIN L.games :
    /\ L.games[g].hostConnection \in H
    /\ L.games[g].hostConnection \in alive => L.told[g] = DOMAIN L.games[g].players

LEMMA RemovePlayerTells ==
  ASSUME NEW L, LobbyType(L), NEW H, NEW alive, HostsTold(L, H, alive), NEW g, NEW p
  PROVE  HostsTold(RemovePlayer(L, alive, g, p), H, alive)
<1> SUFFICES ASSUME NEW M, M = RemovePlayer(L, alive, g, p)
             PROVE  HostsTold(M, H, alive)
  OBVIOUS
<1>1. CASE ~InGame(L, g, p)
  BY <1>1 DEF RemovePlayer
<1>2. CASE InGame(L, g, p)
  <2>1. /\ DOMAIN M.games = DOMAIN L.games
        /\ \A h \in DOMAIN L.games : h # g => M.games[h] = L.games[h]
        /\ SameGame(M.games[g], L.games[g])
        /\ M.games[g].players = Delete(L.games[g].players, p)
        /\ \A h \in DOMAIN L.games : h # g => M.told[h] = L.told[h]
        /\ L.games[g].hostConnection \in alive => M.told[g] = L.told[g] \ {p}
    BY <1>2, RemovePlayerEffect
  <2>2. DOMAIN M.games[g].players = DOMAIN L.games[g].players \ {p}
    BY <2>1 DEF Delete, Without
  <2> QED
    BY ZenonT(40), <2>1, <2>2 DEF HostsTold, SameGame
<1> QED
  BY <1>1, <1>2

LEMMA RemoveGameTells ==
  ASSUME NEW L, LobbyType(L), NEW H, NEW alive, HostsTold(L, H, alive), NEW g
  PROVE  HostsTold(RemoveGame(L, g), H, alive)
<1> SUFFICES ASSUME NEW M, M = RemoveGame(L, g)
             PROVE  HostsTold(M, H, alive)
  OBVIOUS
<1>1. CASE g \notin DOMAIN L.games
  BY <1>1 DEF RemoveGame
<1>2. CASE g \in DOMAIN L.games
  <2>1. M.games = Delete(L.games, g) /\ M.told = Delete(L.told, g)
    BY <1>2, RemoveGameEffect
  <2>2. DOMAIN L.told = DOMAIN L.games
    BY LobbyFields
  <2> QED
    BY <2>1, <2>2 DEF HostsTold, Delete, Without
<1> QED
  BY <1>1, <1>2

\* handleDisconnect tells the hosts that stay of the player who goes.
LEMMA DisconnectTells ==
  ASSUME NEW L, SoundLobby(L), NEW H, NEW alive, HostsTold(L, H, alive), NEW c
  PROVE  HostsTold(HandleDisconnect(L, alive, c), H, alive)
<1>1. SoundLobby(DropHost(L, c)) /\ HostsTold(DropHost(L, c), H, alive)
  BY RemoveGameSound, RemoveGameTells DEF DropHost, SoundLobby
<1>2. ASSUME NEW M, LobbyType(M), HostsTold(M, H, alive)
      PROVE  HostsTold(DropPlayer(M, alive, c), H, alive)
  BY <1>2, RemovePlayerTells DEF DropPlayer
<1>3. LobbyType(DropHost(L, c))
  BY <1>1 DEF SoundLobby
<1> QED
  BY <1>1, <1>2, <1>3 DEF HandleDisconnect

LEMMA CreateGameTells ==
  ASSUME NEW L, LobbyType(L), NEW H, NEW alive, HostsTold(L, H, alive),
         NEW c \in H, NEW lid, NEW max
  PROVE  HostsTold(CreateGame(L, c, lid, max), H, alive)
<1> SUFFICES ASSUME NEW M, M = CreateGame(L, c, lid, max)
             PROVE  HostsTold(M, H, alive)
  OBVIOUS
<1> DEFINE g == L.nextGid
<1>1. /\ DOMAIN M.games = DOMAIN L.games \cup {g}
      /\ \A h \in DOMAIN L.games : h # g => M.games[h] = L.games[h]
      /\ M.games[g].hostConnection = c /\ M.games[g].players = EmptyMap
      /\ M.told = Put(L.told, g, {})
  BY CreateGameEffect
<1> HIDE DEF g
<1>2. DOMAIN EmptyMap = {}
  BY DEF EmptyMap
<1>3. M.told[g] = {} /\ \A h \in DOMAIN L.games : h # g => M.told[h] = L.told[h]
  <2>1. DOMAIN L.told = DOMAIN L.games
    BY LobbyFields
  <2> QED
    BY <1>1, <2>1 DEF Put
<1>4. ASSUME NEW h \in DOMAIN M.games
      PROVE  /\ M.games[h].hostConnection \in H
             /\ M.games[h].hostConnection \in alive => M.told[h] = DOMAIN M.games[h].players
  <2>1. CASE h = g
    BY <1>1, <1>2, <1>3, <2>1
  <2>2. CASE h # g
    <3>1. h \in DOMAIN L.games /\ M.games[h] = L.games[h] /\ M.told[h] = L.told[h]
      BY <1>1, <1>3, <2>2
    <3> QED
      BY <3>1 DEF HostsTold
  <2> QED
    BY <2>1, <2>2
<1> QED
  BY <1>4 DEF HostsTold

LEMMA SeatTells ==
  ASSUME NEW L, LobbyType(L), NEW H, NEW alive, HostsTold(L, H, alive),
         NEW g \in DOMAIN L.games, NEW c, NEW p
  PROVE  HostsTold(Seat(L, alive, g, c, p), H, alive)
<1> SUFFICES ASSUME NEW M, M = Seat(L, alive, g, c, p)
             PROVE  HostsTold(M, H, alive)
  OBVIOUS
<1>1. Seats(L, alive, g, c, p, M)
  BY SeatEffect
<1> QED
  BY ZenonT(40), <1>1 DEF Seats, HostsTold, SameGame

\* enterGame owes a PLFT to the game that is left and a PENT to the new one.
LEMMA EnterGameTells ==
  ASSUME NEW L, SoundLobby(L), NEW H, NEW alive, HostsTold(L, H, alive),
         NEW g \in DOMAIN L.games, NEW c, NEW p
  PROVE  HostsTold(EnterGame(L, alive, g, c, p), H, alive)
<1> DEFINE M == LeavePrevious(L, alive, g, p)
<1>1. SoundLobby(M) /\ HostsTold(M, H, alive)
  BY RemovePlayerSound, RemovePlayerTells DEF LeavePrevious, SoundLobby
<1>2. g \in DOMAIN M.games
  <2>1. ASSUME NEW h, InGame(L, h, p)
        PROVE  DOMAIN RemovePlayer(L, alive, h, p).games = DOMAIN L.games
    BY <2>1, RemovePlayerElsewhere
  <2> QED
    BY <2>1 DEF LeavePrevious, SoundLobby, IndexExact
<1> HIDE DEF M
<1>3. HostsTold(Seat(M, alive, g, c, p), H, alive)
  BY <1>1, <1>2, SeatTells DEF SoundLobby
<1> QED
  BY <1>3 DEF EnterGame, M

LEMMA UpdateTells ==
  ASSUME NEW L, LobbyType(L), NEW H, NEW alive, HostsTold(L, H, alive), NEW g, NEW p, NEW score
  PROVE  HostsTold(UpdatePlayerAttributes(L, g, p, score), H, alive)
<1> SUFFICES ASSUME NEW M, M = UpdatePlayerAttributes(L, g, p, score)
             PROVE  HostsTold(M, H, alive)
  OBVIOUS
<1>1. CASE ~InGame(L, g, p)
  BY <1>1 DEF UpdatePlayerAttributes
<1>2. CASE InGame(L, g, p)
  <2>1. /\ DOMAIN M.games = DOMAIN L.games
        /\ \A h \in DOMAIN L.games : h # g => M.games[h] = L.games[h]
        /\ SameGame(M.games[g], L.games[g])
        /\ DOMAIN M.games[g].players = DOMAIN L.games[g].players
        /\ M.told = L.told
    BY <1>2, UpdateEffect
  <2> QED
    BY <2>1 DEF HostsTold, SameGame
<1> QED
  BY <1>1, <1>2

\* The connections that were accepted: hosts are among them, so that no host
\* begins to be told in the middle of its game.
Accepted == {c \in Conn : conn[c] # "new"}

ToldInv == HostsTold(lobby, Accepted, Alive)

LEMMA StepToldInv == IInv /\ ToldInv /\ [Next]_vars => ToldInv'
<1> SUFFICES ASSUME IInv, ToldInv, [Next]_vars
             PROVE  ToldInv'
  OBVIOUS
<1>1. SoundLobby(lobby) /\ LobbyType(lobby) /\ conn \in [Conn -> ConnState]
  BY DEF IInv, SoundLobby
\* Connections go on, and the lobby does not.
<1>2. ASSUME lobby' = lobby, Accepted \subseteq Accepted', Alive' \cap Accepted \subseteq Alive
      PROVE  ToldInv'
  BY <1>2 DEF ToldInv, HostsTold
<1>3. ASSUME NEW c \in Conn, Accept(c) \/ CloseByServer(c) \/ LateSocketClose(c)
      PROVE  ToldInv'
  <2>1. lobby' = lobby
    BY <1>3 DEF Accept, CloseByServer, LateSocketClose
  <2>2. Accepted \subseteq Accepted' /\ Alive' \cap Accepted \subseteq Alive
    BY <1>1, <1>3 DEF Accept, CloseByServer, LateSocketClose, Accepted, Alive
  <2> QED
    BY <1>2, <2>1, <2>2
<1>4. ASSUME NEW c \in Conn, NEW s \in {"closed", "lingering"}, ConnectionClose(c, s)
      PROVE  ToldInv'
  <2>1. lobby' = HandleDisconnect(lobby, Alive \ {c}, c) /\ conn' = [conn EXCEPT ![c] = s]
    BY <1>4 DEF ConnectionClose
  <2>2. Accepted \subseteq Accepted' /\ Alive' = Alive \ {c}
    BY <1>1, <2>1 DEF Accepted, Alive
  <2>3. HostsTold(lobby, Accepted', Alive')
    BY <2>2 DEF ToldInv, HostsTold
  <2> QED
    BY <1>1, <2>1, <2>2, <2>3, DisconnectTells DEF ToldInv
<1>5. ASSUME NEW c \in Conn, SocketClose(c) \/ ActivityTimeout(c)
      PROVE  ToldInv'
  BY <1>4, <1>5 DEF SocketClose, ActivityTimeout
\* A packet is handled, and the connections stay.
<1>6. ASSUME UNCHANGED conn, HostsTold(lobby', Accepted, Alive)
      PROVE  ToldInv'
  BY <1>6 DEF ToldInv, Accepted, Alive
<1>7. ASSUME NEW c \in Conn, NEW lid \in Lid, NEW max \in Capacity, Cgam(c, lid, max)
      PROVE  ToldInv'
  <2>1. c \in Accepted
    BY <1>7 DEF Cgam, Packet, Delivers, Connections, Accepted
  <2>2. UNCHANGED conn /\ lobby' = CreateGame(lobby, c, lid, max)
    BY <1>7 DEF Cgam, Packet
  <2> QED
    BY <1>1, <1>6, <2>1, <2>2, CreateGameTells DEF ToldInv
<1>8. ASSUME NEW c \in Conn, NEW g \in Gid, NEW p \in Pid, Egam(c, g, p)
      PROVE  ToldInv'
  <2>1. UNCHANGED conn /\ lobby' = EnterGame(lobby, Alive, g, c, p) /\ g \in DOMAIN lobby.games
    BY <1>8 DEF Egam, Packet
  <2> QED
    BY <1>1, <1>6, <2>1, EnterGameTells DEF ToldInv
<1>9. ASSUME NEW c \in Conn, NEW g \in Gid, NEW p \in Pid, Ecnl(c, g, p) \/ Kick(c, g, p)
      PROVE  ToldInv'
  <2>1. UNCHANGED conn /\ lobby' = RemovePlayer(lobby, Alive, g, p)
    BY <1>9 DEF Ecnl, Kick, Packet
  <2> QED
    BY <1>1, <1>6, <2>1, RemovePlayerTells DEF ToldInv
<1>10. ASSUME NEW c \in Conn, NEW g \in Gid, NEW p \in Pid, NEW score \in Score, Upla(c, g, p, score)
       PROVE  ToldInv'
  <2>1. UNCHANGED conn /\ lobby' = UpdatePlayerAttributes(lobby, g, p, score)
    BY <1>10 DEF Upla, Packet
  <2> QED
    BY <1>1, <1>6, <2>1, UpdateTells DEF ToldInv
<1>11. CASE Clear
  BY <1>11 DEF Clear, ToldInv, HostsTold, EmptyLobby, EmptyMap
<1>12. CASE TcpStop
  <2>1. lobby' = lobby /\ Accepted \subseteq Accepted' /\ Alive' \cap Accepted \subseteq Alive
    BY <1>1, <1>12 DEF TcpStop, Accepted, Alive, Connections
  <2> QED
    BY <1>2, <2>1
<1>13. CASE UNCHANGED vars
  BY <1>2, <1>13 DEF vars, Accepted, Alive
<1> QED
  BY <1>3, <1>5, <1>7, <1>8, <1>9, <1>10, <1>11, <1>12, <1>13 DEF Next

\* A host that can be reached knows exactly who is in its game, for any number
\* of clients sending anything: no switch of games, kick, cancellation or lost
\* connection withholds a PENT or a PLFT.
THEOREM HostsKnowTheirPlayers == Spec => []HostRosterExact
<1>1. Init => ToldInv
  BY DEF Init, ToldInv, HostsTold, EmptyLobby, EmptyMap
<1>2. ToldInv => HostRosterExact
  BY DEF ToldInv, HostsTold, HostRosterExact
<1> QED
  BY <1>1, <1>2, StepToldInv, InvariantHolds, PTL DEF Spec

-----------------------------------------------------------------------------
(* The lobby implements Roster. *)

\* The roster and the capacities that a manager stands for.
RosterOf(L)   == [g \in DOMAIN L.games |-> DOMAIN L.games[g].players]
CapacityOf(L) == [g \in DOMAIN L.games |-> L.games[g].maxPlayers]

\* From L to M the games G close and the players P leave their games.
Departs(L, M, G, P) ==
  /\ RosterOf(M) = [g \in DOMAIN RosterOf(L) \ G |-> RosterOf(L)[g] \ P]
  /\ CapacityOf(M) = Without(CapacityOf(L), G)

\* A drop is its two halves in one step.
LEMMA DepartsTwice ==
  ASSUME NEW L, NEW M, NEW N, NEW G, NEW P,
         Departs(L, M, G, {}), Departs(M, N, {}, P)
  PROVE  Departs(L, N, G, P)
<1> DEFINE l == RosterOf(L)
           m == RosterOf(M)
           k == CapacityOf(L)
           c == CapacityOf(M)
<1>1. m = [g \in DOMAIN l \ G |-> l[g] \ {}] /\ c = [g \in DOMAIN k \ G |-> k[g]]
  BY DEF Departs, Without
<1>2. RosterOf(N) = [g \in DOMAIN m \ {} |-> m[g] \ P]
      /\ CapacityOf(N) = [g \in DOMAIN c \ {} |-> c[g]]
  BY DEF Departs, Without
<1> HIDE DEF l, m, k, c
<1>3. RosterOf(N) = [g \in DOMAIN l \ G |-> l[g] \ P]
  BY <1>1, <1>2
<1>4. CapacityOf(N) = [g \in DOMAIN k \ G |-> k[g]]
  BY <1>1, <1>2
<1> QED
  BY <1>3, <1>4 DEF Departs, Without, l, k

LEMMA DepartsNothing ==
  ASSUME NEW L
  PROVE  Departs(L, L, {}, {})
BY DEF Departs, Without, RosterOf, CapacityOf

\* removePlayer takes the player out of the one game it is in.
LEMMA RemovePlayerDeparts ==
  ASSUME NEW L, SoundLobby(L), NEW alive, NEW g, NEW p, InGame(L, g, p),
         NEW M, M = RemovePlayer(L, alive, g, p)
  PROVE  Departs(L, M, {}, {p})
<1>1. LobbyType(L)
  BY DEF SoundLobby
<1>2. /\ DOMAIN M.games = DOMAIN L.games
      /\ \A h \in DOMAIN L.games : h # g => M.games[h] = L.games[h]
      /\ SameGame(M.games[g], L.games[g])
      /\ M.games[g].players = Delete(L.games[g].players, p)
  BY <1>1, RemovePlayerEffect
<1>3. \A h \in DOMAIN L.games : h # g => p \notin DOMAIN L.games[h].players
  BY DEF SoundLobby, IndexExact, InGame
<1>4. \A h \in DOMAIN L.games : /\ DOMAIN M.games[h].players = DOMAIN L.games[h].players \ {p}
                                /\ M.games[h].maxPlayers = L.games[h].maxPlayers
  BY <1>2, <1>3 DEF SameGame, Delete, Without
<1> QED
  BY <1>2, <1>4 DEF Departs, RosterOf, CapacityOf, Without

\* removeGame closes the game, and nobody else leaves.
LEMMA RemoveGameDeparts ==
  ASSUME NEW L, LobbyType(L), NEW g, g \in DOMAIN L.games,
         NEW M, M = RemoveGame(L, g)
  PROVE  Departs(L, M, {g}, {})
<1>1. M.games = Delete(L.games, g)
  BY RemoveGameEffect
<1> QED
  BY <1>1 DEF Departs, RosterOf, CapacityOf, Delete, Without

\* handleDisconnect closes at most one game and takes out at most one player.
LEMMA DisconnectDeparts ==
  ASSUME NEW L, SoundLobby(L), NEW alive, NEW c
  PROVE  \E G \in {{}} \cup {{g} : g \in Gid}, P \in {{}} \cup {{p} : p \in Pid} :
           Departs(L, HandleDisconnect(L, alive, c), G, P)
<1> DEFINE M == DropHost(L, c)
           N == DropPlayer(M, alive, c)
<1>1. SoundLobby(M)
  BY RemoveGameSound DEF DropHost
<1>2. \E G \in {{}} \cup {{g} : g \in Gid} : Departs(L, M, G, {})
  <2>1. CASE c \notin DOMAIN L.connToGameHost
    BY <2>1, DepartsNothing DEF DropHost
  <2>2. CASE c \in DOMAIN L.connToGameHost
    <3>1. PICK g \in Gid : g = L.connToGameHost[c]
      BY <2>2, LobbyFields, IsMapLookup DEF SoundLobby
    <3>2. g \in DOMAIN L.games /\ LobbyType(L) /\ M = RemoveGame(L, g)
      BY <2>2, <3>1 DEF SoundLobby, HostsSound, DropHost
    <3>3. Departs(L, M, {g}, {})
      BY <3>2, RemoveGameDeparts
    <3> QED
      BY <3>3
  <2> QED
    BY <2>1, <2>2
<1> HIDE DEF M
<1>3. \E P \in {{}} \cup {{p} : p \in Pid} : Departs(M, N, {}, P)
  <2>1. CASE c \notin DOMAIN M.connToPlayer
    BY <2>1, DepartsNothing DEF DropPlayer
  <2>2. CASE c \in DOMAIN M.connToPlayer
    <3>1. M.connToPlayer[c] \in [gid : Gid, pid : Pid]
      <4>1. LobbyType(M)
        BY <1>1 DEF SoundLobby
      <4> QED
        BY <2>2, <4>1 DEF LobbyType, IsMap
    <3>2. PICK g \in Gid, p \in Pid : g = M.connToPlayer[c].gid /\ p = M.connToPlayer[c].pid
      BY <3>1
    <3>3. N = RemovePlayer(M, alive, g, p)
      BY <2>2, <3>2 DEF DropPlayer
    <3> HIDE DEF N
    <3>4. CASE InGame(M, g, p)
      <4>1. Departs(M, N, {}, {p})
        BY <1>1, <3>3, <3>4, RemovePlayerDeparts
      <4> QED
        BY <4>1
    <3>5. CASE ~InGame(M, g, p)
      BY <3>3, <3>5, DepartsNothing DEF RemovePlayer
    <3> QED
      BY <3>4, <3>5
  <2> QED
    BY <2>1, <2>2
<1>4. HandleDisconnect(L, alive, c) = N
  BY DEF HandleDisconnect, M
<1> HIDE DEF N
<1> QED
  BY <1>2, <1>3, <1>4, DepartsTwice

\* createGame opens a game with a new id and no players.
LEMMA CreateGameOpens ==
  ASSUME NEW L, SoundLobby(L), NEW c, NEW lid, NEW max,
         NEW M, M = CreateGame(L, c, lid, max),
         NEW g, g = L.nextGid
  PROVE  /\ g \notin DOMAIN L.games
         /\ RosterOf(M) = Put(RosterOf(L), g, {})
         /\ CapacityOf(M) = Put(CapacityOf(L), g, max)
<1>1. LobbyType(L) /\ g \notin DOMAIN L.games
  <2>1. \A h \in DOMAIN L.games : h < g
    BY DEF SoundLobby, FreshGid
  <2>2. g \in Int
    <3>1. LobbyType(L)
      BY DEF SoundLobby
    <3>2. L.nextGid \in 1 .. (MaxGid + 1)
      BY <3>1 DEF LobbyType
    <3> QED
      BY <3>2, LobbyAssumption
  <2> QED
    BY <2>1, <2>2 DEF SoundLobby
<1>2. /\ DOMAIN M.games = DOMAIN L.games \cup {g}
      /\ \A h \in DOMAIN L.games : h # g => M.games[h] = L.games[h]
      /\ M.games[g].maxPlayers = max
      /\ M.games[g].players = EmptyMap
  BY <1>1, CreateGameEffect
<1>3. DOMAIN EmptyMap = {}
  BY DEF EmptyMap
<1> QED
  BY <1>1, <1>2, <1>3 DEF RosterOf, CapacityOf, Put

\* enterGame moves the player: it joins g and leaves wherever it was.
Moves(L, g, p, N) ==
  /\ RosterOf(N) = [h \in DOMAIN RosterOf(L) |->
                      IF h = g THEN RosterOf(L)[h] \cup {p} ELSE RosterOf(L)[h] \ {p}]
  /\ CapacityOf(N) = CapacityOf(L)

LEMMA EnterGameJoins ==
  ASSUME NEW L, SoundLobby(L), NEW alive, NEW g, g \in DOMAIN L.games, NEW c, NEW p,
         NEW N, N = EnterGame(L, alive, g, c, p)
  PROVE  Moves(L, g, p, N)
<1>1. PICK M : M = LeavePrevious(L, alive, g, p)
  OBVIOUS
<1>2. LobbyType(M)
  BY <1>1, RemovePlayerSound DEF LeavePrevious, SoundLobby
<1>3. /\ DOMAIN M.games = DOMAIN L.games
      /\ DOMAIN M.games[g].players \cup {p} = DOMAIN L.games[g].players \cup {p}
      /\ \A h \in DOMAIN L.games : h # g => DOMAIN M.games[h].players = DOMAIN L.games[h].players \ {p}
      /\ \A h \in DOMAIN L.games : M.games[h].maxPlayers = L.games[h].maxPlayers
  <2>1. CASE p \in DOMAIN L.playerToGame /\ L.playerToGame[p] # g
    <3>1. InGame(L, L.playerToGame[p], p) /\ M = RemovePlayer(L, alive, L.playerToGame[p], p)
      BY <1>1, <2>1 DEF SoundLobby, IndexExact, LeavePrevious
    <3>2. Departs(L, M, {}, {p})
      BY <3>1, RemovePlayerDeparts
    <3>3. DOMAIN RosterOf(M) = DOMAIN M.games /\ DOMAIN CapacityOf(M) = DOMAIN M.games
      BY DEF RosterOf, CapacityOf
    <3>4. DOMAIN M.games = DOMAIN L.games
      BY <3>2, <3>3 DEF Departs, RosterOf
    <3>5. \A h \in DOMAIN L.games : DOMAIN M.games[h].players = DOMAIN L.games[h].players \ {p}
      <4>1. \A h \in DOMAIN L.games : RosterOf(M)[h] = RosterOf(L)[h] \ {p}
        BY <3>2 DEF Departs, RosterOf
      <4> QED
        BY <4>1, <3>4 DEF RosterOf
    <3>6. \A h \in DOMAIN L.games : M.games[h].maxPlayers = L.games[h].maxPlayers
      <4>1. \A h \in DOMAIN L.games : CapacityOf(M)[h] = CapacityOf(L)[h]
        BY <3>2 DEF Departs, CapacityOf, Without
      <4> QED
        BY <4>1, <3>4 DEF CapacityOf
    <3> QED
      BY <3>4, <3>5, <3>6
  <2>2. CASE ~ (p \in DOMAIN L.playerToGame /\ L.playerToGame[p] # g)
    <3>1. M = L
      BY <1>1, <2>2 DEF LeavePrevious
    <3>2. \A h \in DOMAIN L.games : h # g => p \notin DOMAIN L.games[h].players
      BY <2>2 DEF SoundLobby, IndexExact
    <3> QED
      BY <3>1, <3>2
  <2> QED
    BY <2>1, <2>2
<1>4. N = Seat(M, alive, g, c, p)
  BY <1>1 DEF EnterGame
<1>5. Seats(M, alive, g, c, p, N)
  BY <1>2, <1>3, <1>4, SeatEffect
<1>6. /\ DOMAIN N.games = DOMAIN L.games
      /\ DOMAIN N.games[g].players = DOMAIN L.games[g].players \cup {p}
      /\ \A h \in DOMAIN L.games : h # g => DOMAIN N.games[h].players = DOMAIN L.games[h].players \ {p}
      /\ \A h \in DOMAIN L.games : N.games[h].maxPlayers = L.games[h].maxPlayers
  BY <1>3, <1>5 DEF Seats, SameGame
<1> QED
  BY <1>6 DEF Moves, RosterOf, CapacityOf

\* updatePlayerAttributes is invisible.
LEMMA UpdateKeepsRoster ==
  ASSUME NEW L, SoundLobby(L), NEW g, NEW p, NEW score, InGame(L, g, p),
         NEW M, M = UpdatePlayerAttributes(L, g, p, score)
  PROVE  RosterOf(M) = RosterOf(L) /\ CapacityOf(M) = CapacityOf(L)
<1>1. /\ DOMAIN M.games = DOMAIN L.games
      /\ \A h \in DOMAIN L.games : h # g => M.games[h] = L.games[h]
      /\ SameGame(M.games[g], L.games[g])
      /\ DOMAIN M.games[g].players = DOMAIN L.games[g].players
  BY UpdateEffect DEF SoundLobby
<1> QED
  BY <1>1 DEF RosterOf, CapacityOf, SameGame

LEMMA InitRoster == Init => R!Init
<1> SUFFICES ASSUME Init
             PROVE  R!Init
  OBVIOUS
<1>1. DOMAIN lobby.games = {}
  BY DEF Init, EmptyLobby, EmptyMap
<1> QED
  BY <1>1 DEF R!Init, R!EmptyMap

LEMMA NextRoster == IInv /\ [Next]_vars => [R!Next]_(R!rosterVars)
<1> SUFFICES ASSUME IInv, [Next]_vars
             PROVE  [R!Next]_(R!rosterVars)
  OBVIOUS
<1>1. SoundLobby(lobby) /\ LobbyType(lobby)
  BY DEF IInv, SoundLobby
<1> DEFINE Stays == RosterOf(lobby') = RosterOf(lobby) /\ CapacityOf(lobby') = CapacityOf(lobby)
<1>2. ASSUME Stays
      PROVE  UNCHANGED R!rosterVars
  BY <1>2 DEF R!rosterVars, RosterOf, CapacityOf
<1>3. ASSUME NEW G, NEW P, Departs(lobby, lobby', G, P)
      PROVE  R!Depart(G, P)
  BY <1>3 DEF Departs, R!Depart, R!Without, Without, RosterOf, CapacityOf
\* Connections go on, and the lobby does not.
<1>4. ASSUME NEW c \in Conn, Accept(c) \/ CloseByServer(c) \/ LateSocketClose(c)
      PROVE  UNCHANGED R!rosterVars
  BY <1>2, <1>4 DEF Accept, CloseByServer, LateSocketClose
<1>5. ASSUME NEW c \in Conn, SocketClose(c) \/ ActivityTimeout(c)
      PROVE  [R!Next]_(R!rosterVars)
  <2>1. lobby' = HandleDisconnect(lobby, Alive \ {c}, c)
    BY <1>5 DEF SocketClose, ActivityTimeout, ConnectionClose
  <2>2. PICK G \in {{}} \cup {{g} : g \in Gid}, P \in {{}} \cup {{p} : p \in Pid} :
               Departs(lobby, lobby', G, P)
    BY <1>1, <2>1, DisconnectDeparts
  <2>3. R!Depart(G, P)
    BY <1>3, <2>2
  <2>4. CASE G = {} /\ P = {}
    BY <1>2, <2>2, <2>4 DEF Departs, Without, RosterOf, CapacityOf
  <2>5. CASE \E g \in Gid : G = {g} /\ P = {}
    BY <2>3, <2>5 DEF R!Next
  <2>6. CASE \E p \in Pid : G = {} /\ P = {p}
    BY <2>3, <2>6 DEF R!Next
  <2>7. CASE \E g \in Gid, p \in Pid : G = {g} /\ P = {p}
    <3>1. PICK g \in Gid, p \in Pid : G = {g} /\ P = {p}
      BY <2>7
    <3>2. R!Depart({g}, {p})
      BY <2>3, <3>1
    <3> QED
      BY <3>2 DEF R!Next
  <2> QED
    BY <2>4, <2>5, <2>6, <2>7
\* A packet is handled.
<1>6. ASSUME NEW c \in Conn, NEW lid \in Lid, NEW max \in Capacity, Cgam(c, lid, max)
      PROVE  R!Next
  <2>1. lobby' = CreateGame(lobby, c, lid, max)
    BY <1>6 DEF Cgam, Packet
  <2>2. PICK g \in Gid : g = lobby.nextGid
    BY <1>6 DEF Cgam
  <2>3. /\ g \notin DOMAIN lobby.games
        /\ RosterOf(lobby') = Put(RosterOf(lobby), g, {})
        /\ CapacityOf(lobby') = Put(CapacityOf(lobby), g, max)
    BY <1>1, <2>1, <2>2, CreateGameOpens
  <2>4. R!Open(g, max)
    BY <2>3 DEF R!Open, R!Put, Put, RosterOf, CapacityOf
  <2> QED
    BY <2>4 DEF R!Next
<1>7. ASSUME NEW c \in Conn, NEW g \in Gid, NEW p \in Pid, Egam(c, g, p)
      PROVE  R!Next
  <2>1. /\ lobby' = EnterGame(lobby, Alive, g, c, p) /\ g \in DOMAIN lobby.games
        /\ lobby.games[g].currentPlayers < lobby.games[g].maxPlayers
    BY <1>7 DEF Egam, Packet
  <2>2. Moves(lobby, g, p, lobby')
    BY <1>1, <2>1, EnterGameJoins
  <2>3. lobby.games[g].currentPlayers = Cardinality(DOMAIN lobby.games[g].players)
    BY <1>1, <2>1 DEF SoundLobby, GamesSound, SoundGame, Seated
  <2>4. R!Cardinality(DOMAIN lobby.games[g].players) < lobby.games[g].maxPlayers
    BY <2>1, <2>3 DEF R!Cardinality, Cardinality
  <2>5. R!Join(g, p)
    BY <2>1, <2>2, <2>4 DEF R!Join, Moves, RosterOf, CapacityOf
  <2> QED
    BY <2>5 DEF R!Next
<1>8. ASSUME NEW c \in Conn, NEW g \in Gid, NEW p \in Pid, Ecnl(c, g, p) \/ Kick(c, g, p)
      PROVE  R!Next
  <2>1. lobby' = RemovePlayer(lobby, Alive, g, p) /\ InGame(lobby, g, p)
    BY <1>8 DEF Ecnl, Kick, Packet
  <2>2. R!Depart({}, {p})
    BY <1>1, <1>3, <2>1, RemovePlayerDeparts
  <2> QED
    BY <2>2 DEF R!Next
<1>9. ASSUME NEW c \in Conn, NEW g \in Gid, NEW p \in Pid, NEW score \in Score,
             Upla(c, g, p, score)
      PROVE  UNCHANGED R!rosterVars
  <2>1. lobby' = UpdatePlayerAttributes(lobby, g, p, score) /\ InGame(lobby, g, p)
    BY <1>9 DEF Upla, Packet
  <2> QED
    BY <1>1, <1>2, <2>1, UpdateKeepsRoster
<1>10. CASE Clear
  <2>1. lobby'.games = EmptyMap
    BY <1>10 DEF Clear, EmptyLobby
  <2>2. Departs(lobby, lobby', DOMAIN lobby.games, {})
    BY <2>1 DEF Departs, EmptyMap, RosterOf, CapacityOf, Without
  <2>3. R!Depart(DOMAIN lobby.games, {})
    BY <1>3, <2>2
  <2> QED
    BY <2>3 DEF R!Next
<1>11. CASE TcpStop
  BY <1>2, <1>11 DEF TcpStop
<1>12. CASE UNCHANGED vars
  BY <1>2, <1>12 DEF vars
<1> QED
  BY <1>4, <1>5, <1>6, <1>7, <1>8, <1>9, <1>10, <1>11, <1>12 DEF Next

\* The four Maps, the counts and the slots of LobbyManager implement Roster,
\* where joining a game and leaving the last one are one step, nobody joins a
\* full game, and one drop closes at most one game and takes out one player.
THEOREM RosterImplemented == Spec => ImplementsRoster
<1> QED
  BY InitRoster, NextRoster, InvariantHolds, PTL DEF Spec, ImplementsRoster, R!Spec

-----------------------------------------------------------------------------
(* Clients that keep to one role per connection. *)

\* What such clients keep true of the lobby: a player sits on the connection
\* that may enter it, connToPlayer is the inverse of that, and connToGameHost
\* finds every game.
PlayerIndexed(L, g, p) ==
  LET c == L.games[g].players[p].connection
  IN  /\ <<c, p>> \in Enters
      /\ c \in DOMAIN L.connToPlayer
      /\ L.connToPlayer[c].gid = g /\ L.connToPlayer[c].pid = p

EntrySeated(L, c) ==
  LET at == L.connToPlayer[c]
  IN  InGame(L, at.gid, at.pid) /\ L.games[at.gid].players[at.pid].connection = c

GameIndexed(L, g) == /\ L.games[g].hostConnection \in DOMAIN L.connToGameHost
                     /\ L.connToGameHost[L.games[g].hostConnection] = g

OneRole(L) ==
  /\ \A g \in DOMAIN L.games : \A p \in DOMAIN L.games[g].players : PlayerIndexed(L, g, p)
  /\ \A c \in DOMAIN L.connToPlayer : EntrySeated(L, c)
  /\ \A g \in DOMAIN L.games : GameIndexed(L, g)

\* Every host and every player of the lobby is on a connection among H.
LivesOn(L, H) ==
  \A g \in DOMAIN L.games :
    /\ L.games[g].hostConnection \in H
    /\ \A p \in DOMAIN L.games[g].players : L.games[g].players[p].connection \in H

\* From L to M nobody comes and nobody changes connections.
NobodyComes(L, M) ==
  \A g \in DOMAIN M.games :
    /\ g \in DOMAIN L.games
    /\ M.games[g].hostConnection = L.games[g].hostConnection
    /\ \A p \in DOMAIN M.games[g].players :
         /\ p \in DOMAIN L.games[g].players
         /\ M.games[g].players[p].connection = L.games[g].players[p].connection

LEMMA RemovePlayerOneRole ==
  ASSUME NEW L, SoundLobby(L), OneRole(L), NEW alive, NEW g, NEW p,
         InGame(L, g, p), NEW M, M = RemovePlayer(L, alive, g, p)
  PROVE  /\ OneRole(M) /\ NobodyComes(L, M)
         /\ \A h \in DOMAIN L.games : \A q \in DOMAIN L.games[h].players :
              q # p => InGame(M, h, q)
<1> DEFINE c == L.games[g].players[p].connection
<1>1. /\ DOMAIN M.games = DOMAIN L.games
      /\ \A h \in DOMAIN L.games : h # g => M.games[h] = L.games[h]
      /\ SameGame(M.games[g], L.games[g])
      /\ M.games[g].players = Delete(L.games[g].players, p)
      /\ M.connToGameHost = L.connToGameHost
      /\ M.connToPlayer = Delete(L.connToPlayer, c)
  BY RemovePlayerEffect DEF SoundLobby
<1>2. g \in DOMAIN L.games /\ p \in DOMAIN L.games[g].players
  BY DEF InGame
<1>3. \A h \in DOMAIN L.games : h # g => p \notin DOMAIN L.games[h].players
  BY DEF SoundLobby, IndexExact, InGame
<1>4. \A h \in DOMAIN M.games : DOMAIN M.games[h].players = DOMAIN L.games[h].players \ {p}
  BY <1>1, <1>3 DEF Delete, Without
<1>5. \A h \in DOMAIN M.games : \A q \in DOMAIN M.games[h].players :
        M.games[h].players[q] = L.games[h].players[q]
  BY <1>1, <1>4 DEF Delete, Without
<1>6. \A h \in DOMAIN M.games : M.games[h].hostConnection = L.games[h].hostConnection
  BY <1>1 DEF SameGame
\* The connection of p is nobody else's.
<1>7. ASSUME NEW h \in DOMAIN L.games, NEW q \in DOMAIN L.games[h].players, q # p
      PROVE  L.games[h].players[q].connection # c
  <2>1. PlayerIndexed(L, h, q) /\ PlayerIndexed(L, g, p)
    BY <1>2 DEF OneRole
  <2> QED
    BY <1>7, <2>1 DEF PlayerIndexed
<1>8. /\ DOMAIN M.connToPlayer = DOMAIN L.connToPlayer \ {c}
      /\ \A d \in DOMAIN M.connToPlayer : M.connToPlayer[d] = L.connToPlayer[d]
  BY <1>1 DEF Delete, Without
<1> HIDE DEF c
<1>9. ASSUME NEW d \in DOMAIN M.connToPlayer
      PROVE  EntrySeated(M, d)
  <2> DEFINE h == L.connToPlayer[d].gid
             q == L.connToPlayer[d].pid
  <2>1. InGame(L, h, q) /\ L.games[h].players[q].connection = d /\ d # c
    BY <1>8 DEF OneRole, EntrySeated
  <2>2. M.connToPlayer[d].gid = h /\ M.connToPlayer[d].pid = q
    BY <1>8
  <2>3. q # p
    BY <1>2, <1>3, <2>1 DEF c, InGame
  <2> HIDE DEF h, q
  <2> QED
    BY <1>1, <1>4, <1>5, <2>1, <2>2, <2>3 DEF InGame, EntrySeated
<1>10. ASSUME NEW h \in DOMAIN M.games, NEW q \in DOMAIN M.games[h].players
       PROVE  PlayerIndexed(M, h, q)
  <2>1. /\ h \in DOMAIN L.games /\ q \in DOMAIN L.games[h].players /\ q # p
        /\ M.games[h].players[q] = L.games[h].players[q]
    BY <1>1, <1>4, <1>5
  <2>2. PlayerIndexed(L, h, q) /\ L.games[h].players[q].connection # c
    BY <1>7, <2>1 DEF OneRole
  <2> QED
    BY <1>8, <2>1, <2>2 DEF PlayerIndexed
<1>11. ASSUME NEW h \in DOMAIN M.games
       PROVE  GameIndexed(M, h)
  <2>1. GameIndexed(L, h)
    BY <1>1 DEF OneRole
  <2> QED
    BY <1>1, <1>6, <2>1 DEF GameIndexed
<1>12. OneRole(M)
  BY <1>9, <1>10, <1>11 DEF OneRole
<1>13. NobodyComes(L, M)
  BY <1>1, <1>4, <1>5, <1>6 DEF NobodyComes
<1> QED
  BY <1>1, <1>4, <1>12, <1>13 DEF InGame

LEMMA RemoveGameOneRole ==
  ASSUME NEW L, SoundLobby(L), OneRole(L), NEW g, g \in DOMAIN L.games,
         NEW M, M = RemoveGame(L, g)
  PROVE  OneRole(M) /\ NobodyComes(L, M) /\ M.games = Delete(L.games, g)
<1>1. /\ M.games = Delete(L.games, g)
      /\ M.connToGameHost = Delete(L.connToGameHost, L.games[g].hostConnection)
      /\ M.connToPlayer = Without(L.connToPlayer, ConnsOf(L, g))
  BY RemoveGameEffect DEF SoundLobby
<1>2. /\ DOMAIN M.games = DOMAIN L.games \ {g}
      /\ \A h \in DOMAIN M.games : M.games[h] = L.games[h]
      /\ DOMAIN M.connToPlayer = DOMAIN L.connToPlayer \ ConnsOf(L, g)
      /\ \A d \in DOMAIN M.connToPlayer : M.connToPlayer[d] = L.connToPlayer[d]
      /\ DOMAIN M.connToGameHost = DOMAIN L.connToGameHost \ {L.games[g].hostConnection}
      /\ \A d \in DOMAIN M.connToGameHost : M.connToGameHost[d] = L.connToGameHost[d]
  BY <1>1 DEF Delete, Without
<1>3. \A d \in ConnsOf(L, g) : L.connToPlayer[d].gid = g
  <2> SUFFICES ASSUME NEW d \in ConnsOf(L, g)
               PROVE  L.connToPlayer[d].gid = g
    OBVIOUS
  <2>1. PICK p \in DOMAIN L.games[g].players : d = L.games[g].players[p].connection
    BY DEF ConnsOf
  <2>2. PlayerIndexed(L, g, p)
    BY DEF OneRole
  <2> QED
    BY <2>1, <2>2 DEF PlayerIndexed
<1>4. ASSUME NEW h \in DOMAIN M.games, NEW q \in DOMAIN M.games[h].players
      PROVE  PlayerIndexed(M, h, q)
  <2>1. M.games[h] = L.games[h] /\ h \in DOMAIN L.games /\ h # g
    BY <1>2
  <2>2. PlayerIndexed(L, h, q)
    BY <2>1 DEF OneRole
  <2>3. L.games[h].players[q].connection \notin ConnsOf(L, g)
    BY <1>3, <2>1, <2>2 DEF PlayerIndexed
  <2> QED
    BY ZenonT(40), <1>2, <2>1, <2>2, <2>3 DEF PlayerIndexed
<1>5. ASSUME NEW d \in DOMAIN M.connToPlayer
      PROVE  EntrySeated(M, d)
  <2> DEFINE h == L.connToPlayer[d].gid
             q == L.connToPlayer[d].pid
  <2>1. InGame(L, h, q) /\ L.games[h].players[q].connection = d /\ d \notin ConnsOf(L, g)
    BY <1>2 DEF OneRole, EntrySeated
  <2>2. M.connToPlayer[d].gid = h /\ M.connToPlayer[d].pid = q
    BY <1>2
  <2> HIDE DEF h, q
  <2>3. h # g
    BY <2>1 DEF ConnsOf, InGame
  <2> QED
    BY <1>2, <2>1, <2>2, <2>3 DEF InGame, EntrySeated
<1>6. ASSUME NEW h \in DOMAIN M.games
      PROVE  GameIndexed(M, h)
  <2>1. M.games[h] = L.games[h] /\ GameIndexed(L, h) /\ GameIndexed(L, g) /\ h # g
    BY <1>2 DEF OneRole
  <2> QED
    BY <1>2, <2>1 DEF GameIndexed
<1> QED
  BY <1>1, <1>2, <1>4, <1>5, <1>6 DEF OneRole, NobodyComes

LEMMA CreateGameOneRole ==
  ASSUME NEW L, SoundLobby(L), OneRole(L), NEW c, c \notin DOMAIN L.connToGameHost,
         NEW lid, NEW max, NEW M, M = CreateGame(L, c, lid, max),
         NEW H, LivesOn(L, H), c \in H
  PROVE  OneRole(M) /\ LivesOn(M, H)
<1>1. PICK g : g = L.nextGid
  OBVIOUS
<1>2. g \notin DOMAIN L.games
  BY <1>1, CreateGameOpens
<1>3. /\ DOMAIN M.games = DOMAIN L.games \cup {g}
      /\ \A h \in DOMAIN L.games : h # g => M.games[h] = L.games[h]
      /\ M.games[g].hostConnection = c /\ M.games[g].players = EmptyMap
      /\ M.connToGameHost = Put(L.connToGameHost, c, g)
      /\ M.connToPlayer = L.connToPlayer
  BY <1>1, CreateGameEffect DEF SoundLobby
<1>4. DOMAIN M.games[g].players = {}
  BY <1>3 DEF EmptyMap
<1>5. /\ DOMAIN M.connToGameHost = DOMAIN L.connToGameHost \cup {c}
      /\ M.connToGameHost[c] = g
      /\ \A d \in DOMAIN L.connToGameHost : d # c => M.connToGameHost[d] = L.connToGameHost[d]
  BY <1>3 DEF Put
<1>6. ASSUME NEW h \in DOMAIN M.games
      PROVE  GameIndexed(M, h)
  <2>1. CASE h = g
    BY <1>3, <1>5, <2>1 DEF GameIndexed
  <2>2. CASE h # g
    <3>1. h \in DOMAIN L.games /\ M.games[h] = L.games[h] /\ GameIndexed(L, h)
      BY <1>3, <2>2 DEF OneRole
    <3> QED
      BY <1>5, <3>1 DEF GameIndexed
  <2> QED
    BY <2>1, <2>2
<1>7. ASSUME NEW d \in DOMAIN M.connToPlayer
      PROVE  EntrySeated(M, d)
  <2>1. EntrySeated(L, d) /\ M.connToPlayer[d] = L.connToPlayer[d]
    BY <1>3 DEF OneRole
  <2>2. ASSUME NEW h, NEW p, InGame(L, h, p)
        PROVE  InGame(M, h, p) /\ M.games[h] = L.games[h]
    BY <1>2, <1>3, <2>2 DEF InGame
  <2> QED
    BY <2>1, <2>2 DEF EntrySeated
<1>8. ASSUME NEW h \in DOMAIN M.games, NEW p \in DOMAIN M.games[h].players
      PROVE  PlayerIndexed(M, h, p)
  <2>1. h \in DOMAIN L.games /\ M.games[h] = L.games[h]
    BY <1>3, <1>4
  <2>2. PlayerIndexed(L, h, p)
    BY <2>1 DEF OneRole
  <2> QED
    BY <1>3, <2>1, <2>2 DEF PlayerIndexed
<1>9. OneRole(M)
  BY <1>6, <1>7, <1>8 DEF OneRole
<1> QED
  BY <1>2, <1>3, <1>4, <1>9 DEF LivesOn

LEMMA UpdateOneRole ==
  ASSUME NEW L, SoundLobby(L), OneRole(L), NEW g, NEW p, NEW score, InGame(L, g, p),
         NEW M, M = UpdatePlayerAttributes(L, g, p, score)
  PROVE  OneRole(M) /\ NobodyComes(L, M)
<1>1. /\ DOMAIN M.games = DOMAIN L.games
      /\ \A h \in DOMAIN L.games : h # g => M.games[h] = L.games[h]
      /\ SameGame(M.games[g], L.games[g])
      /\ DOMAIN M.games[g].players = DOMAIN L.games[g].players
      /\ \A q \in DOMAIN L.games[g].players :
           M.games[g].players[q].connection = L.games[g].players[q].connection
      /\ M.connToGameHost = L.connToGameHost
      /\ M.connToPlayer = L.connToPlayer
  BY UpdateEffect DEF SoundLobby
<1>2. \A h \in DOMAIN L.games :
        /\ DOMAIN M.games[h].players = DOMAIN L.games[h].players
        /\ M.games[h].hostConnection = L.games[h].hostConnection
        /\ \A q \in DOMAIN L.games[h].players :
             M.games[h].players[q].connection = L.games[h].players[q].connection
  BY <1>1 DEF SameGame
<1>3. \A h, q : InGame(M, h, q) <=> InGame(L, h, q)
  BY <1>1, <1>2 DEF InGame
<1>4. ASSUME NEW h \in DOMAIN M.games, NEW q \in DOMAIN M.games[h].players
      PROVE  PlayerIndexed(M, h, q)
  <2>1. h \in DOMAIN L.games /\ q \in DOMAIN L.games[h].players
    BY <1>1, <1>2
  <2>2. PlayerIndexed(L, h, q)
    BY <2>1 DEF OneRole
  <2> QED
    BY <1>1, <1>2, <2>1, <2>2 DEF PlayerIndexed
<1>5. ASSUME NEW d \in DOMAIN M.connToPlayer
      PROVE  EntrySeated(M, d)
  <2>1. EntrySeated(L, d)
    BY <1>1 DEF OneRole
  <2> DEFINE g2 == L.connToPlayer[d].gid
             p2 == L.connToPlayer[d].pid
  <2>2. M.connToPlayer[d] = L.connToPlayer[d]
    BY <1>1
  <2>3. InGame(L, g2, p2) /\ L.games[g2].players[p2].connection = d
    BY <2>1 DEF EntrySeated
  <2>4. InGame(M, g2, p2)
    BY <1>3, <2>3
  <2>5. M.games[g2].players[p2].connection = d
    BY <1>2, <2>3 DEF InGame
  <2> QED
    BY <2>2, <2>4, <2>5 DEF EntrySeated
<1>6. ASSUME NEW h \in DOMAIN M.games
      PROVE  GameIndexed(M, h)
  <2>1. GameIndexed(L, h)
    BY <1>1 DEF OneRole
  <2> QED
    BY <1>1, <1>2, <2>1 DEF GameIndexed
<1>7. OneRole(M)
  BY <1>4, <1>5, <1>6 DEF OneRole
<1> QED
  BY <1>1, <1>2, <1>7 DEF NobodyComes

\* Whoever plays in L, except p, plays in M on the same connection.
Spares(L, M, p) ==
  \A h \in DOMAIN L.games : \A q \in DOMAIN L.games[h].players :
    q # p => /\ InGame(M, h, q)
             /\ M.games[h].players[q].connection = L.games[h].players[q].connection

\* The player p of connection c is seated in g, and whoever else plays stays.
LEMMA SeatOneRole ==
  ASSUME Disciplined, NEW L, LobbyType(L), OneRole(L), NEW alive,
         NEW g, g \in DOMAIN L.games, NEW c, NEW p, <<c, p>> \in Enters,
         \A h \in DOMAIN L.games : h # g => p \notin DOMAIN L.games[h].players,
         NEW M, M = Seat(L, alive, g, c, p),
         NEW H, LivesOn(L, H), c \in H
  PROVE  OneRole(M) /\ LivesOn(M, H) /\ Spares(L, M, p)
<1>1. Seats(L, alive, g, c, p, M)
  BY SeatEffect
\* The clients' discipline.
<1>2. \A d, q : <<d, q>> \in Enters => (d = c <=> q = p)
  BY DEF Disciplined
<1>3. /\ DOMAIN M.games = DOMAIN L.games
      /\ \A h \in DOMAIN L.games : M.games[h].hostConnection = L.games[h].hostConnection
      /\ M.connToGameHost = L.connToGameHost
  BY <1>1 DEF Seats, SameGame
<1>4. \A h \in DOMAIN L.games : \A q \in DOMAIN L.games[h].players :
        q # p => q \in DOMAIN M.games[h].players /\ M.games[h].players[q] = L.games[h].players[q]
  BY <1>1 DEF Seats
<1>5. \A h \in DOMAIN L.games : \A q \in DOMAIN M.games[h].players :
        \/ q # p /\ q \in DOMAIN L.games[h].players
        \/ h = g /\ q = p
  BY <1>1 DEF Seats
<1>6. p \in DOMAIN M.games[g].players /\ M.games[g].players[p].connection = c
  BY <1>1 DEF Seats
<1>7. /\ DOMAIN M.connToPlayer = DOMAIN L.connToPlayer \cup {c}
      /\ M.connToPlayer[c].gid = g /\ M.connToPlayer[c].pid = p
      /\ \A d \in DOMAIN L.connToPlayer : d # c => M.connToPlayer[d] = L.connToPlayer[d]
  <2> DEFINE at == [gid |-> g, pid |-> p]
  <2>1. at.gid = g /\ at.pid = p
    OBVIOUS
  <2>2. M.connToPlayer = Put(L.connToPlayer, c, at)
    BY <1>1 DEF Seats
  <2> HIDE DEF at
  <2> QED
    BY <2>1, <2>2 DEF Put
<1>8. ASSUME NEW h \in DOMAIN L.games, NEW q \in DOMAIN L.games[h].players, q # p
      PROVE  /\ PlayerIndexed(L, h, q) /\ L.games[h].players[q].connection # c
             /\ PlayerIndexed(M, h, q)
  <2>1. PlayerIndexed(L, h, q)
    BY DEF OneRole
  <2>2. L.games[h].players[q].connection # c
    BY <1>2, <1>8, <2>1 DEF PlayerIndexed
  <2> DEFINE d == L.games[h].players[q].connection
  <2>3. M.games[h].players[q] = L.games[h].players[q]
    BY <1>4, <1>8
  <2>4. /\ <<d, q>> \in Enters /\ d \in DOMAIN L.connToPlayer
        /\ L.connToPlayer[d].gid = h /\ L.connToPlayer[d].pid = q
    BY <2>1 DEF PlayerIndexed
  <2>5. d \in DOMAIN M.connToPlayer /\ M.connToPlayer[d] = L.connToPlayer[d]
    BY <1>7, <2>2, <2>4
  <2>6. PlayerIndexed(M, h, q)
    BY <2>3, <2>4, <2>5 DEF PlayerIndexed
  <2> QED
    BY <2>1, <2>2, <2>6
<1>9. PlayerIndexed(M, g, p)
  BY <1>6, <1>7 DEF PlayerIndexed
<1>10. \A h \in DOMAIN M.games : \A q \in DOMAIN M.games[h].players : PlayerIndexed(M, h, q)
  BY <1>3, <1>5, <1>8, <1>9
<1>11. ASSUME NEW d \in DOMAIN M.connToPlayer
       PROVE  EntrySeated(M, d)
  <2>1. CASE d = c
    BY <1>3, <1>6, <1>7, <2>1 DEF EntrySeated, InGame
  <2>2. CASE d # c
    <3> DEFINE h == L.connToPlayer[d].gid
               q == L.connToPlayer[d].pid
    <3>1. d \in DOMAIN L.connToPlayer /\ M.connToPlayer[d] = L.connToPlayer[d]
      BY <1>7, <2>2
    <3>2. InGame(L, h, q) /\ L.games[h].players[q].connection = d
      BY <3>1 DEF OneRole, EntrySeated
    <3> HIDE DEF h, q
    <3>3. PlayerIndexed(L, h, q)
      BY <3>2 DEF OneRole, InGame
    <3>4. q # p
      BY <1>2, <2>2, <3>2, <3>3 DEF PlayerIndexed
    <3>5. InGame(M, h, q) /\ M.games[h].players[q].connection = d
      BY <1>3, <1>4, <3>2, <3>4 DEF InGame
    <3> QED
      BY <3>1, <3>5 DEF EntrySeated, h, q
  <2> QED
    BY <2>1, <2>2
<1>12. ASSUME NEW h \in DOMAIN M.games
       PROVE  GameIndexed(M, h)
  <2>1. GameIndexed(L, h)
    BY <1>3 DEF OneRole
  <2> QED
    BY <1>3, <2>1 DEF GameIndexed
<1>13. OneRole(M)
  BY <1>10, <1>11, <1>12 DEF OneRole
<1>14. LivesOn(M, H)
  BY <1>3, <1>4, <1>5, <1>6 DEF LivesOn
<1> QED
  BY <1>3, <1>4, <1>13, <1>14 DEF InGame, Spares

\* What enterGame leaves behind, and whom it spares.
LEMMA EnterGameOneRole ==
  ASSUME Disciplined, NEW L, SoundLobby(L), OneRole(L), NEW alive,
         NEW g, g \in DOMAIN L.games, NEW c, NEW p, <<c, p>> \in Enters,
         NEW N, N = EnterGame(L, alive, g, c, p),
         NEW H, LivesOn(L, H), c \in H
  PROVE  OneRole(N) /\ LivesOn(N, H) /\ Spares(L, N, p)
<1>1. PICK M : M = LeavePrevious(L, alive, g, p)
  OBVIOUS
<1>2. /\ SoundLobby(M) /\ OneRole(M) /\ LivesOn(M, H) /\ g \in DOMAIN M.games
      /\ \A h \in DOMAIN M.games : h # g => p \notin DOMAIN M.games[h].players
      /\ Spares(L, M, p)
  <2>1. CASE p \in DOMAIN L.playerToGame /\ L.playerToGame[p] # g
    <3>1. PICK h : h = L.playerToGame[p] /\ h # g
      BY <2>1
    <3>2. InGame(L, h, p) /\ M = RemovePlayer(L, alive, h, p)
      BY <1>1, <2>1, <3>1 DEF SoundLobby, IndexExact, LeavePrevious
    <3>3. SoundLobby(M)
      BY <3>2, RemovePlayerSound
    <3>4. /\ OneRole(M) /\ NobodyComes(L, M)
          /\ \A f \in DOMAIN L.games : \A q \in DOMAIN L.games[f].players :
               q # p => InGame(M, f, q)
      BY <3>2, RemovePlayerOneRole
    <3>5. p \notin DOMAIN M.playerToGame /\ DOMAIN M.games = DOMAIN L.games
      BY <3>2, RemovePlayerElsewhere
    <3>6. \A f \in DOMAIN M.games : p \notin DOMAIN M.games[f].players
      BY <3>3, <3>5 DEF SoundLobby, IndexExact
    <3>7. LivesOn(M, H)
      BY <3>4 DEF LivesOn, NobodyComes
    <3>8. \A f \in DOMAIN L.games : \A q \in DOMAIN L.games[f].players :
            q # p => M.games[f].players[q].connection = L.games[f].players[q].connection
      BY <3>4 DEF NobodyComes, InGame
    <3> QED
      BY <3>3, <3>4, <3>5, <3>6, <3>7, <3>8 DEF Spares
  <2>2. CASE ~ (p \in DOMAIN L.playerToGame /\ L.playerToGame[p] # g)
    <3>1. M = L
      BY <1>1, <2>2 DEF LeavePrevious
    <3>2. \A h \in DOMAIN L.games : h # g => p \notin DOMAIN L.games[h].players
      BY <2>2 DEF SoundLobby, IndexExact
    <3> QED
      BY <3>1, <3>2 DEF InGame, Spares
  <2> QED
    BY <2>1, <2>2
<1>3. N = Seat(M, alive, g, c, p) /\ LobbyType(M)
  BY <1>1, <1>2 DEF EnterGame, SoundLobby
<1>4. OneRole(N) /\ LivesOn(N, H) /\ Spares(M, N, p)
  BY <1>2, <1>3, SeatOneRole
<1> QED
  BY <1>2, <1>4 DEF InGame, Spares

\* No game and no player of N is on connection c.
GoneFrom(N, c) ==
  \A g \in DOMAIN N.games :
    /\ N.games[g].hostConnection # c
    /\ \A p \in DOMAIN N.games[g].players : N.games[g].players[p].connection # c

\* A drop takes every trace of c out of the lobby, and of nobody else who was
\* not in a game of c.
LEMMA DisconnectOneRole ==
  ASSUME NEW L, SoundLobby(L), OneRole(L), NEW alive, NEW c,
         NEW N, N = HandleDisconnect(L, alive, c)
  PROVE  /\ OneRole(N) /\ NobodyComes(L, N)
         /\ GoneFrom(N, c)
         /\ \A g \in DOMAIN L.games : \A p \in DOMAIN L.games[g].players :
              \/ L.games[g].players[p].connection = c
              \/ L.games[g].hostConnection = c
              \/ InGame(N, g, p)
<1>1. PICK M : M = DropHost(L, c)
  OBVIOUS
<1>2. /\ SoundLobby(M) /\ OneRole(M) /\ NobodyComes(L, M)
      /\ \A g \in DOMAIN M.games : M.games[g].hostConnection # c
      /\ \A g \in DOMAIN L.games :
           L.games[g].hostConnection # c => g \in DOMAIN M.games /\ M.games[g] = L.games[g]
  <2>1. SoundLobby(M)
    BY <1>1, RemoveGameSound DEF DropHost
  <2>2. CASE c \notin DOMAIN L.connToGameHost
    <3>1. M = L
      BY <1>1, <2>2 DEF DropHost
    <3>2. \A g \in DOMAIN L.games : L.games[g].hostConnection # c
      BY <2>2 DEF OneRole, GameIndexed
    <3> QED
      BY <3>1, <3>2, <2>1 DEF NobodyComes
  <2>3. CASE c \in DOMAIN L.connToGameHost
    <3>1. PICK g : g = L.connToGameHost[c]
      OBVIOUS
    <3>2. g \in DOMAIN L.games /\ L.games[g].hostConnection = c /\ M = RemoveGame(L, g)
      BY <1>1, <2>3, <3>1 DEF SoundLobby, HostsSound, DropHost
    <3>3. OneRole(M) /\ NobodyComes(L, M) /\ M.games = Delete(L.games, g)
      BY <3>2, RemoveGameOneRole
    <3>4. /\ DOMAIN M.games = DOMAIN L.games \ {g}
          /\ \A h \in DOMAIN M.games : M.games[h] = L.games[h]
      BY <3>3 DEF Delete, Without
    <3>5. \A h \in DOMAIN L.games : L.games[h].hostConnection = c => h = g
      BY <3>1 DEF OneRole, GameIndexed
    <3> QED
      BY <2>1, <3>2, <3>3, <3>4, <3>5
  <2> QED
    BY <2>2, <2>3
<1>3. N = DropPlayer(M, alive, c)
  BY <1>1 DEF HandleDisconnect
<1>4. /\ OneRole(N) /\ NobodyComes(M, N)
      /\ \A g \in DOMAIN N.games : \A p \in DOMAIN N.games[g].players :
           N.games[g].players[p].connection # c
      /\ \A g \in DOMAIN M.games : \A p \in DOMAIN M.games[g].players :
           M.games[g].players[p].connection = c \/ InGame(N, g, p)
  <2>1. CASE c \notin DOMAIN M.connToPlayer
    <3>1. N = M
      BY <1>3, <2>1 DEF DropPlayer
    <3>2. ASSUME NEW g \in DOMAIN M.games, NEW p \in DOMAIN M.games[g].players
          PROVE  M.games[g].players[p].connection # c
      <4>1. PlayerIndexed(M, g, p)
        BY <1>2 DEF OneRole
      <4> QED
        BY <2>1, <4>1 DEF PlayerIndexed
    <3> QED
      BY <1>2, <3>1, <3>2 DEF NobodyComes, InGame
  <2>2. CASE c \in DOMAIN M.connToPlayer
    <3>1. PICK g, p : g = M.connToPlayer[c].gid /\ p = M.connToPlayer[c].pid
      OBVIOUS
    <3>2. /\ InGame(M, g, p) /\ M.games[g].players[p].connection = c
          /\ N = RemovePlayer(M, alive, g, p)
      BY <1>2, <1>3, <2>2, <3>1 DEF OneRole, EntrySeated, DropPlayer
    <3>3. /\ OneRole(N) /\ NobodyComes(M, N)
          /\ \A h \in DOMAIN M.games : \A q \in DOMAIN M.games[h].players :
               q # p => InGame(N, h, q)
      BY <1>2, <3>2, RemovePlayerOneRole
    <3>4. ASSUME NEW h \in DOMAIN M.games, NEW q \in DOMAIN M.games[h].players,
                 M.games[h].players[q].connection = c
          PROVE  h = g /\ q = p
      <4>1. PlayerIndexed(M, h, q)
        BY <1>2 DEF OneRole
      <4> QED
        BY <3>1, <3>4, <4>1 DEF PlayerIndexed
    <3>5. ~InGame(N, g, p)
      <4>1. N.games[g].players = Delete(M.games[g].players, p)
        BY <1>2, <3>2, RemovePlayerEffect DEF SoundLobby
      <4> QED
        BY <4>1 DEF InGame, Delete, Without
    <3>6. \A h \in DOMAIN M.games : \A q \in DOMAIN M.games[h].players : q = p => h = g
      BY <1>2, <3>2 DEF SoundLobby, IndexExact, InGame
    <3>7. \A h \in DOMAIN N.games : \A q \in DOMAIN N.games[h].players :
            N.games[h].players[q].connection # c
      BY <3>3, <3>4, <3>5 DEF NobodyComes, InGame
    <3>8. \A h \in DOMAIN M.games : \A q \in DOMAIN M.games[h].players :
            M.games[h].players[q].connection = c \/ InGame(N, h, q)
      BY <3>2, <3>3, <3>6
    <3> QED
      BY <3>3, <3>7, <3>8
  <2> QED
    BY <2>1, <2>2
<1>5. NobodyComes(L, N) /\ \A g \in DOMAIN N.games : N.games[g].hostConnection # c
  BY <1>2, <1>4 DEF NobodyComes
<1>6. ASSUME NEW g \in DOMAIN L.games, NEW p \in DOMAIN L.games[g].players,
             L.games[g].players[p].connection # c, L.games[g].hostConnection # c
      PROVE  InGame(N, g, p)
  <2>1. g \in DOMAIN M.games /\ M.games[g] = L.games[g]
    BY <1>2, <1>6
  <2> QED
    BY <1>4, <1>6, <2>1
<1> QED
  BY <1>4, <1>5, <1>6 DEF GoneFrom

\* The inductive invariant of such clients: nobody is left on a connection that
\* is gone, and nobody sends after the server stopped.
Roles == /\ OneRole(lobby)
         /\ phase # "stopped" => LivesOn(lobby, Connections)
         /\ phase = "stopped" => Connections = {}

LEMMA InitRoles == Init => Roles
BY DEF Init, Roles, OneRole, LivesOn, EmptyLobby, EmptyMap

LEMMA StepRoles ==
  ASSUME Disciplined
  PROVE  IInv /\ Roles /\ [Next]_vars => Roles'
<1> SUFFICES ASSUME IInv, Roles, [Next]_vars
             PROVE  Roles'
  OBVIOUS
<1>1. SoundLobby(lobby) /\ conn \in [Conn -> ConnState]
  BY DEF IInv
<1>2. Delivers = Connections
  BY DEF Disciplined, Delivers
\* Connections go on, and the lobby does not.
<1>3. ASSUME NEW c \in Conn, Accept(c) \/ CloseByServer(c) \/ LateSocketClose(c)
      PROVE  Roles'
  <2>1. lobby' = lobby /\ phase' = phase
    BY <1>3 DEF Accept, CloseByServer, LateSocketClose
  <2>2. Connections \subseteq Connections' /\ (phase = "stopped" => Connections' = Connections)
    BY <1>1, <1>3 DEF Accept, CloseByServer, LateSocketClose, Connections
  <2> QED
    BY <2>1, <2>2 DEF Roles, LivesOn
<1>4. ASSUME NEW c \in Conn, NEW s \in {"closed", "lingering"}, ConnectionClose(c, s)
      PROVE  Roles'
  <2>1. /\ lobby' = HandleDisconnect(lobby, Alive \ {c}, c) /\ phase' = phase
        /\ Connections' = Connections \ {c}
    BY <1>1, <1>4 DEF ConnectionClose, Connections
  <2>2. /\ OneRole(lobby') /\ NobodyComes(lobby, lobby')
        /\ GoneFrom(lobby', c)
    BY <1>1, <2>1, DisconnectOneRole DEF Roles
  <2>3. phase # "stopped" => LivesOn(lobby', Connections \ {c})
    BY <2>2 DEF Roles, LivesOn, NobodyComes, GoneFrom
  <2> QED
    BY <2>1, <2>2, <2>3 DEF Roles
<1>5. ASSUME NEW c \in Conn, SocketClose(c) \/ ActivityTimeout(c)
      PROVE  Roles'
  BY <1>4, <1>5 DEF SocketClose, ActivityTimeout
\* A packet of c is handled.
<1>6. ASSUME NEW c \in Conn, Packet(c, lobby')
      PROVE  /\ c \in Connections /\ LivesOn(lobby, Connections)
             /\ OneRole(lobby') /\ LivesOn(lobby', Connections) => Roles'
  BY <1>2, <1>6 DEF Packet, Roles, Connections
<1>7. ASSUME NEW c \in Conn, NEW lid \in Lid, NEW max \in Capacity, Cgam(c, lid, max)
      PROVE  Roles'
  <2>1. lobby' = CreateGame(lobby, c, lid, max) /\ c \notin DOMAIN lobby.connToGameHost
    BY <1>7 DEF Cgam, Packet, Disciplined
  <2>2. Packet(c, lobby')
    BY <1>7 DEF Cgam, Packet
  <2>3. OneRole(lobby') /\ LivesOn(lobby', Connections)
    BY <1>1, <1>6, <2>1, <2>2, CreateGameOneRole DEF Roles
  <2> QED
    BY <1>6, <2>2, <2>3
<1>8. ASSUME NEW c \in Conn, NEW g \in Gid, NEW p \in Pid, Egam(c, g, p)
      PROVE  Roles'
  <2>1. /\ lobby' = EnterGame(lobby, Alive, g, c, p)
        /\ g \in DOMAIN lobby.games /\ <<c, p>> \in Enters
    BY <1>8 DEF Egam, Packet
  <2>2. Packet(c, lobby')
    BY <1>8 DEF Egam, Packet
  <2>3. OneRole(lobby') /\ LivesOn(lobby', Connections)
    BY <1>1, <1>6, <2>1, <2>2, EnterGameOneRole DEF Roles
  <2> QED
    BY <1>6, <2>2, <2>3
<1>9. ASSUME NEW c \in Conn, Packet(c, lobby'), OneRole(lobby'), NobodyComes(lobby, lobby')
      PROVE  Roles'
  <2>1. LivesOn(lobby', Connections)
    BY <1>6, <1>9 DEF LivesOn, NobodyComes
  <2> QED
    BY <1>6, <1>9, <2>1
<1>10. ASSUME NEW c \in Conn, NEW g \in Gid, NEW p \in Pid, Ecnl(c, g, p) \/ Kick(c, g, p)
       PROVE  Roles'
  <2>1. lobby' = RemovePlayer(lobby, Alive, g, p) /\ InGame(lobby, g, p) /\ Packet(c, lobby')
    BY <1>10 DEF Ecnl, Kick, Packet
  <2>2. OneRole(lobby') /\ NobodyComes(lobby, lobby')
    BY <1>1, <2>1, RemovePlayerOneRole DEF Roles
  <2> QED
    BY <1>9, <2>1, <2>2
<1>11. ASSUME NEW c \in Conn, NEW g \in Gid, NEW p \in Pid, NEW score \in Score, Upla(c, g, p, score)
       PROVE  Roles'
  <2>1. /\ lobby' = UpdatePlayerAttributes(lobby, g, p, score) /\ InGame(lobby, g, p)
        /\ Packet(c, lobby')
    BY <1>11 DEF Upla, Packet
  <2>2. OneRole(lobby') /\ NobodyComes(lobby, lobby')
    BY <1>1, <2>1, UpdateOneRole DEF Roles
  <2> QED
    BY <1>9, <2>1, <2>2
<1>12. CASE Clear
  <2>1. OneRole(EmptyLobby) /\ LivesOn(EmptyLobby, Connections')
    BY DEF OneRole, LivesOn, EmptyLobby, EmptyMap
  <2> QED
    BY <1>12, <2>1 DEF Clear, Roles
<1>13. CASE TcpStop
  <2>1. Connections' = {}
    BY <1>1, <1>13 DEF TcpStop, Connections
  <2> QED
    BY <1>13, <2>1 DEF TcpStop, Roles
<1>14. CASE UNCHANGED vars
  BY <1>14 DEF vars, Roles, Connections
<1> QED
  BY <1>3, <1>5, <1>7, <1>8, <1>10, <1>11, <1>12, <1>13, <1>14 DEF Next

LEMMA RolesHold ==
  ASSUME Disciplined
  PROVE  Spec => [](IInv /\ Roles)
<1>1. Init => IInv /\ Roles
  BY InitIInv, InitRoles
<1>2. IInv /\ Roles /\ [Next]_vars => (IInv /\ Roles)'
  BY NextIInv, StepRoles
<1> QED
  BY <1>1, <1>2, PTL DEF Spec

\* Among clients that keep to one role per connection, connToPlayer finds the
\* player of every connection and never one who has left or sits elsewhere.
THEOREM ConnIndexCorrect ==
  ASSUME Disciplined
  PROVE  Spec => []ConnIndexExact
<1>1. IInv /\ Roles => ConnIndexExact
  <2> SUFFICES ASSUME IInv, Roles, NEW c \in Conn
               PROVE  PlayersOfConn(lobby, c) =
                        IF c \in DOMAIN lobby.connToPlayer
                          THEN {<<lobby.connToPlayer[c].gid, lobby.connToPlayer[c].pid>>}
                          ELSE {}
    BY DEF ConnIndexExact
  <2>1. ASSUME NEW gp \in PlayersOfConn(lobby, c)
        PROVE  /\ c \in DOMAIN lobby.connToPlayer
               /\ gp = <<lobby.connToPlayer[c].gid, lobby.connToPlayer[c].pid>>
    <3>1. PICK g \in Gid, p \in Pid : /\ gp = <<g, p>> /\ InGame(lobby, g, p)
                                      /\ lobby.games[g].players[p].connection = c
      BY DEF PlayersOfConn
    <3>2. PlayerIndexed(lobby, g, p)
      BY <3>1 DEF Roles, OneRole, InGame
    <3> QED
      BY <3>1, <3>2 DEF PlayerIndexed
  <2>2. ASSUME c \in DOMAIN lobby.connToPlayer
        PROVE  <<lobby.connToPlayer[c].gid, lobby.connToPlayer[c].pid>> \in PlayersOfConn(lobby, c)
    <3>1. EntrySeated(lobby, c)
      BY <2>2 DEF Roles, OneRole
    <3>2. lobby.connToPlayer[c] \in [gid : Gid, pid : Pid]
      BY <2>2 DEF IInv, SoundLobby, LobbyType, IsMap
    <3> QED
      BY <3>1, <3>2 DEF EntrySeated, PlayersOfConn
  <2> QED
    BY <2>1, <2>2
<1> QED
  BY <1>1, RolesHold, PTL

\* Among such clients nothing of a connection outlives it: no game without a
\* host, no player without a socket, until the server itself stops.
THEOREM NobodyHaunts ==
  ASSUME Disciplined
  PROVE  Spec => []NoGhosts
<1>1. Roles => NoGhosts
  BY DEF Roles, LivesOn, NoGhosts
<1> QED
  BY <1>1, RolesHold, PTL

\* Among such clients a drop removes the games and the player of the connection
\* that dropped, and nobody else.
THEOREM DropsExactly ==
  ASSUME Disciplined
  PROVE  Spec => DropExact
<1> DEFINE Exact(c) ==
      /\ \A g \in DOMAIN lobby'.games : lobby'.games[g].hostConnection # c
      /\ \A g \in DOMAIN lobby.games : \A p \in DOMAIN lobby.games[g].players :
           \/ lobby.games[g].players[p].connection = c
           \/ lobby.games[g].hostConnection = c
           \/ InGame(lobby', g, p)
<1>1. IInv /\ Roles /\ [Next]_vars => [\A c \in Conn : Drops(c) => Exact(c)]_vars
  <2> SUFFICES ASSUME IInv, Roles, NEW c \in Conn, Drops(c)
               PROVE  Exact(c)
    OBVIOUS
  <2>1. lobby' = HandleDisconnect(lobby, Alive \ {c}, c)
    BY DEF Drops, SocketClose, ActivityTimeout, ConnectionClose
  <2> QED
    BY <2>1, DisconnectOneRole DEF IInv, Roles, GoneFrom
<1> QED
  BY <1>1, RolesHold, PTL DEF Spec, DropExact

\* Among such clients an EGAM never unseats or moves a player who is on another
\* open connection.
THEOREM EntriesSpareOthers ==
  ASSUME Disciplined
  PROVE  Spec => EntrySparesOthers
<1> DEFINE Spared(g, q, c) ==
      \/ lobby.games[g].players[q].connection \notin Connections \ {c}
      \/ /\ InGame(lobby', g, q)
         /\ lobby'.games[g].players[q].connection = lobby.games[g].players[q].connection
<1>1. IInv /\ Roles /\ [Next]_vars =>
        [\A g \in DOMAIN lobby.games, h \in Gid, p, q \in Pid, c \in Conn :
           Egam(c, h, p) /\ q \in DOMAIN lobby.games[g].players => Spared(g, q, c)]_vars
  <2> SUFFICES ASSUME IInv, Roles, NEW g \in DOMAIN lobby.games, NEW h \in Gid,
                      NEW p \in Pid, NEW q \in DOMAIN lobby.games[g].players,
                      NEW c \in Conn, Egam(c, h, p)
               PROVE  Spared(g, q, c)
    OBVIOUS
  <2>1. /\ lobby' = EnterGame(lobby, Alive, h, c, p)
        /\ h \in DOMAIN lobby.games /\ <<c, p>> \in Enters /\ c \in Connections
    BY DEF Egam, Packet, Disciplined, Delivers
  <2>2. CASE q = p
    <3>1. PlayerIndexed(lobby, g, q)
      BY DEF Roles, OneRole
    <3> QED
      BY <2>1, <2>2, <3>1 DEF PlayerIndexed, Disciplined
  <2>3. CASE q # p
    <3>1. LivesOn(lobby, Connections)
      BY <2>1 DEF Roles
    <3>2. Spares(lobby, lobby', p)
      BY <2>1, <3>1, EnterGameOneRole DEF IInv, Roles
    <3> QED
      BY <2>3, <3>2 DEF Spares
  <2> QED
    BY <2>2, <2>3
<1> QED
  BY <1>1, RolesHold, PTL DEF Spec, EntrySparesOthers

-----------------------------------------------------------------------------
(***************************************************************************)
(* The activity monitor                                                    *)
(***************************************************************************)
\* The monitor adds clocks to the lobby and no behaviour: an eviction is the
\* timeout of Lobby, whose argument is when it may happen, and a touch, a hang
\* and the passing of time stutter.  So all that is proved of Spec above holds
\* with the monitor running (TcpServer.startActivityMonitor).
THEOREM MonitorRefinesLobby == ActSpec => Spec
<1>1. ActInit => Init
  BY DEF ActInit
<1>2. ASSUME [ActNext]_actVars
      PROVE  [Next]_vars
  <2>1. CASE UNCHANGED actVars
    BY <2>1 DEF actVars, vars
  <2>2. ASSUME NEW c \in Conn, ActPacket(c)
        PROVE  Next
    <3>1. CASE \E lid \in Lid, max \in Capacity : Cgam(c, lid, max)
      BY <3>1 DEF Next
    <3>2. ASSUME NEW g \in Gid, NEW p \in Pid,
                 \/ Egam(c, g, p) \/ Ecnl(c, g, p) \/ Kick(c, g, p)
                 \/ \E score \in Score : Upla(c, g, p, score)
          PROVE  Next
      BY <3>2 DEF Next
    <3> QED  BY <2>2, <3>1, <3>2 DEF ActPacket
  <2>3. ASSUME NEW c \in Conn,
               KeepAlive(c) \/ GoQuiet(c) \/ Expire(c)
        PROVE  UNCHANGED vars
    BY <2>3 DEF KeepAlive, GoQuiet, Expire, vars
  <2>4. ASSUME NEW c \in Conn,
               Evict(c) \/ ActSocketClose(c) \/ ActOther(c)
        PROVE  Next
    BY <2>4 DEF Evict, ActSocketClose, ActOther, Next
  <2>5. CASE ActShutdown
    BY <2>5 DEF ActShutdown, Next
  <2> QED  BY <1>2, <2>1, <2>2, <2>3, <2>4, <2>5 DEF ActNext
<1> QED  BY <1>1, <1>2, PTL DEF ActSpec, Spec


=============================================================================
