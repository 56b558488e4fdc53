-------------------------------- MODULE Lobby --------------------------------
(***************************************************************************)
(* The Theater side of fesl-engine: LobbyManager with the handlers that    *)
(* change it (CGAM, EGAM, UPLA, KICK, ECNL), and the life of the TCP       *)
(* connections whose loss must clean it up (TcpServer, FeslConnection).    *)
(*                                                                         *)
(* Every handler mutates the lobby synchronously inside the socket's       *)
(* 'data' event, so one packet is one action.  What interleaves are the    *)
(* packets of different sockets, the sockets' 'close' events, the activity *)
(* monitor's timer and the shutdown.                                       *)
(*                                                                         *)
(* Nothing ties a packet's GID and PID to the connection it came from: the *)
(* constant Enters says which player ids a connection names in EGAM, and   *)
(* the other commands may name any game and player.                        *)
(***************************************************************************)
EXTENDS Integers, FiniteSets, Maps

CONSTANTS
  Conn,       \* connections; the server never reuses a connection id
  Pid,        \* player ids
  Lid,        \* lobby ids a CGAM may name
  Capacity,   \* MAX-PLAYERS values a CGAM may announce
  Score,      \* SCORE values a UPLA may carry
  MaxGid,     \* bound: how many games are ever created
  Hosts,      \* the connections that send CGAM
  Enters,     \* <<c, p>>: connection c may send EGAM for player p
  MultiHost,  \* may a connection that hosts a game send another CGAM?
  LateData    \* may a socket deliver packets after the server gave it up?

ASSUME LobbyAssumption ==
  /\ Capacity \subseteq Int
  /\ 0 \in Score
  /\ MaxGid \in Nat
  /\ Hosts \subseteq Conn
  /\ Enters \subseteq Conn \X Pid
  /\ MultiHost \in BOOLEAN
  /\ LateData \in BOOLEAN

\* The two lobbies initializeDefaultLobbies creates.
LobbyIds == {1, 2}

Gid == 1 .. MaxGid

VARIABLES
  conn,    \* connection -> where it is in its life, see ConnState
  lobby,   \* the fields of LobbyManager, and what hosts were told
  phase    \* the server's shutdown, see stop() in server.ts

vars == <<conn, lobby, phase>>

\* "new"       not accepted yet
\* "open"      in TcpServer.connections
\* "closing"   still there, but close() was called: nothing is sent any more
\* "lingering" evicted from TcpServer.connections with its socket only ended,
\*             so that its 'data' listener still runs
\* "closed"    the socket's 'close' event has been delivered
ConnState == {"new", "open", "closing", "lingering", "closed"}

\* TcpServer.connections
Connections == {c \in Conn : conn[c] \in {"open", "closing"}}

\* The connections sendPacket still writes to.
Alive == {c \in Conn : conn[c] = "open"}

\* The connections whose packets reach a handler.
Delivers == Connections \cup
            {c \in Conn : LateData /\ conn[c] = "lingering"}
-----------------------------------------------------------------------------
(***************************************************************************)
(* LobbyManager.  Each operator below is one of its methods, as a function *)
(* from the manager's fields L to its fields afterwards.  L.told[g] is the *)
(* roster the host of g gets by adding every PENT and dropping every PLFT  *)
(* written to its socket; the methods that notify take the set `alive' of  *)
(* connections that can still be written to.                               *)
(***************************************************************************)

\* updateLobbyCounts
LobbyCounts(games) ==
  [l \in LobbyIds |-> Cardinality({g \in DOMAIN games : games[g].lid = l})]

\* Mutant of FirstFree: the number of players serves as the next slot.
NextSlot(taken, maxPlayers) == Cardinality(taken)

\* The first free slot as enterGame scans for it; maxPlayers if none is free.
FirstFree(taken, maxPlayers) ==
  CHOOSE s \in 0 .. maxPlayers : /\ s \notin taken \/ s = maxPlayers
                                 /\ 0 .. (s - 1) \subseteq taken

\* Mutant of EmptyLobby: ids start at 0, which the handlers take for `none'.
ZeroBasedLobby == [games          |-> EmptyMap,
                   playerToGame   |-> EmptyMap,
                   connToGameHost |-> EmptyMap,
                   connToPlayer   |-> EmptyMap,
                   nextGid        |-> 0,
                   numGames       |-> LobbyCounts(EmptyMap),
                   told           |-> EmptyMap]

EmptyLobby == [games          |-> EmptyMap,
               playerToGame   |-> EmptyMap,
               connToGameHost |-> EmptyMap,
               connToPlayer   |-> EmptyMap,
               nextGid        |-> 1,
               numGames       |-> LobbyCounts(EmptyMap),
               told           |-> EmptyMap]

\* createGame, for the host connection c
CreateGame(L, c, lid, max) ==
  LET game  == [lid |-> lid, maxPlayers |-> max, currentPlayers |-> 0,
                hostConnection |-> c, players |-> EmptyMap]
      games == Put(L.games, L.nextGid, game)
  IN  [L EXCEPT !.games          = games,
                !.connToGameHost = Put(@, c, L.nextGid),
                !.nextGid        = @ + 1,
                !.numGames       = LobbyCounts(games),
                !.told           = Put(@, L.nextGid, {})]

\* Mutant of RemoveGame: the players keep their index entry.
RemoveGameKeepPlayers(L, g) ==
  IF g \notin DOMAIN L.games THEN L ELSE
  LET games == Delete(L.games, g)
  IN  [L EXCEPT !.games          = games,
                !.connToGameHost = Delete(@, L.games[g].hostConnection),
                !.numGames       = LobbyCounts(games),
                !.told           = Delete(@, g)]

\* removeGame
RemoveGame(L, g) ==
  IF g \notin DOMAIN L.games THEN L ELSE
  LET game    == L.games[g]
      members == DOMAIN game.players
      games   == Delete(L.games, g)
  IN  [L EXCEPT !.games          = games,
                !.playerToGame   = Without(@, members),
                !.connToPlayer   = Without(@, {game.players[p].connection :
                                                 p \in members}),
                !.connToGameHost = Delete(@, game.hostConnection),
                !.numGames       = LobbyCounts(games),
                !.told           = Delete(@, g)]

\* game with another player Map; currentPlayers follows its size
WithPlayers(game, players) ==
  [game EXCEPT !.players = players,
               !.currentPlayers = Cardinality(DOMAIN players)]

\* A player is in a game.
InGame(L, g, p) == g \in DOMAIN L.games /\ p \in DOMAIN L.games[g].players

\* Mutants of RemovePlayer: the host is not told, or the connection keeps its
\* index entry.
RemovePlayerSilently(L, alive, g, p) ==
  IF ~InGame(L, g, p) THEN L ELSE
  LET game == L.games[g]
  IN  [L EXCEPT
         !.games        = Put(@, g, WithPlayers(game, Delete(game.players, p))),
         !.playerToGame = Delete(@, p),
         !.connToPlayer = Delete(@, game.players[p].connection)]

RemovePlayerKeepConn(L, alive, g, p) ==
  IF ~InGame(L, g, p) THEN L ELSE
  LET game == L.games[g]
  IN  [L EXCEPT
         !.games        = Put(@, g, WithPlayers(game, Delete(game.players, p))),
         !.playerToGame = Delete(@, p)]

\* removePlayer, which tells the host with PLFT
RemovePlayer(L, alive, g, p) ==
  IF ~InGame(L, g, p) THEN L ELSE
  LET game == L.games[g]
  IN  [L EXCEPT
         !.games        = Put(@, g, WithPlayers(game, Delete(game.players, p))),
         !.playerToGame = Delete(@, p),
         !.connToPlayer = Delete(@, game.players[p].connection),
         !.told         = IF game.hostConnection \in alive
                            THEN Put(@, g, L.told[g] \ {p}) ELSE @]

\* Mutants of LeavePrevious: the player stays, or the game left is closed.
StayInPrevious(L, alive, g, p) == L

ClosePrevious(L, alive, g, p) ==
  IF p \in DOMAIN L.playerToGame /\ L.playerToGame[p] # g
    THEN RemoveGame(L, L.playerToGame[p])
    ELSE L

\* The part of enterGame that runs before the slot is allocated.
LeavePrevious(L, alive, g, p) ==
  IF p \in DOMAIN L.playerToGame /\ L.playerToGame[p] # g
    THEN RemovePlayer(L, alive, L.playerToGame[p], p)
    ELSE L

\* The rest of enterGame: allocate the slot, index the player, send PENT.
Seat(L, alive, g, c, p) ==
  LET game   == L.games[g]
      taken  == {game.players[q].slot : q \in DOMAIN game.players}
      player == [slot |-> FirstFree(taken, game.maxPlayers),
                 connection |-> c, score |-> 0]
  IN  [L EXCEPT
         !.games        = Put(@, g, WithPlayers(game,
                                      Put(game.players, p, player))),
         !.playerToGame = Put(@, p, g),
         !.connToPlayer = Put(@, c, [gid |-> g, pid |-> p]),
         !.told         = IF game.hostConnection \in alive
                            THEN Put(@, g, L.told[g] \cup {p}) ELSE @]

\* enterGame, once its two checks have passed
EnterGame(L, alive, g, c, p) ==
  Seat(LeavePrevious(L, alive, g, p), alive, g, c, p)

\* updatePlayerAttributes
UpdatePlayerAttributes(L, g, p, score) ==
  IF ~InGame(L, g, p) THEN L
  ELSE [L EXCEPT !.games[g].players[p].score = score]

\* The two halves of handleDisconnect: c as a host, then c as a player.
DropHost(L, c) ==
  IF c \in DOMAIN L.connToGameHost THEN RemoveGame(L, L.connToGameHost[c])
                                   ELSE L

DropPlayer(L, alive, c) ==
  IF c \in DOMAIN L.connToPlayer
    THEN RemovePlayer(L, alive, L.connToPlayer[c].gid, L.connToPlayer[c].pid)
    ELSE L

\* Mutant of HandleDisconnect: a connection that plays is not a host.
HandleOneRole(L, alive, c) ==
  IF c \in DOMAIN L.connToPlayer THEN DropPlayer(L, alive, c)
                                 ELSE DropHost(L, c)

HandleDisconnect(L, alive, c) == DropPlayer(DropHost(L, c), alive, c)
-----------------------------------------------------------------------------
Init == /\ conn = [c \in Conn |-> "new"]
        /\ lobby = EmptyLobby
        /\ phase = "up"

\* handleNewConnection
Accept(c) == /\ conn[c] = "new"
             /\ phase # "stopped"
             /\ conn' = [conn EXCEPT ![c] = "open"]
             /\ UNCHANGED <<lobby, phase>>

\* A packet of c has been reassembled and its handler makes the lobby L.
Packet(c, L) == /\ c \in Delivers
                /\ lobby' = L
                /\ UNCHANGED <<conn, phase>>

Cgam(c, lid, max) == /\ c \in Hosts
                     /\ MultiHost \/ c \notin DOMAIN lobby.connToGameHost
                     /\ lobby.nextGid \in Gid
                     /\ Packet(c, CreateGame(lobby, c, lid, max))

\* An unknown or full game answers with an error and changes nothing.
Egam(c, g, p) == /\ <<c, p>> \in Enters
                 /\ g \in DOMAIN lobby.games
                 /\ lobby.games[g].currentPlayers < lobby.games[g].maxPlayers
                 /\ Packet(c, EnterGame(lobby, Alive, g, c, p))

\* The next three answer SUCCESS=0 or an error for a player who is not in the
\* game, and change nothing.  Any connection may send them for any player.
Upla(c, g, p, score) ==
  /\ InGame(lobby, g, p)
  /\ Packet(c, UpdatePlayerAttributes(lobby, g, p, score))

Ecnl(c, g, p) == /\ InGame(lobby, g, p)
                 /\ Packet(c, RemovePlayer(lobby, Alive, g, p))

Kick(c, g, p) == /\ InGame(lobby, g, p)
                 /\ Packet(c, RemovePlayer(lobby, Alive, g, p))

\* close() without leaving TcpServer.connections: a packet with an impossible
\* length, or the timer of the Goodbye handler.
CloseByServer(c) == /\ conn[c] = "open"
                    /\ conn' = [conn EXCEPT ![c] = "closing"]
                    /\ UNCHANGED <<lobby, phase>>

\* handleConnectionClose: c goes to state s and the lobby is told.
ConnectionClose(c, s) ==
  /\ c \in Connections
  /\ conn' = [conn EXCEPT ![c] = s]
  /\ lobby' = HandleDisconnect(lobby, Alive \ {c}, c)
  /\ UNCHANGED phase

\* The 'close' or 'error' event of the socket.
SocketClose(c) == ConnectionClose(c, "closed")

\* Mutant of ActivityTimeout: the monitor evicts without a 'disconnect'.
SilentTimeout(c) == /\ phase # "stopped"
                    /\ c \in Connections
                    /\ conn' = [conn EXCEPT ![c] = "lingering"]
                    /\ UNCHANGED <<lobby, phase>>

\* The activity monitor gives up on c: close() only ends the socket.
ActivityTimeout(c) == phase # "stopped" /\ ConnectionClose(c, "lingering")

\* The 'close' event of a connection that was evicted before: ignored.
LateSocketClose(c) == /\ conn[c] = "lingering"
                      /\ conn' = [conn EXCEPT ![c] = "closed"]
                      /\ UNCHANGED <<lobby, phase>>

\* stop(): first LobbyManager.clear, ...
Clear == /\ phase = "up"
         /\ phase' = "stopping"
         /\ lobby' = EmptyLobby
         /\ UNCHANGED conn

\* ... then, after the other listeners have closed, TcpServer.stop, which
\* forgets its connections without a 'disconnect'.
TcpStop == /\ phase = "stopping"
           /\ phase' = "stopped"
           /\ conn' = [c \in Conn |-> IF c \in Connections THEN "lingering"
                                                           ELSE conn[c]]
           /\ UNCHANGED lobby

Next ==
  \/ \E c \in Conn :
       \/ Accept(c) \/ CloseByServer(c)
       \/ SocketClose(c) \/ ActivityTimeout(c) \/ LateSocketClose(c)
       \/ \E lid \in Lid, max \in Capacity : Cgam(c, lid, max)
       \/ \E g \in Gid, p \in Pid :
            \/ Egam(c, g, p) \/ Ecnl(c, g, p) \/ Kick(c, g, p)
            \/ \E score \in Score : Upla(c, g, p, score)
  \/ Clear
  \/ TcpStop

Spec == Init /\ [][Next]_vars
-----------------------------------------------------------------------------
(* Properties that hold whatever the clients send. *)

Player == [slot : Nat, connection : Conn, score : Score]

IsGame(game) ==
  /\ game \in [lid : Lid, maxPlayers : Capacity, currentPlayers : Nat,
               hostConnection : Conn, players : {game.players}]
  /\ IsMap(game.players, Pid, Player)

LobbyType(L) ==
  /\ L \in [games : {L.games}, playerToGame : {L.playerToGame},
            connToGameHost : {L.connToGameHost},
            connToPlayer : {L.connToPlayer}, nextGid : 1 .. (MaxGid + 1),
            numGames : [LobbyIds -> Nat], told : {L.told}]
  /\ IsMap(L.games, Gid, {L.games[g] : g \in DOMAIN L.games})
  /\ \A g \in DOMAIN L.games : IsGame(L.games[g])
  /\ IsMap(L.playerToGame, Pid, Gid)
  /\ IsMap(L.connToGameHost, Conn, Gid)
  /\ IsMap(L.connToPlayer, Conn, [gid : Gid, pid : Pid])
  /\ IsMap(L.told, Gid, SUBSET Pid)
  /\ DOMAIN L.told = DOMAIN L.games

\* Every field of the manager holds what its TypeScript type declares.
TypeOK == /\ conn \in [Conn -> ConnState]
          /\ LobbyType(lobby)
          /\ phase \in {"up", "stopping", "stopped"}

\* The index playerToGame and the games' own player Maps tell the same story,
\* so that a player is in at most one game: enterGame, removePlayer and
\* removeGame each update both sides by hand.
IndexExact(L) ==
  /\ \A p \in DOMAIN L.playerToGame : InGame(L, L.playerToGame[p], p)
  /\ \A g \in DOMAIN L.games : \A p \in DOMAIN L.games[g].players :
       p \in DOMAIN L.playerToGame /\ L.playerToGame[p] = g

PlayerIndexExact == IndexExact(lobby)

\* A game never holds more players than it announced, each in a slot of its
\* own that the game has: re-entering, switching and leaving in any order
\* never make the scan of enterGame run past the last slot or reuse one.
Seated(game) ==
  /\ game.currentPlayers = Cardinality(DOMAIN game.players)
  /\ game.currentPlayers = 0 \/ game.currentPlayers <= game.maxPlayers
  /\ \A p \in DOMAIN game.players : game.players[p].slot < game.maxPlayers
  /\ \A p, q \in DOMAIN game.players :
       p # q => game.players[p].slot # game.players[q].slot

SlotsSound == \A g \in DOMAIN lobby.games : Seated(lobby.games[g])

\* connToGameHost never points at a game that is gone or that another
\* connection hosts: handleDisconnect would otherwise close somebody else's
\* game, since ids start again at 1 after clear().
HostsSound(L) ==
  \A c \in DOMAIN L.connToGameHost :
    /\ L.connToGameHost[c] \in DOMAIN L.games
    /\ L.games[L.connToGameHost[c]].hostConnection = c

HostIndexSound == HostsSound(lobby)

\* The NUM-GAMES that LLST reports is the number of games GLST would list.
LobbyCountsExact ==
  \A l \in LobbyIds : lobby.numGames[l] =
    Cardinality({g \in DOMAIN lobby.games : lobby.games[g].lid = l})

\* The Maps that LobbyManager keeps beside its games, and updates by hand in
\* every method, tell the same story as the games.
IndexesExact == PlayerIndexExact /\ HostIndexSound /\ LobbyCountsExact

\* A host that can still be reached and adds every PENT and drops every PLFT
\* it was sent has exactly the roster the lobby has: a switch of games, a
\* kick and a disconnect each owe a PLFT to the game that is left.
HostRosterExact ==
  \A g \in DOMAIN lobby.games :
    lobby.games[g].hostConnection \in Alive =>
      lobby.told[g] = DOMAIN lobby.games[g].players

-----------------------------------------------------------------------------
(* The lobby as an implementation of the abstract roster. *)

R == INSTANCE Roster
       WITH roster   <- [g \in DOMAIN lobby.games |->
                           DOMAIN lobby.games[g].players],
            capacity <- [g \in DOMAIN lobby.games |->
                           lobby.games[g].maxPlayers]

\* The four Maps of LobbyManager implement Roster: a switch of games is
\* atomic, a full game takes nobody, and a drop takes at most one game and
\* one player with it.
ImplementsRoster == R!Spec

-----------------------------------------------------------------------------
(* Properties of clients that keep to one role per connection: a            *)
(* connection speaks for one player, a player uses one connection, a host   *)
(* announces one game, and nothing arrives from a socket given up.          *)

Disciplined == /\ \A e, f \in Enters : e[1] = f[1] <=> e[2] = f[2]
               /\ ~MultiHost
               /\ ~LateData

\* handleDisconnect finds a player by connToPlayer: it is the exact inverse
\* of the connection stored with each player.
PlayersOfConn(L, c) == {gp \in Gid \X Pid :
                          /\ InGame(L, gp[1], gp[2])
                          /\ L.games[gp[1]].players[gp[2]].connection = c}

ConnIndexExact ==
  \A c \in Conn :
    PlayersOfConn(lobby, c) =
      IF c \in DOMAIN lobby.connToPlayer
        THEN {<<lobby.connToPlayer[c].gid, lobby.connToPlayer[c].pid>>}
        ELSE {}

\* Once a connection is gone from TcpServer.connections nothing of it is left:
\* every game has a host and every player a connection that will still be
\* cleaned up.  (TcpServer.stop cleans nothing up.)
NoGhosts ==
  phase # "stopped" =>
    \A g \in DOMAIN lobby.games :
      /\ lobby.games[g].hostConnection \in Connections
      /\ \A p \in DOMAIN lobby.games[g].players :
           lobby.games[g].players[p].connection \in Connections

\* When a connection drops, every game it hosts is removed, and the players
\* who go are its own or were in such a game: whoever has since come back on
\* another connection stays.
Drops(c) == SocketClose(c) \/ ActivityTimeout(c)

DropExact ==
  [][\A c \in Conn : Drops(c) =>
       /\ \A g \in DOMAIN lobby'.games : lobby'.games[g].hostConnection # c
       /\ \A g \in DOMAIN lobby.games :
            \A p \in DOMAIN lobby.games[g].players :
              \/ lobby.games[g].players[p].connection = c
              \/ lobby.games[g].hostConnection = c
              \/ InGame(lobby', g, p)]_vars

\* A player entering a game never takes the seat of a player who sits on
\* another open connection.
EntrySparesOthers ==
  [][\A g \in DOMAIN lobby.games, h \in Gid, p, q \in Pid, c \in Conn :
       Egam(c, h, p) /\ q \in DOMAIN lobby.games[g].players =>
         \/ lobby.games[g].players[q].connection \notin Connections \ {c}
         \/ /\ InGame(lobby', g, q)
            /\ lobby'.games[g].players[q].connection =
                 lobby.games[g].players[q].connection]_vars

=============================================================================
