--------------------------- MODULE LobbyActivity ---------------------------
(***************************************************************************)
(* The activity monitor of TcpServer on top of Lobby: FeslConnection keeps *)
(* lastActivityAt, every chunk read from the socket and every packet       *)
(* written to it renews it (touch()), and a timer evicts the connections   *)
(* that were not touched for activityTimeoutSecs.                          *)
(*                                                                         *)
(* Time is abstracted to one bit per connection.  A pass of the timer over *)
(* all connections is one step per evicted connection, which only adds     *)
(* interleavings.                                                          *)
(***************************************************************************)
EXTENDS Lobby

VARIABLES
  idle,    \* connection -> was it not touched for activityTimeoutSecs?
  quiet    \* connection -> has its peer hung, its socket still open?

actVars == <<conn, lobby, phase, idle, quiet>>

ActInit == /\ Init
           /\ idle = [c \in Conn |-> FALSE]
           /\ quiet = [c \in Conn |-> FALSE]

\* The connections of S are touched.
Touch(S) == idle' = [c \in Conn |-> idle[c] /\ c \notin S]

\* Mutant of Notified: PENT and PLFT go to the players of the game as well.
Broadcast(G, alive) ==
  alive \cap UNION {{lobby.games[g].hostConnection} \cup
                     {lobby.games[g].players[p].connection :
                        p \in DOMAIN lobby.games[g].players} :
                    g \in G \cap DOMAIN lobby.games}

\* The connections written to when the hosts of the games G are notified;
\* sendPacket returns early, before touch(), on a closed connection.
Notified(G, alive) ==
  alive \cap {lobby.games[g].hostConnection : g \in G \cap DOMAIN lobby.games}

\* The games player p is in, by playerToGame.
GamesOf(p) == {lobby.playerToGame[q] : q \in {p} \cap DOMAIN lobby.playerToGame}

\* The game whose host gets a PLFT because c drops.
GamesLeftByDrop(c) ==
  LET rest == DropHost(lobby, c)
  IN  {rest.connToPlayer[d].gid : d \in {c} \cap DOMAIN rest.connToPlayer}

-----------------------------------------------------------------------------
\* Packets that change the lobby.  The answer goes to c, which the chunk that
\* carried the request has touched already.
ActPacket(c) ==
  /\ ~quiet[c]
  /\ UNCHANGED quiet
  /\ \/ /\ \E lid \in Lid, max \in Capacity : Cgam(c, lid, max)
        /\ Touch({c})
     \/ \E g \in Gid, p \in Pid :
          \/ /\ Egam(c, g, p)
             /\ Touch({c} \cup Notified({g} \cup GamesOf(p), Alive))
          \/ /\ Ecnl(c, g, p)
             /\ Touch({c} \cup Notified({g}, Alive))
          \/ /\ Kick(c, g, p)
             /\ Touch({c} \cup Notified({g}, Alive) \cup
                      (Alive \cap {lobby.games[g].players[p].connection}))
          \/ /\ \E score \in Score : Upla(c, g, p, score)
             /\ Touch({c})

\* Any other packet: PING, ECHO, the lists, or a request that is refused.
KeepAlive(c) == /\ ~quiet[c]
                /\ c \in Delivers
                /\ Touch({c})
                /\ UNCHANGED <<conn, lobby, phase, quiet>>

\* The peer of c hangs: it sends nothing any more and does not close.
GoQuiet(c) == /\ conn[c] = "open"
              /\ ~quiet[c]
              /\ quiet' = [quiet EXCEPT ![c] = TRUE]
              /\ UNCHANGED <<conn, lobby, phase, idle>>

\* activityTimeoutSecs have passed since c was touched.
Expire(c) == /\ c \in Connections
             /\ ~idle[c]
             /\ idle' = [idle EXCEPT ![c] = TRUE]
             /\ UNCHANGED <<conn, lobby, phase, quiet>>

\* The monitor finds c idle and drops it.
Evict(c) == /\ idle[c]
            /\ ActivityTimeout(c)
            /\ Touch(Notified(GamesLeftByDrop(c), Alive \ {c}))
            /\ UNCHANGED quiet

\* The socket of a peer that is not hung closes.
ActSocketClose(c) == /\ ~quiet[c]
                     /\ SocketClose(c)
                     /\ Touch(Notified(GamesLeftByDrop(c), Alive \ {c}))
                     /\ UNCHANGED quiet

\* Steps that touch nobody.
ActOther(c) == /\ \/ Accept(c)
                  \/ CloseByServer(c)
                  \/ ~quiet[c] /\ LateSocketClose(c)
               /\ UNCHANGED <<idle, quiet>>

ActShutdown == (Clear \/ TcpStop) /\ UNCHANGED <<idle, quiet>>

ActNext == \/ \E c \in Conn : \/ ActPacket(c) \/ KeepAlive(c) \/ GoQuiet(c)
                              \/ Expire(c) \/ Evict(c)
                              \/ ActSocketClose(c) \/ ActOther(c)
           \/ ActShutdown

\* Time passes for a peer that hangs, and the monitor's interval timer keeps
\* firing while the server is up.  Nothing is assumed of the clients.
ActFairness == \A c \in Conn : /\ WF_actVars(quiet[c] /\ Expire(c))
                               /\ WF_actVars(Evict(c))

ActSpec == ActInit /\ [][ActNext]_actVars /\ ActFairness

-----------------------------------------------------------------------------
\* The players whose seat belongs to connection c.
SeatedOn(c) == {gp \in Gid \X Pid :
                  /\ InGame(lobby, gp[1], gp[2])
                  /\ lobby.games[gp[1]].players[gp[2]].connection = c}

\* A player whose client hangs gives up the seat sooner or later, unless the
\* connection also hosts a game: the kicks and notifications that renew its
\* activity run out.
HungPlayerLeaves ==
  \A c \in Conn : quiet[c] /\ c \notin DOMAIN lobby.connToGameHost
                   ~> (SeatedOn(c) = {} \/ phase = "stopped")

\* A host that hangs is dropped sooner or later, and its games with it.
HungHostDropped ==
  \A c \in Hosts : quiet[c] ~> (c \notin Connections \/ phase = "stopped")

=============================================================================
