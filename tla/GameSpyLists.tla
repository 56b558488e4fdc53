---------------------------- MODULE GameSpyLists ----------------------------
(***************************************************************************)
(* The GameSpy server lists of the engine: a registry in memory, fed by    *)
(* the heartbeats of game servers (UDP, which loses and reorders) and once *)
(* a minute by what the API service lists as online, and read by the       *)
(* services of GameSpyStreams and by \list\ over UDP.                      *)
(*                                                                         *)
(* The key of a server is its game, its address as rewriteAdvertisedIp     *)
(* gives it, and its port: private addresses become the public one.        *)
(***************************************************************************)
EXTENDS GameSpyStreams, Maps

CONSTANTS
  GameServer, ListKey,
  KeyOf,          \* the registry key of each game server
  Dedicated,      \* the server at DEDICATED_SERVER_IP, which seeding queries
  Stale           \* staleMs in ticks

ASSUME ListsAssumption ==
  /\ KeyOf \in [GameServer -> ListKey]
  /\ Dedicated \in GameServer
  /\ Stale \in Nat

VARIABLES
  alive,      \* the game servers that run
  api,        \* the game servers that the API lists as online
  registry,   \* per key the time since it was last heard of
  datagrams,  \* heartbeats under way
  seed,       \* the seeding that runs: where it is, and what the API listed
  conn        \* a connection of one of the services, or none

net == <<datagrams, seed>>
listsVars == <<alive, api, registry, net, conn>>

Closed == [service |-> "none"]
Idle == [pc |-> "idle", listed |-> {}]

ListsInit ==
  /\ alive \in SUBSET GameServer /\ api \in SUBSET GameServer
  /\ registry = EmptyMap /\ datagrams = {}
  /\ seed = Idle
  /\ conn = Closed

-----------------------------------------------------------------------------
(* GameServerRegistry *)

\* Mutant: an entry that is there already keeps its heartbeat.
UpsertedNew(m, k) == IF k \in DOMAIN m THEN m ELSE Put(m, k, 0)

Upserted(m, k) == Put(m, k, 0)

Fresh(m) == {k \in DOMAIN m : m[k] <= Stale}

\* list() drops what is stale, of whatever game.
Pruned(m) == [k \in Fresh(m) |-> m[k]]

ListsTick ==
  /\ \E k \in DOMAIN registry : registry[k] <= Stale
  /\ registry' = [k \in DOMAIN registry |-> IF registry[k] <= Stale THEN registry[k] + 1 ELSE registry[k]]
  /\ UNCHANGED <<alive, api, net, conn>>

-----------------------------------------------------------------------------
(* Game servers, the network and the API *)

Starts(v) ==
  /\ v \notin alive /\ alive' = alive \cup {v}
  /\ UNCHANGED <<api, registry, net, conn>>

\* In good order, with statechanged 2, or without a word.
Stops(v) ==
  /\ v \in alive /\ alive' = alive \ {v}
  /\ datagrams' \in {datagrams, datagrams \cup {<<v, "stop">>}}
  /\ UNCHANGED <<api, registry, seed, conn>>

Beats(v) ==
  /\ v \in alive /\ datagrams' = datagrams \cup {<<v, "beat">>}
  /\ UNCHANGED <<alive, api, registry, seed, conn>>

\* A heartbeat of QR1 or QR2, or statechanged = 2.
ListsHeartbeat(v) ==
  /\ <<v, "beat">> \in datagrams
  /\ datagrams' = datagrams \ {<<v, "beat">>}
  /\ registry' = Upserted(registry, KeyOf[v])
  /\ UNCHANGED <<alive, api, seed, conn>>

StateChanged(v) ==
  /\ <<v, "stop">> \in datagrams
  /\ datagrams' = datagrams \ {<<v, "stop">>}
  /\ registry' = Delete(registry, KeyOf[v])
  /\ UNCHANGED <<alive, api, seed, conn>>

Lost(d) ==
  /\ d \in datagrams /\ datagrams' = datagrams \ {d}
  /\ UNCHANGED <<alive, api, registry, seed, conn>>

\* The directory's poller.
Polled(v) ==
  /\ (v \in alive) # (v \in api)
  /\ api' = IF v \in alive THEN api \cup {v} ELSE api \ {v}
  /\ UNCHANGED <<alive, registry, net, conn>>

-----------------------------------------------------------------------------
(* seedDedicatedServer, every 60 s *)

\* listGameServers; nothing if the API does not answer.
SeedList ==
  /\ seed.pc = "idle"
  /\ \E L \in {api, {}} : seed' = [pc |-> "upsert", listed |-> L]
  /\ UNCHANGED <<alive, api, registry, datagrams, conn>>

SeedUpsert ==
  /\ seed.pc = "upsert"
  /\ LET K == {KeyOf[v] : v \in seed.listed} IN
     registry' = [k \in DOMAIN registry \cup K |-> IF k \in K THEN 0 ELSE registry[k]]
  /\ seed' = [pc |-> "query", listed |-> {}]
  /\ UNCHANGED <<alive, api, datagrams, conn>>

\* Mutant: the server is registered whether or not it answered.
SeedBlindly ==
  /\ seed.pc = "query"
  /\ seed' = [pc |-> "register", listed |-> {}]
  /\ UNCHANGED <<alive, api, registry, datagrams, conn>>

\* queryGameServer at each of its hosts, which stand for the one server.  A query of
\* a server that runs may time out at all of them.
SeedQuery ==
  /\ seed.pc = "query"
  /\ \E pc \in IF Dedicated \in alive THEN {"register", "idle"} ELSE {"idle"} :
       seed' = [pc |-> pc, listed |-> {}]
  /\ UNCHANGED <<alive, api, registry, datagrams, conn>>

\* upsert, and registerGameServer with skipQuery.
SeedRegister ==
  /\ seed.pc = "register"
  /\ registry' = Upserted(registry, KeyOf[Dedicated])
  /\ api' \in {api, api \cup {Dedicated}}
  /\ seed' = Idle
  /\ UNCHANGED <<alive, datagrams, conn>>

-----------------------------------------------------------------------------
(* The readers *)

\* \list\ in a datagram.
UdpList ==
  /\ registry' = Pruned(registry)
  /\ UNCHANGED <<alive, api, net, conn>>

Opens ==
  /\ conn = Closed
  /\ \E s \in Service : conn' = NewConnection(s)
  /\ UNCHANGED <<alive, api, registry, net>>

Writes ==
  /\ conn # Closed /\ MayWrite(conn)
  /\ \E f \in FrameKind[conn.service] : conn' = [conn EXCEPT !.sent = Append(@, f)]
  /\ UNCHANGED <<alive, api, registry, net>>

\* A chunk arrives; a list that is answered prunes the registry.
Arrives ==
  /\ conn # Closed /\ conn.open
  /\ \E n \in (conn.got + 1)..(2 * Len(conn.sent)), seen \in BOOLEAN :
       LET c == Chunk(conn, n, seen)
           new == {c.answers[i] : i \in (Len(conn.answers) + 1)..Len(c.answers)}
       IN /\ conn' = c
          /\ registry' = IF "list" \in new THEN Pruned(registry) ELSE registry
  /\ UNCHANGED <<alive, api, net>>

\* The connection ends.
Leaves ==
  /\ conn # Closed /\ conn' = Closed
  /\ UNCHANGED <<alive, api, registry, net>>

\* The engine crashes or is deployed anew: its memory is empty.
Restart ==
  /\ registry' = EmptyMap /\ seed' = Idle /\ conn' = Closed
  /\ UNCHANGED <<alive, api, datagrams>>

-----------------------------------------------------------------------------
ListsNext ==
  \/ \E v \in GameServer :
       Starts(v) \/ Stops(v) \/ Beats(v) \/ ListsHeartbeat(v) \/ StateChanged(v) \/ Polled(v)
  \/ \E d \in GameServer \X {"beat", "stop"} : Lost(d)
  \/ SeedList \/ SeedUpsert \/ SeedQuery \/ SeedRegister
  \/ UdpList \/ Opens \/ Writes \/ Arrives \/ Leaves
  \/ ListsTick \/ Restart

\* Time passes, the minute's timer runs and its calls return or time out, the
\* poller polls; a server that runs sends heartbeats, and not all of them get
\* lost; a datagram does not stay under way for ever.
ListsFairness ==
  /\ WF_listsVars(ListsTick)
  /\ WF_listsVars(SeedList) /\ WF_listsVars(SeedUpsert \/ SeedQuery \/ SeedRegister)
  /\ \A v \in GameServer :
       /\ WF_listsVars(Polled(v)) /\ WF_listsVars(Beats(v)) /\ SF_listsVars(ListsHeartbeat(v))
       /\ WF_listsVars(StateChanged(v) \/ Lost(<<v, "stop">>))

ListsSpec == ListsInit /\ [][ListsNext]_listsVars /\ ListsFairness

-----------------------------------------------------------------------------
ListsTypeOK ==
  /\ alive \subseteq GameServer /\ api \subseteq GameServer
  /\ IsMap(registry, ListKey, 0..(Stale + 1))
  /\ seed.pc \in {"idle", "upsert", "query", "register"} /\ seed.listed \subseteq GameServer

\* Of what has arrived, no answer is lost, doubled or out of order because a
\* frame came in pieces or many came at once, and none follows a refused login,
\* a logout or a bad length (the 'data' listeners).  The master server answers
\* no more than once, however many chunks hold a request or a part of one.  Both sides of chat
\* decipher every byte with the key that it was enciphered with, before, between
\* and after changes of keys.
AnswersAsked ==
  conn # Closed =>
    /\ IF conn.service = "master" THEN Len(conn.answers) <= 1
       ELSE conn.answers = Expected(conn.sent, conn.got \div 2)
    /\ conn.clear

\* A server that keeps running is listed again and again, restarts of the engine
\* and stops that arrive late notwithstanding.
AliveIsListed ==
  \A v \in GameServer : (<>[](v \in alive)) => []<>(KeyOf[v] \in Fresh(registry))

\* When the servers of a key are gone for good the key is listed no more: the
\* API's list, a seeding under way and heartbeats that arrive late bring it back
\* for a while only.
DeadIsDropped ==
  \A k \in ListKey :
    (<>[](\A v \in GameServer : KeyOf[v] = k => v \notin alive)) => <>[](k \notin Fresh(registry))

=============================================================================
