-------------------------------- MODULE Login --------------------------------
(***************************************************************************)
(* Logging in: the FESL accounts handler and Theater's CONN over the       *)
(* session store, which keeps sessions in Redis or, when Redis does not    *)
(* answer, in memory; and the GameSpy profile that LoginPersona leaves at  *)
(* the API service, by which statistics find their persona later.          *)
(*                                                                         *)
(* A login key (lkey) is the number of its session.  Handlers run beside   *)
(* each other, on one connection too, and wait at every call to Redis or   *)
(* the API.  Passwords and the other fields of an answer are left out.     *)
(***************************************************************************)
EXTENDS Naturals, Sequences, Maps

CONSTANTS
  User, Persona,    \* accounts and personas
  Owner,            \* whose persona it is: a client logs in with its own
  Fesl, Theater,    \* connections of the two services
  Slots,            \* bound on the requests under way
  MaxSessions,      \* bound on the sessions made
  MaxRequests       \* bound on the requests of a behaviour

ASSUME LoginAssumption ==
  /\ Owner \in [Persona -> User]
  /\ {Slots, MaxSessions, MaxRequests} \subseteq Nat

VARIABLES
  up,        \* whether Redis answers
  online,    \* isRedisOnline
  redis,     \* the lkeys in Redis
  memory,    \* the lkeys in inMemoryStore
  sessions,  \* the sessions made, by lkey
  expired,   \* the lkeys whose time is over
  attached,  \* per connection the lkey of its session, 0 for none
  profile,   \* gs_profile_id of the personas that have one: whose account it is
  reqs,      \* the requests under way
  begun,     \* requests begun
  told       \* what clients were answered

store == <<redis, memory, sessions, expired>>
vars == <<up, online, store, attached, profile, reqs, begun, told>>

Conn == Fesl \cup Theater
Gone == "closed"
Lkey == 1..MaxSessions
Slot == 1..Slots
Nobody == "nobody"

Init ==
  /\ up = TRUE /\ online \in BOOLEAN
  /\ redis = {} /\ memory = {} /\ sessions = <<>> /\ expired = {}
  /\ attached = [c \in Conn |-> 0]
  /\ profile = EmptyMap
  /\ reqs = EmptyMap /\ begun = 0
  /\ told = [issued |-> {}, last |-> EmptyMap, unsure |-> {}]

Open(s) == s \notin DOMAIN reqs /\ 1..(s - 1) \subseteq DOMAIN reqs /\ begun < MaxRequests

\* lost: whether Redis was away at some time of the request.
Begin(s, op, c, pc, user, persona, lkey) ==
  /\ reqs' = Put(reqs, s, [op |-> op, conn |-> c, pc |-> pc, user |-> user,
                           persona |-> persona, lkey |-> lkey, lost |-> ~(up /\ online)])
  /\ begun' = begun + 1
  /\ UNCHANGED <<up, online, store, attached, profile, told>>

At(s, pc) == s \in DOMAIN reqs /\ reqs[s].pc = pc
Goto(s, pc) == reqs' = [reqs EXCEPT ![s].pc = pc]
End(s) == reqs' = Delete(reqs, s)

\* connection.attachSession: a connection that was closed keeps nothing.
Attach(c, l) == attached' = IF c = Gone THEN attached ELSE [attached EXCEPT ![c] = l]

-----------------------------------------------------------------------------
(* Requests *)

\* Login, NuLogin: the credentials go to the API.
Login(s) ==
  /\ Open(s)
  /\ \E c \in Fesl, u \in User : Begin(s, "login", c, "validate", u, Nobody, 0)

\* Valid, or wrong, banned, or the API does not answer in time.
Validate(s) ==
  /\ At(s, "validate")
  /\ Goto(s, "create") \/ End(s)
  /\ UNCHANGED <<up, online, store, attached, profile, begun, told>>

\* The requests that need a session: that of the connection, or the lkey's.
AskedUser(l) == sessions[l].user

GetPersonas(s) ==
  /\ Open(s)
  /\ \E c \in Fesl, l \in told.issued :
       /\ attached[c] = 0
       /\ Begin(s, "personas", c, "get", Nobody, Nobody, l)

LoginPersona(s) ==
  /\ Open(s)
  /\ \E c \in Fesl, p \in Persona :
       \/ /\ attached[c] # 0 /\ AskedUser(attached[c]) = Owner[p]
          /\ Begin(s, "persona", c, "lookup", Owner[p], p, 0)
       \/ /\ attached[c] = 0
          /\ \E l \in told.issued :
               AskedUser(l) = Owner[p] /\ Begin(s, "persona", c, "get", Nobody, p, l)

\* Theater's CONN.
Connect(s) ==
  Open(s) /\ \E c \in Theater, l \in told.issued : Begin(s, "conn", c, "get", Nobody, Nobody, l)

\* getPersonaByName: found or not, the login goes on.
Lookup(s) ==
  /\ At(s, "lookup") /\ Goto(s, "create")
  /\ UNCHANGED <<up, online, store, attached, profile, begun, told>>

-----------------------------------------------------------------------------
(* getSession *)

InMemory(l) == l \in memory \ expired

\* The session was found: it is attached and the handler goes on.
Found(s) ==
  LET q == reqs[s] IN
  /\ Attach(q.conn, q.lkey)
  /\ IF q.op = "persona"
     THEN reqs' = [reqs EXCEPT ![s].pc = "lookup", ![s].user = AskedUser(q.lkey)]
     ELSE End(s)
  /\ UNCHANGED told

\* null: the client is answered an error.
Refused(s) == Goto(s, "refused") /\ UNCHANGED <<attached, told>>

AnswerRefused(s) ==
  /\ At(s, "refused") /\ End(s)
  /\ UNCHANGED <<up, online, store, attached, profile, begun, told>>

\* Mutant: what Redis does not have is not looked for in memory.
RedisOnly(s) ==
  /\ At(s, "get")
  /\ IF online /\ up /\ reqs[s].lkey \in redis THEN Found(s) ELSE Refused(s)
  /\ UNCHANGED <<up, online, store, profile, begun>>

\* Redis is asked if it is thought online; memory after a miss or an error.
GetSession(s) ==
  /\ At(s, "get")
  /\ LET l == reqs[s].lkey IN
     IF (online /\ up /\ l \in redis) \/ InMemory(l) THEN Found(s) ELSE Refused(s)
  /\ UNCHANGED <<up, online, store, profile, begun>>

-----------------------------------------------------------------------------
(* createSession *)

\* The session exists: it is attached, and told (login) or remembered (persona).
Created(s, l) ==
  LET q == reqs[s] IN
  /\ Attach(q.conn, l)
  /\ IF q.op = "login"
     THEN End(s) /\ told' = [told EXCEPT !.issued = @ \cup {l}]
     ELSE /\ reqs' = [reqs EXCEPT ![s].pc = "clear", ![s].lkey = l]
          /\ told' = IF \E t \in DOMAIN reqs : /\ t # s /\ reqs[t].user = q.user
                                               /\ reqs[t].pc \in {"clear", "set", "answer"}
                     THEN [told EXCEPT !.unsure = @ \cup {q.user}] ELSE told

CreateSession(s) ==
  /\ At(s, "create") /\ Len(sessions) < MaxSessions
  /\ LET l == Len(sessions) + 1 IN
     /\ sessions' = Append(sessions, [user |-> reqs[s].user, persona |-> reqs[s].persona])
     /\ IF online
        THEN /\ reqs' = [reqs EXCEPT ![s].pc = "setex", ![s].lkey = l]
             /\ UNCHANGED <<memory, attached, told>>
        ELSE memory' = memory \cup {l} /\ Created(s, l)
  /\ UNCHANGED <<up, online, redis, expired, profile, begun>>

SetexDone(s) ==
  /\ At(s, "setex") /\ up
  /\ redis' = redis \cup {reqs[s].lkey}
  /\ Created(s, reqs[s].lkey)
  /\ UNCHANGED <<up, online, memory, sessions, expired, profile, begun>>

\* Mutant: a write that fails is only logged.
SetexLost(s) ==
  /\ At(s, "setex") /\ ~up
  /\ Created(s, reqs[s].lkey)
  /\ UNCHANGED <<up, online, store, profile, begun>>

\* The write fails, though Redis may have carried it out.
SetexFails(s) ==
  /\ At(s, "setex") /\ ~up
  /\ memory' = memory \cup {reqs[s].lkey}
  /\ redis' \in {redis, redis \cup {reqs[s].lkey}}
  /\ Created(s, reqs[s].lkey)
  /\ UNCHANGED <<up, online, sessions, expired, profile, begun>>

-----------------------------------------------------------------------------
(* rememberGsProfile: the API runs two statements, then LoginPersona answers *)

\* Mutant: other personas keep the profile.
KeepOthers(u, p) == profile

\* UPDATE ... SET gs_profile_id = NULL WHERE gs_profile_id = $1 AND id <> $2
OthersCleared(u, p) == Without(profile, {x \in DOMAIN profile : profile[x] = u /\ x # p})

ClearOthers(s) ==
  /\ At(s, "clear")
  /\ profile' = OthersCleared(reqs[s].user, reqs[s].persona)
  /\ Goto(s, "set")
  /\ UNCHANGED <<up, online, store, attached, begun, told>>

\* A request that was answered before (op = "late") ends here.
SetProfile(s) ==
  /\ At(s, "set")
  /\ profile' = Put(profile, reqs[s].persona, reqs[s].user)
  /\ IF reqs[s].op = "late" THEN End(s) ELSE Goto(s, "answer")
  /\ UNCHANGED <<up, online, store, attached, begun, told>>

Answered(q) ==
  [told EXCEPT !.issued = @ \cup {q.lkey}, !.last = Put(@, q.user, q.persona)]

Answer(s) ==
  /\ At(s, "answer")
  /\ told' = Answered(reqs[s]) /\ End(s)
  /\ UNCHANGED <<up, online, store, attached, profile, begun>>

\* The call takes more than 3 s: the client is answered, the API goes on.
CallTimesOut(s) ==
  /\ At(s, "clear") \/ At(s, "set")
  /\ reqs[s].op = "persona"
  /\ told' = Answered(reqs[s])
  /\ reqs' = [reqs EXCEPT ![s].op = "late"]
  /\ UNCHANGED <<up, online, store, attached, profile, begun>>

\* A statement fails, or the API was not reached: answered all the same.
CallFails(s) ==
  /\ At(s, "clear") \/ At(s, "set")
  /\ LET q == reqs[s]
         t == IF q.op = "late" THEN told ELSE Answered(q)
     IN told' = [t EXCEPT !.unsure = @ \cup {q.user}]
  /\ End(s)
  /\ UNCHANGED <<up, online, store, attached, profile, begun>>

-----------------------------------------------------------------------------
(* Time, Redis and connections *)

\* The end of an lkey's time: Redis drops it by itself.
Expire(l) ==
  /\ l \in told.issued \ expired
  /\ expired' = expired \cup {l}
  /\ redis' = redis \ {l}
  /\ UNCHANGED <<up, online, memory, sessions, attached, profile, reqs, begun, told>>

\* cleanupExpiredMemorySessions, every 60 s.
Cleanup ==
  /\ memory \cap expired # {}
  /\ memory' = memory \ expired
  /\ UNCHANGED <<up, online, redis, sessions, expired, attached, profile, reqs, begun, told>>

RedisStops ==
  /\ up
  /\ up' = FALSE
  /\ reqs' = [s \in DOMAIN reqs |-> [reqs[s] EXCEPT !.lost = TRUE]]
  /\ UNCHANGED <<online, store, attached, profile, begun, told>>

\* 'error', 'close': the engine notices.
RedisOffline ==
  /\ ~up /\ online /\ online' = FALSE
  /\ UNCHANGED <<up, store, attached, profile, reqs, begun, told>>

RedisReturns ==
  /\ ~up /\ up' = TRUE
  /\ UNCHANGED <<online, store, attached, profile, reqs, begun, told>>

\* 'connect', 'ready'
RedisOnline ==
  /\ up /\ ~online /\ online' = TRUE
  /\ UNCHANGED <<up, store, attached, profile, reqs, begun, told>>

\* A connection closes and its client opens a new one; what it asked goes on.
Reconnect(c) ==
  /\ attached[c] # 0
  /\ attached' = [attached EXCEPT ![c] = 0]
  /\ reqs' = [s \in DOMAIN reqs |->
                IF reqs[s].conn = c THEN [reqs[s] EXCEPT !.conn = Gone] ELSE reqs[s]]
  /\ UNCHANGED <<up, online, store, profile, begun, told>>

-----------------------------------------------------------------------------
Request(s) == Login(s) \/ GetPersonas(s) \/ LoginPersona(s) \/ Connect(s)

Step(s) ==
  \/ Validate(s) \/ Lookup(s) \/ GetSession(s) \/ AnswerRefused(s)
  \/ CreateSession(s) \/ SetexDone(s) \/ SetexFails(s)
  \/ ClearOthers(s) \/ SetProfile(s) \/ Answer(s) \/ CallTimesOut(s) \/ CallFails(s)

Next ==
  \/ \E s \in Slot : Request(s) \/ Step(s)
  \/ \E l \in Lkey : Expire(l)
  \/ \E c \in Conn : Reconnect(c)
  \/ Cleanup \/ RedisStops \/ RedisOffline \/ RedisReturns \/ RedisOnline

Spec == Init /\ [][Next]_vars

-----------------------------------------------------------------------------
TypeOK ==
  /\ {up, online} \subseteq BOOLEAN
  /\ redis \subseteq (1..Len(sessions)) \ expired /\ memory \subseteq 1..Len(sessions)
  /\ \A l \in DOMAIN sessions : sessions[l].user \in User
  /\ attached \in [Conn -> 0..Len(sessions)]
  /\ IsMap(profile, Persona, User)
  /\ DOMAIN reqs \subseteq Slot
  /\ told.issued \subseteq 1..Len(sessions) /\ IsMap(told.last, User, Persona)

\* A key that a client was given is kept somewhere until its time is over,
\* whatever Redis did while it was stored (RedisSessionStore.createSession).
IssuedResolves == told.issued \ expired \subseteq redis \cup memory

\* A request is refused for its key only if the key's time is over, or Redis
\* was away at some time while the request ran (RedisSessionStore.getSession):
\* a session made during an earlier outage is found after it.
NullMeansGone ==
  \A s \in DOMAIN reqs :
    reqs[s].pc = "refused" => reqs[s].lost \/ reqs[s].lkey \in expired

\* Once a persona login is answered and nothing of its user is under way, the
\* user's profile is that of the persona and of no other, unless a call to the
\* API failed or two persona logins of the user overlapped (setGsProfileId has
\* two statements, and findByGsProfileId takes the first row it gets).
Holders(u) == {p \in DOMAIN profile : profile[p] = u}
ResolvesToPersona ==
  \A u \in DOMAIN told.last \ told.unsure :
    (\A s \in DOMAIN reqs : reqs[s].user = u => reqs[s].pc \notin {"clear", "set", "answer"})
      => Holders(u) = {told.last[u]}

=============================================================================
