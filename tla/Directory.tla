----------------------------- MODULE Directory -----------------------------
(***************************************************************************)
(* The directory of dedicated game servers: the table game_servers, the    *)
(* requests of /api/v1/servers that write it, the server keys of the       *)
(* administrators, and the poller that queries every listed server over    *)
(* UDP.  A request or a pass of the poller waits for the database and for  *)
(* the query; what it read before is a copy by the time it writes.         *)
(*                                                                         *)
(* Rows are never deleted and secret_key is never updated.  last_heartbeat *)
(* is kept as its age in ticks, which stops growing just above             *)
(* StaleAfter.  Names, maps, players and the JSON of `details' are display *)
(* data and left out.  A snapshot of the history is one step here (its two *)
(* statements are split in ServerHistory) and keeps only the last online   *)
(* flag of a row: "none" before the first.                                 *)
(***************************************************************************)
EXTENDS Naturals, Sequences, FiniteSets, Maps

CONSTANTS
  Addr,         \* addresses (ip and port) of game servers
  Req, Pass,    \* slots for requests, and for passes of the poller, under way
  StaleAfter,   \* age above which the poller gives a silent server up (90 s)
  PollLimit,    \* servers read by one pass (500)
  MaxRegs,      \* bound on the registrations of a behaviour
  AdminKeys,    \* whether administrators issue keys
  Probes        \* whether visitors probe servers (POST /:id/query, ?refresh)

ASSUME DirectoryAssumption ==
  /\ StaleAfter \in Nat
  /\ {PollLimit, MaxRegs} \subseteq Nat \ {0}
  /\ {AdminKeys, Probes} \subseteq BOOLEAN

VARIABLES
  rows,     \* the rows, in the order of insertion: their position is the id
  snap,     \* per row, is_online of its last snapshot
  reqs,     \* the requests under way
  passes,   \* the passes of the poller under way
  server,   \* per address: "down", "open", or "hidden": it runs and beats but
            \* its query port does not answer
  regs,     \* registrations begun; the number of one stands for its fresh key
  handed    \* the keys that were answered

vars == <<rows, snap, reqs, passes, server, regs, handed>>

MaxAge == StaleAfter + 1
Ids == DOMAIN rows
Row == [addr: Addr, key: 1..MaxRegs, online: BOOLEAN, age: 0..MaxAge]
\* last_heartbeat = NOW(), with the is_online that was found.
HeardFrom(row, online) == [row EXCEPT !.online = online, !.age = 0]
RowsAt(a) == {i \in Ids : rows[i].addr = a}
Copy == [id: Nat, online: BOOLEAN, age: 0..MaxAge]
Registration == [op: {"register", "admin"}, pc: {"query", "find", "insert", "update"},
                 addr: Addr, key: 1..MaxRegs, online: BOOLEAN, id: Nat]
RowRequest == [op: {"heartbeat", "refresh", "probe"}, pc: {"query", "update", "snap"},
               id: Nat, online: BOOLEAN]
PollPass == [todo: SUBSET Copy, cur: Nat,
             pc: {"next", "update", "offline", "snap online", "snap offline"}]

Init ==
  /\ rows = <<>> /\ snap = <<>> /\ reqs = EmptyMap /\ passes = EmptyMap
  /\ server \in [Addr -> {"down", "open"}]
  /\ regs = 0 /\ handed = {}

-----------------------------------------------------------------------------
(* Registration *)

Registering == {r \in DOMAIN reqs : reqs[r].op \in {"register", "admin"}}

BeginRegistration(r, op, a, pc) ==
  /\ r \notin DOMAIN reqs /\ regs < MaxRegs
  /\ regs' = regs + 1
  /\ reqs' = Put(reqs, r, [op |-> op, pc |-> pc, addr |-> a, key |-> regs + 1,
                           online |-> TRUE, id |-> 0])
  /\ UNCHANGED <<rows, snap, passes, server, handed>>

\* POST /register.  With skipQuery the server is taken for online.
Register(r, a) == \E pc \in {"query", "find"} : BeginRegistration(r, "register", a, pc)

\* POST /admin/server-keys: no query, and a key of its own.
AdminKey(r, a) == AdminKeys /\ BeginRegistration(r, "admin", a, "find")

Answers(a) == server[a] = "open"

RegisterQueried(r) ==
  /\ r \in Registering /\ reqs[r].pc = "query"
  /\ LET up == Answers(reqs[r].addr) IN
     reqs' = [reqs EXCEPT ![r] = [@ EXCEPT !.pc = "find", !.online = up]]
  /\ UNCHANGED <<rows, snap, passes, server, regs, handed>>

\* findByIpAndPort: any row of the address, for LIMIT 1 has no ORDER BY.
FindByIpAndPort(r) ==
  /\ r \in Registering /\ reqs[r].pc = "find"
  /\ LET found == RowsAt(reqs[r].addr) IN
     \/ /\ found = {}
        /\ reqs' = [reqs EXCEPT ![r] = [@ EXCEPT !.pc = "insert"]]
     \/ \E i \in found :
          reqs' = [reqs EXCEPT ![r] = [@ EXCEPT !.pc = "update", !.id = i]]
  /\ UNCHANGED <<rows, snap, passes, server, regs, handed>>

\* The 201 answer; the engine's client may have timed out (3 s) and miss it.
Answer(q, key) == \/ UNCHANGED handed
                  \/ handed' = handed \cup {[addr |-> q.addr, key |-> key, op |-> q.op]}

RegisterInsert(r) ==
  /\ r \in Registering /\ reqs[r].pc = "insert"
  /\ LET q == reqs[r] IN
     /\ rows' = Append(rows, [addr |-> q.addr, key |-> q.key, online |-> q.online, age |-> 0])
     /\ Answer(q, q.key)
  /\ snap' = Append(snap, "none")
  /\ reqs' = Delete(reqs, r)
  /\ UNCHANGED <<passes, server, regs>>

\* Mutant: every registration answers the key it would have inserted.
KeyProposed(q) == q.key

\* The key answered for a row that was already there: the route answers the
\* row's, the administrators' route the fresh one it had passed in.
KeyAnswered(q) == IF q.op = "admin" THEN q.key ELSE rows[q.id].key

RegisterUpdate(r) ==
  /\ r \in Registering /\ reqs[r].pc = "update"
  /\ LET q == reqs[r] IN
     /\ rows' = [rows EXCEPT ![q.id] = HeardFrom(@, q.online)]
     /\ Answer(q, KeyAnswered(q))
  /\ reqs' = Delete(reqs, r)
  /\ UNCHANGED <<snap, passes, server, regs>>

-----------------------------------------------------------------------------
(* Requests about one row *)

RowRequests == DOMAIN reqs \ Registering

BeginOn(r, op, pc, i) ==
  /\ r \notin DOMAIN reqs
  /\ reqs' = Put(reqs, r, [op |-> op, pc |-> pc, id |-> i, online |-> TRUE])
  /\ UNCHANGED <<rows, snap, passes, server, regs, handed>>

\* POST /heartbeat of a running server with a key it was given; a key of no row
\* is answered 404 and changes nothing.
Heartbeat(r) ==
  \E k \in handed, i \in Ids :
    /\ server[k.addr] # "down" /\ rows[i].key = k.key
    /\ BeginOn(r, "heartbeat", "update", i)

\* GET /:id?refresh=true and POST /:id/query
Visit(r) ==
  Probes /\ \E op \in {"refresh", "probe"}, i \in Ids : BeginOn(r, op, "query", i)

\* The query of a visit: a server that does not answer is marked offline by a
\* probe and left alone by a refresh.
Visited(r) ==
  /\ r \in RowRequests /\ reqs[r].pc = "query"
  /\ LET up == Answers(rows[reqs[r].id].addr) IN
     reqs' = IF up \/ reqs[r].op = "probe"
             THEN [reqs EXCEPT ![r] = [@ EXCEPT !.pc = "update", !.online = up]]
             ELSE Delete(reqs, r)
  /\ UNCHANGED <<rows, snap, passes, server, regs, handed>>

\* updateHeartbeat and updateServerQuery: both set last_heartbeat, also for a
\* server that was just found silent.  Only a heartbeat and a probe that was
\* answered go on to a snapshot.
RowUpdate(r) ==
  /\ r \in RowRequests /\ reqs[r].pc = "update"
  /\ LET q == reqs[r] IN
     /\ rows' = [rows EXCEPT ![q.id] = HeardFrom(@, q.online)]
     /\ reqs' = IF q.online /\ q.op # "refresh" THEN [reqs EXCEPT ![r] = [@ EXCEPT !.pc = "snap"]]
                ELSE Delete(reqs, r)
  /\ UNCHANGED <<snap, passes, server, regs, handed>>

RowSnapshot(r) ==
  /\ r \in RowRequests /\ reqs[r].pc = "snap"
  /\ snap' = [snap EXCEPT ![reqs[r].id] = "online"]
  /\ reqs' = Delete(reqs, r)
  /\ UNCHANGED <<rows, passes, server, regs, handed>>

\* A statement fails: the request is answered 500 and does nothing more.
RequestFault(r) ==
  /\ r \in DOMAIN reqs /\ reqs[r].pc # "query"
  /\ reqs' = Delete(reqs, r)
  /\ UNCHANGED <<rows, snap, passes, server, regs, handed>>

-----------------------------------------------------------------------------
(* The poller *)

CopyOf(i) == [id |-> i, online |-> rows[i].online, age |-> rows[i].age]

\* Mutant: only servers listed as online are polled.
ListedOnline == {{i \in Ids : rows[i].online}}

\* listServers({limit: 500}): ordered with online rows first.
Listed == {S \in SUBSET Ids :
             /\ Cardinality(S) = IF Len(rows) < PollLimit THEN Len(rows) ELSE PollLimit
             /\ \A i \in S, j \in Ids \ S : rows[j].online => rows[i].online}

\* The timer starts a pass whether or not the last one has ended.
PollStart(p) ==
  /\ p \notin DOMAIN passes /\ rows # <<>>
  /\ \E S \in Listed :
       passes' = Put(passes, p, [todo |-> {CopyOf(i) : i \in S}, cur |-> 0, pc |-> "next"])
  /\ UNCHANGED <<rows, snap, reqs, server, regs, handed>>

\* Mutant: the comparison is the wrong way round.
HeardOf(c) == c.online /\ c.age < StaleAfter

\* The copy taken at the start of the pass says that the server is given up.
GivenUp(c) == c.online /\ c.age > StaleAfter

\* The next server of the pass is queried.
PollQuery(p) ==
  /\ p \in DOMAIN passes /\ passes[p].pc = "next"
  /\ \E c \in passes[p].todo :
       LET up == Answers(rows[c.id].addr)
           next == IF up THEN "update" ELSE IF GivenUp(c) THEN "offline" ELSE "next"
       IN passes' = [passes EXCEPT ![p] = [todo |-> @.todo \ {c}, pc |-> next,
                                           cur |-> IF next = "next" THEN 0 ELSE c.id]]
  /\ UNCHANGED <<rows, snap, reqs, server, regs, handed>>

PollUpdate(p) ==
  /\ p \in DOMAIN passes /\ passes[p].pc = "update"
  /\ rows' = [rows EXCEPT ![passes[p].cur] = HeardFrom(@, TRUE)]
  /\ passes' = [passes EXCEPT ![p] = [@ EXCEPT !.pc = "snap online"]]
  /\ UNCHANGED <<snap, reqs, server, regs, handed>>

\* setOnlineStatus(id, false)
PollOffline(p) ==
  /\ p \in DOMAIN passes /\ passes[p].pc = "offline"
  /\ rows' = [rows EXCEPT ![passes[p].cur] = [@ EXCEPT !.online = FALSE]]
  /\ passes' = [passes EXCEPT ![p] = [@ EXCEPT !.pc = "snap offline"]]
  /\ UNCHANGED <<snap, reqs, server, regs, handed>>

PollSnapshot(p) ==
  /\ p \in DOMAIN passes /\ passes[p].pc \in {"snap online", "snap offline"}
  /\ snap' = [snap EXCEPT ![passes[p].cur] =
                IF passes[p].pc = "snap online" THEN "online" ELSE "offline"]
  /\ passes' = [passes EXCEPT ![p] = [@ EXCEPT !.pc = "next", !.cur = 0]]
  /\ UNCHANGED <<rows, reqs, server, regs, handed>>

PollEnd(p) ==
  /\ p \in DOMAIN passes /\ passes[p].pc = "next" /\ passes[p].todo = {}
  /\ passes' = Delete(passes, p)
  /\ UNCHANGED <<rows, snap, reqs, server, regs, handed>>

\* "Ignore individual server query errors": the pass goes on with the next one.
PollFault(p) ==
  /\ p \in DOMAIN passes /\ passes[p].pc # "next"
  /\ passes' = [passes EXCEPT ![p] = [@ EXCEPT !.pc = "next", !.cur = 0]]
  /\ UNCHANGED <<rows, snap, reqs, server, regs, handed>>

PollStep(p) == PollQuery(p) \/ PollUpdate(p) \/ PollOffline(p) \/ PollSnapshot(p) \/ PollEnd(p)

-----------------------------------------------------------------------------
(* Time and the game servers *)

Older(age) == IF age < MaxAge THEN age + 1 ELSE MaxAge

\* A copy keeps the heartbeat it was read with, and grows old with it.
OlderPass(p) == [p EXCEPT !.todo = {[c EXCEPT !.age = Older(@)] : c \in @}]

Tick ==
  /\ rows' = [i \in Ids |-> [rows[i] EXCEPT !.age = Older(@)]]
  /\ passes' = [p \in DOMAIN passes |-> OlderPass(passes[p])]
  /\ UNCHANGED <<snap, reqs, server, regs, handed>>

Turn(a) ==
  /\ \E s \in {"down", "open", "hidden"} \ {server[a]} : server' = [server EXCEPT ![a] = s]
  /\ UNCHANGED <<rows, snap, reqs, passes, regs, handed>>

RequestStep(r) ==
  \/ RegisterQueried(r) \/ FindByIpAndPort(r) \/ RegisterInsert(r) \/ RegisterUpdate(r)
  \/ Visited(r) \/ RowUpdate(r) \/ RowSnapshot(r)

Next ==
  \/ \E r \in Req, a \in Addr : Register(r, a) \/ AdminKey(r, a)
  \/ \E r \in Req : RequestStep(r) \/ Heartbeat(r) \/ Visit(r) \/ RequestFault(r)
  \/ \E p \in Pass : PollStart(p) \/ PollStep(p) \/ PollFault(p)
  \/ Tick
  \/ \E a \in Addr : Turn(a)

\* What a pass does to the row of server i.
OnServer(p, i) ==
  /\ p \in DOMAIN passes /\ passes[p].cur = i
  /\ PollUpdate(p) \/ PollOffline(p)
SnapshotOf(p, i) == p \in DOMAIN passes /\ passes[p].cur = i /\ PollSnapshot(p)

\* Requests and passes go on, the poller's timer fires, time passes; the
\* database may fail any number of times, but not a server's statement in every
\* pass.  Nobody owes a registration, a heartbeat or a visit.
Fairness ==
  /\ \A r \in Req : WF_vars(RequestStep(r))
  /\ \A p \in Pass : WF_vars(PollStart(p)) /\ WF_vars(PollStep(p))
  /\ \A p \in Pass, i \in 1..MaxRegs : SF_vars(OnServer(p, i)) /\ SF_vars(SnapshotOf(p, i))
  /\ WF_vars(Tick)

Spec == Init /\ [][Next]_vars /\ Fairness

-----------------------------------------------------------------------------
(* Properties *)

\* The directory's types; a key is in one row only.
TypeOK ==
  /\ rows \in Seq(Row)
  /\ \A i, j \in Ids : rows[i].key = rows[j].key => i = j
  /\ snap \in Seq({"none", "online", "offline"}) /\ Len(snap) = Len(rows)
  /\ IsMap(reqs, Req, Registration \cup RowRequest)
  /\ IsMap(passes, Pass, PollPass)
  /\ server \in [Addr -> {"down", "open", "hidden"}]
  /\ regs \in 0..MaxRegs
  /\ handed \subseteq [addr: Addr, key: 1..MaxRegs, op: {"register", "admin"}]

\* Every key that /register ever answered still authenticates heartbeats of the
\* address it was answered for, however often the server registered again, with
\* answers lost and requests interleaved.
KeysAuthenticate ==
  \A k \in handed : k.op = "register" => \E i \in RowsAt(k.addr) : rows[i].key = k.key

\* The same of the keys of administrators: "Create / Generate Server
\* Authentication Key".
AdminKeysAuthenticate ==
  \A k \in handed : \E i \in RowsAt(k.addr) : rows[i].key = k.key

\* "Only set offline if last heartbeat/query is stale (> 90 seconds)": the
\* poller never takes a server off that has been heard of since.
OfflineOnlyStale ==
  [][\A p \in Pass : PollOffline(p) => rows[passes[p].cur].age > StaleAfter]_vars

\* A server that is down for good ends up offline in the directory, whatever
\* copies, requests and passes were under way when it went down.
DeadGoesOffline ==
  \A a \in Addr :
    <>[](server[a] = "down") => <>[](\A i \in RowsAt(a) : ~rows[i].online)

\* A server that answers queries for good ends up online, in the directory and
\* in its history, also one that was given up, probed or enrolled as offline
\* before.
AnsweringGoesOnline ==
  \A a \in Addr :
    <>[](server[a] = "open")
      => <>[](\A i \in RowsAt(a) : rows[i].online /\ snap[i] = "online")

\* The history of a server that is down for good ends up offline.
DeadHistoryGoesOffline ==
  \A a \in Addr :
    <>[](server[a] = "down") => <>[](\A i \in RowsAt(a) : snap[i] # "online")

=============================================================================
