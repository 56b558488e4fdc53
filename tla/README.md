# A TLA+ verification project for mohPA-backend

`mohPA-backend` is an online service for a 2007 game whose own servers are gone:
game clients and game servers talk to it in the original protocols, a web site
shows statistics. This directory holds TLA+ models of its stateful parts, the TLC
configurations that check them on small instances, and TLAPS proofs of what holds
for every instance.

All paths below are relative to the repository; `F/` stands for
`packages/fesl-engine/src/`, `API/` for `packages/api-service/src/`, `DB/` for
`packages/db/src/`.

## 1. The system

```
 game client ── FESL (TLS or SSL 2.0) ─┐
 game client ── Theater (TCP) ─────────┤   fesl-engine  ── HTTP, 3 s ──▶ api-service ──▶ PostgreSQL
 game server ── Theater (TCP) ─────────┤   (one Node        time-outs    (Fastify)         ▲
 game server ── GameSpy gstats (TCP) ──┤    process)                        │  poller      │
 game server ── heartbeats (UDP) ──────┤      │                             └── UDP ──▶ game servers
 game client ── GameSpy gpcm, gpsp,  ──┘      └── Redis (sessions), or memory when it is away
                peerchat, master
```

Both services are single-threaded Node processes. Inside one process code runs to
completion between two `await`s (or callbacks), so what interleaves are: the events
of different sockets, the continuations of handlers that await Redis, HTTP or
PostgreSQL, timers, and the two processes with each other and with the database.

### 1.1 Components

| Component | State it keeps | Operations | Hard behaviour |
|---|---|---|---|
| Theater lobby manager (`F/theater/lobby-manager.ts`) | `games`, `playerToGame`, `connToGameHost`, `connToPlayer`, `nextGid`, the counts of the lobbies | create, enter, leave, update, remove, disconnect, clear | four Maps kept consistent by hand, notifications to the host, roles that change between connections |
| Theater handlers (`F/theater/handlers/`) | none | CGAM EGAM UPLA ECNL KICK change the lobby, the others query | any connection may name any game and player |
| TCP server (`F/network/tcp-server.ts`, `connection.ts`) | the Map of connections, receive buffers, `lastActivityAt` | accept, packet, close, evict, stop | eviction by a timer while data is under way, late `close` events, chunks that split packets anywhere |
| SSL 2.0 socket (`F/network/ssl2-socket.ts`) | handshake state, two record sequence numbers, buffers | hello, key, finished, records, end | implicit numbering of records, half-finished handshakes |
| Session store (`F/session/redis-session-store.ts`) | sessions in Redis and in memory, last known health | create, get, update, delete | outages of Redis, read-modify-write over an await, expiry |
| FESL login (`F/fesl/handlers/acct.ts`, `F/gamespy/ticket-store.ts`) | tickets, the session of a connection | Login, LoginPersona, GameSpyPreAuth | two logins on one connection, tickets of a minute |
| Statistics (`F/gamespy/gstats-server.ts`, `stats-ingest.ts`, `DB/repositories/stats-repository.ts`) | buffered snapshot per match, match and career tables | newgame, updgame, getpd, setpd, report | concurrent frames, time-outs of calls that may still succeed, idempotence |
| GameSpy lists (`F/gamespy/server-registry.ts`, `master-server.ts`, …) | registry of live servers | heartbeat, state change, list, expiry, seeding | two sources of truth, rewritten addresses, lazy expiry |
| GameSpy presence, search, chat (`gpcm`, `gpsp`, `peerchat`) | handshake of one connection | login, search, nick | none shared |
| Server directory (`DB/repositories/game-server-repository.ts`, `API/routes/servers.ts`) | `game_servers` rows with a secret key | register, heartbeat, stale sweep, admin | look-up and insert in two statements |
| Poller and history (`API/services/server-query-poller.ts`, `DB/repositories/server-history-repository.ts`) | rows of history, play time | a pass every interval | overlapping passes, rows written from a stale copy |
| Personas, entitlements, accounts (`API/routes/*.ts`, `DB/repositories/*.ts`) | rows with unique keys | create, rename, delete, redeem | count-then-insert, moves of an id in two statements |
| API client (`F/api-client/api-client.ts`) | none | one call per endpoint | every failure and time-out becomes a default value |
| Codecs, ciphers, TLS, inspectors, web | none that another part depends on | | |

`PROJECT.json` lists every one of them with its status, and under `hazards` what in
this code a test would hardly reach, each at its line.

### 1.2 What makes each correct

* **Lobby**: a player is in at most one game and every index agrees with the games;
  seats are distinct and within the game; a drop removes exactly what the connection
  owned; a host knows its roster; the published counts are those of the lists; hung
  peers are removed in the end.
* **Statistics**: a match counts once per player however often it is reported; what is
  recorded is the last thing the server sent; a failure for one player does not change
  others; a career is the sum of the matches recorded for it.
* **Sessions**: a login key that was given out works until its time is over, outages of
  Redis notwithstanding; a GameSpy profile leads to the persona chosen last.
* **Directory and lists**: a key that was answered keeps authenticating its server; who
  runs ends up listed, who is gone ends up dropped.
* **History and careers**: the chart shows the peaks that were counted and no players that
  were not; play time agrees between sessions and careers; a career never shrinks.
* **Personas and entitlements**: a CD key has one owner, a ban stands, limits are overrun
  by no more than the requests under way.
* **SSL 2.0 and framing**: each side counts the same records; the packets handled are the
  packets sent, in order, wherever the chunks end.
* **GameSpy streams**: each request is answered once and in order, legibly for chat.

## 2. Plan

| # | Modules | Subject | Run | Proofs |
|---|---|---|---|---|
| 1 | `Maps`, `Roster`, `Lobby`, `LobbyActivity` | Theater lobby and connections | `lobby_any`, `lobby_disciplined` | `MapLemmas`, `LobbyProofs` |
| 2 | `StatsLedger`, `StatsPipeline` | snapshots, report, idempotent insert, careers; against an abstract ledger of matches | `stats_twice`, `stats_whole` | `StatsProofs` |
| 3 | `Directory` | registration, heartbeats, visits, overlapping passes of the poller | `directory` | `ServerProofs` |
| 4 | `ServerHistory` | recording and charting the history of a server | `history` | `ServerProofs` |
| 5 | `PacketLink`, `Transport` | SSL 2.0 or plain TCP, from bytes to packets; against an abstract link | `transport`, `transport_close` | `TransportProofs` |
| 6 | `Accounts` | users, bans, personas, CD keys under concurrent requests | `accounts` | `AccountsProofs` |
| 7 | `Login` | sessions in Redis and memory, outages, the profile of a persona | `login` | `LoginProofs` |
| 8 | `CareerStats` | the writers of a career's row | `career` | `CareerProofs` |
| 9 | `GameSpyStreams`, `GameSpyLists` | the registry of live servers, and the streams of the five TCP services | `lists` | `ServerProofs` |

Every module is in place. Every safety property that a passing run checks, the three refinements
included, is proved for all values of the constants (some under hypotheses that the run meets, section
12). What stays with TLC is liveness. The loops of the code (over records, packets, frames, buckets,
sessions) are recursive functions, so that they can be proved about. `ServerProofs` is about the three
modules that tell of game servers, `Directory`, `ServerHistory` and `GameSpyLists`; the names that
these share carry the module (`HistorySpec`, `ListsSpec`).

How the modules meet: `Directory` decides which rows are online and has a snapshot as one step;
`ServerHistory` splits that step into its statements and charts the result; `CareerStats` has the
other half of a poll, the players. The match report of `StatsPipeline` is one credit in
`CareerStats`. `Login` leaves the profile id by which `StatsPipeline` resolves players, and gives
the sessions with which connections of `Lobby` speak. `Transport` turns bytes into the packets that
`Lobby` and `Login` handle. `GameSpyLists` reads what `Directory` lists.

## 3. The lobby

### 3.1 Modules and their correspondence to the code

* **`Maps`** – a JavaScript `Map` as a function on its finite set of keys: `Put`, `Delete`,
  `Without` (a loop of deletes), `IsMap` (its type).
* **`Roster`** – the abstract specification: which players are in which open game, and how
  many the game takes. `Join` is atomic: the player is in the new game and in no other.
* **`Lobby`** – `LobbyManager`, the handlers that change it, the connections.
  The variable `lobby` is one record with the manager's fields; each method is an operator
  from the record before to the record after (`CreateGame`, `EnterGame`, `RemovePlayer`,
  `RemoveGame`, `HandleDisconnect`, …) and each handler or socket event is an action
  (`Cgam`, `Egam`, `Upla`, `Ecnl`, `Kick`, `SocketClose`, `ActivityTimeout`, `Clear`,
  `TcpStop`, …). A handler runs synchronously in the socket's `data` event, so a packet is
  one action; a request that is refused changes nothing and is a stutter.
  `lobby.told[g]` is a history variable: what the host of `g` knows when it adds each `PENT`
  and drops each `PLFT` that was written to its open socket. `conn[c]` is the life of a
  connection; `lingering` is a socket that the activity monitor or `stop()` only `end()`ed,
  so that its `data` listener still runs.
* **`LobbyActivity`** – adds `lastActivityAt` as one bit (`idle`) and a peer that hangs
  (`quiet`); each action says whom it touches. Writing to a connection touches it
  (`connection.ts:76`).

Clients are not trusted to behave: `Enters`, `MultiHost` and `LateData` are constants that
say which clients an instance has, from "anything" to "disciplined" (one player per
connection, one connection per player, one hosted game, nothing after eviction).

### 3.2 Runs

| Run | Instance | What it asks |
|---|---|---|
| `lobby_any` | 2 connections, 2 players, 2 games of 1 or 2 slots, anything goes | types; `IndexesExact`: the player index is the inverse of the games' players, the host index points at hosted games, the lobby counts are those of the lists; host rosters; slots distinct and inside the game; refinement of `Roster` |
| `lobby_disciplined` | 2 connections, each with one player, each may host one game, hang or drop; fairness | the connection index is exact, no ghosts, a drop removes what the connection owned and nothing else, entering touches no other player, and the seat of a hung player is freed |

**Bounds.** `MaxGid` (the number of games ever created), the sets of connections, players,
capacities and scores. Two games are what a switch needs, two players what a shared slot
or a wrong index needs, two hosts what a wrong `connToGameHost` needs, and capacity 1 makes a
game full. Connections are never reused (the server numbers them), so each dies once.
`lobby_any` uses symmetry of connections and players; it only checks invariants and a
refinement, whose formulas are symmetric. `lobby_disciplined`, with action and liveness properties,
uses none. The theorems of 3.3 remove the bounds for their properties.

**Deadlock** is not checked: the system stops (`phase = "stopped"`, all connections
closed), and clients may be done.

**Fairness** (`ActFairness`) is assumed of two things only: time passes for a peer that
hangs (`Expire`), and the interval timer of the activity monitor fires again
(`setInterval`, `tcp-server.ts:313`), so that `Evict` is not put off for ever while it is
enabled. Nothing is assumed of clients, of other sockets or of the network.

**What undisciplined clients break.** The discipline of `lobby_disciplined` is needed. Each of
these changes of its cfg makes TLC find a violation:

| Change | Violated | Why |
|---|---|---|
| `Enters <- Reconnecting` (p1 on two connections) | `DropExact`, `EntrySparesOthers` | the late drop of the old connection removes a player who came back (`lobby-manager.ts:478`); the same happens to two clients whose `personaId` is a UUID, because `Number(uuid)` is `NaN`, one key for all (`:279`) |
| `MultiHost = TRUE` | `DropExact` | a second announcement overwrites `connToGameHost`, and the first game outlives its host (`:89`) |
| `LateData = TRUE` | `NoGhosts` | a socket that was only `end()`ed still delivers data, and what it creates is never removed (`tcp-server.ts:324`) |
| `HungHostDropped` as PROPERTY | itself | `PENT` and `PLFT` written to a hung host renew its activity for ever (`connection.ts:76`) |

### 3.3 Proofs

`LobbyProofs` proves, for every value of the constants allowed by `LobbyAssumption`
(capacities are integers, 0 is a score, `MaxGid` is a natural number, hosts are
connections): `TypeCorrect`, `SlotsCorrect`, and `IndexesCorrect`, which joins the player
index, the host index and the counts. No finiteness of the sets of connections or players and no
discipline of the clients is assumed.

The invariants are not inductive one by one. The inductive one is `SoundLobby`, their
conjunction with two more facts: every gid in use is below `nextGid` (`createGame` would
otherwise replace a game that has players, and break the index), and the player set of
each game is finite (so that cardinalities mean something). `SlotsSound` needs the index:
`enterGame` checks `currentPlayers < maxPlayers` before it removes the player from the
previous game, and what was checked is still true afterwards only because the previous
game is another one and the removal leaves this one alone (`RemovePlayerElsewhere`).
The scan for a free slot is shown to stop at the least free slot (`SlotExists`, by the
well-foundedness of the subsets of `0 .. max`) and, by counting, inside the game
(`FreeSlotInside`). Each method has a lemma "keeps the lobby sound"; the step theorem then
has one step per action. `MapLemmas` holds the facts about `Maps`.

The rest of `LobbyProofs` rests on that invariant. Each part states the effect of every method of
the manager on the fields once, shows method by method what the effect preserves, and then has one
step per action.

* `RosterImplemented` (the refinement of `Roster`): an entry maps to one `Join` although the code
  leaves the previous game first, since a player index that is exact leaves one game at most to leave.
* `HostsKnowTheirPlayers`: `told` is exact for hosts in `Alive`. It is inductive with one more fact, that
  hosts are connections that were accepted: otherwise a connection could become alive in the
  middle of its game.
* For clients that keep to one role per connection, `ConnIndexCorrect`, `NobodyHaunts`, `DropsExactly`
  and `EntriesSpareOthers`. These assume `Disciplined` of the constants, the condition that
  `lobby_disciplined` meets and 3.2 shows to be needed. `ConnIndexExact` is not inductive, as
  nothing in it says that the player who enters on `c` is the one `c` is already listed for; the
  invariant `Roles` says that a player sits on the one connection it may enter from, that
  `connToGameHost` finds every game, and that nobody sits on a connection that is gone.
* `MonitorRefinesLobby`: the composition with the activity monitor (`ActSpec`) implements `Spec`, so
  every theorem above holds of it too. An eviction maps to the timeout of `Lobby`; touching,
  hanging and the passing of time stutter.

Only model-checked: `HungPlayerLeaves`, which is about fairness.

### 3.4 Not modelled

`updateGame`, which nothing in the repository calls, and with it `serverId` and `secretKey` of a
game, which nothing else reads; player attributes other than the score (one attribute
shows where a write may land), the fields of a game that only lists show. The session
look-up of CONN is in `Login`, the reassembly of packets in `Transport`. GDAT, GLST, LLST, USER,
ECHO and PING change no lobby state; they appear only as activity.

## 4. Match statistics

### 4.1 Modules and their correspondence to the code

* **`StatsLedger`** – the abstract specification: a ledger with at most one entry per match
  key, and careers. `Record` writes an entry and credits all its players in one step;
  `Retire` deletes a persona. Nothing else ever changes either.
* **`StatsPipeline`** – the way of a snapshot through three processes.
  `Updgame` is `handleFrame` up to its first `await`: `takeFinal` keeps the snapshot
  (`Remember`) or starts a report (`TakeFinal`). A report is a record of `report`, with how
  far its two sides are: `client` is the handler in fesl-engine (`Lookup` once per player,
  `Post`, `Reply`, `Timeout`), `server` the request in api-service, one action per statement
  of `applyMatchReport` (`InsertMatch`, `Increment`, `Commit`). They are separate because
  `AbortSignal.timeout(3000)` ends only the first. Handlers are not awaited by the `data`
  listener (`gstats-server.ts:264`), so several reports are under way at once.
  `SplitUpdgame` is a frame that arrives in two chunks, as `parseGstatsBuffer` treats it.
  `sent` and `finals` are history variables of the game servers, for the properties.
* **`MCStatsPipeline`** – the instances; `u` is a name without a persona.

PostgreSQL is external and modelled by what `src/` relies on, at READ COMMITTED: an insert
waits for the transaction that holds its unique key and then does nothing if that one
committed; an update waits for the row; a cycle of waits aborts one transaction; the
foreign key of `persona_stats` rejects an id without a persona; nothing is visible before
`COMMIT`. `Increment` therefore only advances `credited`, and `Commit` applies the sums.
In the same way a rollback needs no action that undoes anything. That the row locks make
`career + x` exact is thus an assumption; that each report uses them inside the one
transaction of its match, in any order, is what is checked.

A player of a snapshot is a name with kills; deaths, score, time and custom counters take
the same way through the same statement. `<<>>` is an empty `gamedata`.

### 4.2 Runs

| Run | Instance | What it asks |
|---|---|---|
| `stats_twice` | one match, two final frames, chunks, a player with an account only, failing look-ups, faults | types, transactions own their match, answers are true, refinement of `StatsLedger` |
| `stats_whole` | two matches, each ended once, whole frames, players in either order, no faults, fairness | the last snapshot counts; exactly its known players are credited; careers are sums; every report is settled, deadlocks included |

Two statements that one may expect hold only with the discipline of `stats_whole`. With
`Split = TRUE`, `FinalSnapshotCounts` is violated: a frame that arrives in two chunks is
read as two, and a match is recorded from half a frame (`gstats-frames.ts:157`). With
`Account = {u}` and `Snapshot <- Unlisted`, `FinalRecorded` is
refuted as a PROPERTY: a player who has an account and no persona is given the account's id, the foreign key
of `persona_stats` rejects it, and the match is rolled back each time (`internal.ts:113`).

`stats_whole` shows a third limit: `FinalSettled` allows a
report to be rolled back, because two matches that credit the same two players in opposite
order (`stats-repository.ts:217`) deadlock, PostgreSQL aborts one of them, and fesl-engine
only logs the failure (`gstats-server.ts:330`) after `takeFinal` has dropped the snapshot.
A match can be lost that way; no document of the repository promises otherwise.

**Bounds.** `MaxReport` is 2: a match counts twice only if two reports do, and a deadlock
needs two (all of them in `stats_whole`). `MaxFinal` is 2 where a match ends twice, `MaxPlayers` 2 or 3: two players are
what opposite orders need, and three let an unknown one stand between two known ones. The
snapshots of an instance differ in length and kills, so that the wrong one shows. The
number of frames before a final one is not bounded. `LedgerImplemented` removes all these
bounds for the refinement.

**Deadlock** is not checked: the bounds let the system stop. That transactions are not
stuck for ever is `FinalSettled`.

**Fairness** is assumed of each report: a look-up or request that was sent is answered or
times out, the statements of a transaction run when they need not wait, and PostgreSQL
finds deadlocks. Nothing is assumed of game servers, of failures, or of when
`reportMatch` gives up: it may at any time, and the request runs on.

### 4.3 Proofs

`StatsProofs` proves for every value of the constants allowed by `PipelineAssumption`
(names, snapshots of players, natural bounds), with every fault switched on or off, that
`StatsPipeline` implements `StatsLedger` (`LedgerImplemented`): `Commit` is `Record`,
`DeletePersona` is `Retire`, every other step a stutter. `Record` demands that the match
is new and that every player has a career, and `Commit` tests neither: both were settled
when the transaction inserted the match and updated the rows. The inductive invariant
`Sound` carries them from there: `ClaimsExclusive` says that of the open transactions one
alone holds a match, that the match is not recorded, and that the careers it has added to
still exist; `TypeOK` says what has been found and credited, in order; `AnswerHonest` needs
only the types and is proved along. `EntrySound` is `Sound` for one report about to
change, and one lemma (`StepSound`) carries it to the whole state, so that an action of a
report only has to show it for its own record.

* `CareersAddUp`: a career is the sum over the ledger. The proof is about `StatsLedger` alone, and
  `LedgerImplemented` carries it over. `MapThenSumSet` is a recursion over subsets: that its function
  exists and that an added match adds its summand (`SetSum`) is proved by induction on the
  size of the set.
* `LastSnapshotCounts` assumes `~Split`, `~Faults` and `MaxFinal = 1`, as `stats_whole` does: half a frame,
  a crash that empties the buffer or a second end of the match each make the statement false.
  Its invariant (`Shows`) says that the buffer follows the server until the match ends, and
  that from then on each of its reports has the last snapshot.
* `CreditsExact` assumes `~LookupFails` and `~Faults`: a look-up that fails is taken for a player without a
  persona, and a deleted persona is not in the tables any more. Any number of
  final frames, in pieces too, is allowed. Its invariant (`Resolving`) says that what the look-ups have
  found so far are the players of the snapshot with an id, in order (`Picked`), and that only
  personas were credited.

Only model-checked: the liveness of `FinalSettled`.

### 4.4 Not modelled

The persist commands are in `CareerStats` (section 10). The legacy report of one persona without a
match key. A chunk that ends inside a
number or a name, and the search for the XOR alignment: what they yield is a truncated
value. Personas created while matches run, and renamed ones. The size of the connection
pool. The in-memory database of the tests, which has no transactions to interleave.

## 5. The directory of game servers

### 5.1 `Directory`

`rows` is the table `game_servers` in the order of insertion, a row being an address, a secret
key, `is_online` and the age of `last_heartbeat`; `snap` is the online flag of each row's last
history snapshot. `reqs` holds the requests of `API/routes/servers.ts` and `routes/admin.ts` under
way, `passes` those of the poller; each of their database statements and UDP queries is an action,
because something else may run in between. `server` is what the poller and the routes are to find
out: whether the game server at an address is down, answers, or only sends heartbeats.

* `Register` / `AdminKey`, `RegisterQueried`, `FindByIpAndPort`, `RegisterInsert`, `RegisterUpdate`:
  look-up and write in two statements, so that two registrations may insert two rows for one
  address. A fresh key is the number of its registration. `Answer` may be lost: the client of
  fesl-engine gives up after 3 s.
* `Heartbeat`, `Visit` (`?refresh=true`, `POST /:id/query`), `Visited`, `RowUpdate`, `RowSnapshot`.
* `PollStart` takes copies of the listed rows; `PollQuery`, `PollUpdate`, `PollOffline`,
  `PollSnapshot`, `PollEnd` work them off and judge by the copies. The timer does not look whether
  the last pass has ended. `PollFault` skips one server, `RequestFault` ends a request.

### 5.2 Run, bounds, fairness

`directory`: one address, one request and one pass at a time, two registrations, administrators
and visitors. A registration begins while rows of earlier ones exist, a heartbeat or a visit runs
beside the pass, and the age passes `StaleAfter`, which is what the hazards need. Two requests at a
time (`Req = {r1, r2}`, `MaxRegs = 1`, 112,773 states) and two overlapping passes
(`Pass = {q1, q2}`, `MaxRegs = 1`, 134,892 states) were checked with the same properties; the
theorems hold for any number of each.

Fairness: statements under way are answered, the timer of the poller fires, time passes; a failing
database does not fail the same server's statement in every pass (strong fairness of `OnServer` and
`SnapshotOf`). Nobody owes a registration, a heartbeat or a visit. `DeadGoesOffline` and
`AnsweringGoesOnline` follow from the poller alone. Deadlock is not checked: nothing needs to happen.

Three plausible statements are defined in the module and refuted when they are put into the cfg:
`OfflineOnlyStale` (the poller takes off a server whose heartbeat came after it was read),
`AdminKeysAuthenticate` (for an address that is known, `POST /server-keys` answers a key that was
never stored, `admin.ts:149`) and `DeadHistoryGoesOffline` (an "online" snapshot of a late heartbeat
may come after the offline one, and nothing corrects it).

### 5.3 Proofs

`ServerProofs` assumes `DirectoryAssumption` only (natural bounds; the sets of addresses,
requests and passes are arbitrary) and proves `KeysCorrect` (`KeysAuthenticate` in every state),
`KeysStay` (no step removes a row or changes its address or key) and `DirectoryTypeCorrect`
(the types, and that no two rows share a key).

`KeysAuthenticate` is not inductive: a registration that found a row answers the key it will read
from it, so the row must be one of its own address (`FoundOwn`); and a key that is inserted must not
be in a row yet (`KeysFresh`, which in turn needs that registrations under way have drawn
different keys, all up to `regs`). `IInv` is the conjunction with the types. Most steps draw no key,
insert no row and answer no registration; for them one lemma (`QuietKeeps`) carries `IInv` over, and
their own lemmas only show the step `Quiet` and typed. The rest is one lemma per statement of a
registration.

Only model-checked: the liveness properties.

### 5.4 Not modelled

Names, maps, players and details of a server, the lists and audit records of the administrators.
`cleanupStaleServers`, `deactivate` and `seedKeys` have no callers.

## 6. The history of a server

**`ServerHistory`** follows one server: `live` is its row, `snaps` the table of snapshots, `writers`
the recordings under way. `Record` is the update of the row that precedes a snapshot, `Check` reads
the last snapshot and applies the throttle, `Insert` writes; another recording may come in between,
so snapshots may be inserted out of order of their times. `Chart` and `PeakPlayers` are
`getServerHistory` as a function of the table: the loop over the buckets is the recursive function
`Known`, which carries what the code's `last…` variables carry.

Run `history`: two recordings at a time, three snapshots, three buckets of two ticks and a clock of
seven, so that snapshots fall before the range, on its start, on boundaries, in one bucket twice,
and at this moment; `Gap` and `Lead` differ so that both rules are told apart. `PeaksKept` and
`PlayersHonest` are checked in every state, that is, of every table and at every time. There is no
fairness: nothing is promised to happen.
The rows of the range are a set: `ORDER BY recorded_at` leaves open which of two snapshots of one
moment comes first, so `LatestOf` may choose either for the throttle.

`OnlineWasTrue` is refuted when it is put into the cfg: a bucket that saw any online snapshot is
carried on as online although its last snapshot said offline (`server-history-repository.ts:285`).
With it the server may be shown online, without players, for a range in which it was down.

`ServerProofs` proves both properties (`PeaksAlwaysKept`, `PlayersAlwaysHonest`) for every length and
number of buckets, gap, throttle and number of recordings, from `HistoryAssumption` alone (they
are positive). The inductive invariant `Recorded` says that no snapshot is of the future, that one that
says offline counts nobody, and that the rows and the recordings stay within the bound. The rest is
about one state: every snapshot of the range falls into a bucket, by division with remainder
(that of this moment is the last, which starts now); a peak is a maximum of a finite set that is not
empty; and, by induction over the buckets, what the loop remembers is a snapshot counted
before the end of its bucket (`AllCounted`).

Not modelled: the map and mode of a snapshot, averages and the breakdown by map of the summary, the
sample history that `?seed=true` writes (`servers.ts:139`), lists of sessions and players (reads).

## 7. Connections: SSL 2.0 and packets

**`PacketLink`** is the abstract specification: numbered packets reach the other side once, in order,
without a gap while the connection lasts. One write of the client may end several packets (`Ask`). **`Transport`** is one connection to the FESL port: `up` and
`down` are the records on their way, `srv` the server's socket (`mode`: undecided, plain, SSL 2.0,
dead; handshake `state`, sequence numbers, cipher positions, packet buffer), `client` a correct
client. `Chunk` is the whole `data` event: the decision on the first chunk, the loop over the records
that are whole (`ReadRecords`), the loop over packets (`Frames`, a turn of it being `Framed`), and what
they write. A packet is a short sequence of units so that chunks can
cut headers, bodies and several packets at once. A record carries the direction, number and cipher
position it was encrypted with; the receiver reads it if they are its own. `SendPacket` cuts a
packet into records, `ServerClose` is `FeslConnection.close`.

Run `transport`: two packets of the client (the last possibly malformed), one answer in more than one record,
chunks anywhere. Two packets are the least that can be joined, torn or swapped; records smaller than
a packet the least that need reassembly. `LinkSpec` (the refinement), `MacsVerify`, `HandshakeEnds`
and `AskedIsHandled` hold; fairness is that the network delivers and the client follows its protocol.

Run `transport_close` (violation) shows that a connection over SSL 2.0 which the server closes is never
closed for the client: `end()` reaches the wrapper and not the raw socket (`connection.ts:146`,
`ssl2-socket.ts:69`). With `WholeHello = FALSE`, `HandshakeEnds` is refuted: a hello whose first
chunk is shorter than three bytes is taken for plain TCP for ever (`tcp-server.ts:86`).

`TransportProofs` proves `LinkImplemented` (the refinement), `MacsAlwaysVerify` and `TransportTypes` for any
number of packets and answers, packets and records of any size, any cuts and either value of `WholeHello`,
from `TransportAssumption` (the numbers are natural, a record holds something). That a record may be longer
than a packet, and a chunk than many, is what the instance of the run cannot show.

The inductive invariant is `ConnInv` (`ConnInvariant`). It takes each direction as one stream of units, of
which everything on the way is a `Slice`:

* towards the server (`UpSide`): the records under way carry the stream from `a` to the end of what was sent,
  each from where the one before ends (`Carries`); before `a` comes what the buffer holds, from `o`; before
  `o` the packets that were handed on, all of them while the connection is open and some of them once it was
  closed (`Arrived`). If SSL 2.0 is established, the records have the numbers and cipher positions that
  follow the server's (`Chained`), and the last is followed by the client's;
* towards the client (`DownSide`): the same with the client as the reader, where what is under way may
  be followed by the numbers of the server, or, before the handshake ends, by those of the handshake;
* the handshake (`Phase`, `UpPhase`): one record at most is under way, in the direction that the states of both
  sides leave open; a hello that was taken for plain TCP has nothing but itself under way (`MisreadSide`);
* `Ends`: the server's socket is dead only after the client has left.

`MacsVerify` is a consequence, and so is each step of `PacketLink`. The parts need each other:
that a record verifies follows from its number, that what it carries joins what is buffered follows
from its place, and that the handshake leaves numbers which agree follows from its phases. The lemmas go the way of a
byte: slices and their joins; the loop over packets (`FramedReads`: each turn takes the next packet of the
stream or leaves less than one); one lemma per handler of a record; the loop over records
(`StreamStep`); the pieces of a packet and their numbers; then one lemma per action.

A first attempt failed on the model: `PacketLink` had a client ask for one packet at a time, which the instance of
the run obeyed only because its records are smaller than its packets.

Only model-checked: `HandshakeEnds` and `AskedIsHandled`, which are liveness.

Not modelled: certificates and the TLS listeners, the bytes of keys and MACs, binding of ports.

## 8. Accounts

**`Accounts`** has the tables `users`, `personas`, `rows` (`persona_stats`), `keys` (entitlements) and
`licences`, and requests that run statement by statement, without transactions. Look-ups ignore the case of a
name and the unique constraints compare exact strings, so a name is a word and its case. A violated
constraint, like any failing statement, ends the request (500 or 400). `told` is what was answered.

Run `accounts`: three requests, two at a time, of any kind, on an account and those that register,
two keys (free, of another game, or unknown at the start), a limit of one persona. Two requests at
a time are what look-then-write needs; the third makes the state that the two race on. Deadlock is
not checked because the number of requests is bounded.

An internal update (`UpdateAccount`) gives any columns of the e-mail address and the ban, since
`PUT /internal/users/:id` passes its whole body on; `PUT /me` (`UpdateProfile`) gives the address.
`UpdatedRow` writes the columns given. So there are two ways to end a ban, and `BanStands` says that there
are no others: an update of other columns that began before the ban does not take it back.

`ClaimToldOwns`, `CreatedHasStats` and `BanStands` hold whatever overlaps. Limits do not: the code
looks first and writes later, so `LimitsOvershoot` states what is left of them, that they are
overrun by no more than the requests under way. Two personas whose names differ by case only can be
created the same way.

Proved (`AccountsProofs`), for any number of users, keys, requests and any limit, every property of
the run: `ClaimsStand`, `StatsRowKept`, `LimitsHold`, `BansHold`, and `AccountsTypeCorrect`. From
`AccountsAssumption`: the bounds are positive, and there is a word and an e-mail address.
The invariant `IInv` has three parts besides `ClaimToldOwns` and `CreatedHasStats`:

* `Requests`: every request under way carries the fields that its later statements read, of their types, its user
  exists, and a claim that goes on to the UPDATE found its key in the table;
* `Tables`: the rows are of their types, and the ids of users are 1..n, so that a new user overwrites
  none (without it an insertion could end a ban);
* `WithinLimits`: what is written plus the requests past the look is within the overrun. A look lets a
  request pass only below the limit, while no more than `Slots` requests are under way; a write moves one request
  from the second count to the first. `LimitsOvershoot` alone is not inductive, as it does not say how
  many requests may still write.

`ClaimToldOwns` is preserved because both writes of `keys` need a key nobody owns, and who was told owns
theirs; `CreatedHasStats` because the one step that takes a row away takes the answer back with it.

Not modelled: passwords, tokens and captcha, `POST /forgot-password` (changes nothing), dates,
countries and the flag of administrators (the same UPDATE writes it, and no request here reads it).

## 9. Login

**`Login`** has the session store (`redis`, `memory`, `online` as the engine believes, `up` as it is),
the sessions attached to connections, and `profile`, the GameSpy profile id of the personas. `Login`,
`GetPersonas`, `LoginPersona` and Theater's `CONN` are requests with one action per await:
`Validate`, `GetSession`, `CreateSession`, `SetexDone` / `SetexFails` (Redis may have carried out a
write that failed), `Lookup`, and the two statements of `setGsProfileId` with the call that may time
out (`CallTimesOut`, the API goes on) or fail (`CallFails`). `Expire` is the time to live, `Cleanup` the minute's
clean-up of memory, `Reconnect` a connection that closes while its requests run on.

Run `login`: one account with two personas, a FESL and a Theater connection, three requests, two at a
time. Redis stops and returns at any moment, noticed or not.

Assumed: a client logs in with its own personas; Redis keeps its contents over an outage.
`ResolvesToPersona` leaves out users whose persona logins overlapped and calls that failed, where
either persona or both may keep the profile.

`LoginProofs` proves, for any number of users, personas, connections and requests, `IssuedKeysResolve`,
`RefusedForCause`, `ProfileFollowsLogin` and `LoginTypeCorrect`, from `LoginAssumption` (personas have an
owner, bounds are natural). The first two are inductive together with what each
request knows where it waits (`Sound`): a key being looked up was issued, and a request was
marked if Redis has been away since it began. `ResolvesToPersona` speaks of users with nothing
under way; `Settled` adds the states in between: unless a user's calls failed or overlapped, one
request at most works on the profile, after `UPDATE … NULL` nobody but its persona holds it, after the
second statement that persona does, and a call whose time-out was answered already is about the
persona that was answered.

Not modelled: `updateSession`, `deleteSession`, `touchSession` and `listSessions`, which only tests
call; the ticket of GameSpyPreAuth (its use by presence is a frame kind in `GameSpyStreams`);
answers made of constants.

## 10. Careers

**`CareerStats`** has the row of `persona_stats` under all who write it: recordings of presence
(`FindSession`, `WriteSession`, `Sync`, which matches every persona of the name), match credits
(one statement here; their transaction is in `StatsPipeline`), `setpd` (`WriteCustom`, then
`InsertCustom` if there was no row, without ON CONFLICT) and the second statement of a persona's
creation. A match credit adds any integers, negative ones too, as `incrementStats` does
(`Delta`). `getpd` reads; if its look-ups fail or time out (`LookupFails`), it is answered with zeros, as by
the code. Time-outs answer the game server before the write is stored. `tally`, `writes` and `ended` are
history variables.

Run `career`: two personas that share one name (of two games), rows possibly still to be inserted,
three requests, two at a time, credits of -1 and 1 (which tell an update that adds from one that
overwrites or takes a maximum). `TimeAgrees` relates two tables. `NoLostUpdate` is an action property: totals do
fall, but only by what a credit takes. Custom statistics, which `setpd` replaces, are not part of it.
`NoStaleRead` is the session guarantee that a game server relies on when it reads a career back. It holds for
reads whose look-up was answered; a server that reads zeros cannot tell a failed look-up from a new
player. It counts a `setpd` as ended only when it was stored: the answer itself promises nothing, because
`setpdr` is sent whatever became of the write (`gstats-server.ts:366`).

`CareerProofs` proves the three of them for any number of personas, servers, names and requests,
`UpdatesStay`, `CareersAreFresh` and `TimesPlayedAgree`, and `CareerTypeCorrect`, from
`CareerAssumption` (each persona has a name, credits are integers, bounds are natural).

* `NoStaleRead` is about what was read and what had ended when the read began. The invariant `SInv` follows each
  `setpd` from the start: no other has its number, those it counts as earlier had ended,
  and once it is stored, its row exists and was last set by none of the earlier ones (`Shown`).
* `TimeAgrees` is inductive with the types. `Played` is a sum over the table of sessions, a recursive
  function whose existence and growth (a row appended, or a row that grows by one) are proved by
  induction on the length; a `Sync` moves one from the set of requests between two writes to the row.

Not modelled: kills and deaths (they move like the score), which counters a `setpd` holds.

## 11. GameSpy lists and streams

**`GameSpyStreams`** gives a connection of the five TCP services (server browser, master, presence,
search, chat) as a record and its `data` listener as operators: `Chunk` appends what arrived and
takes whole frames in a loop. A frame has two halves; chunks end after any of them. The master
server keeps nothing between chunks and answers once; it answers a whole request, and what is left of a torn one
if `\list\` or `\final\` is in it (`seen`). Chat changes its keys at `CRYPT`; `clear` says
that both sides used the same key for every byte. **`GameSpyLists`** adds the registry
(`registry`: time since each key was heard of), heartbeats and state changes as datagrams that may
be lost or late, the seeding timer with its waits, pruning by readers, and restarts. The hosts that the
seeding queries stand for one server, and the query of one that runs may time out at all of them.

Run `lists`: one game server and one connection at a time (connections share nothing), two frames,
three for chat so that NICK, USER and a repetition or a CRYPT meet. Two servers that share a key were
checked without connections, with the same liveness properties. Fairness: time passes, the minute's timer fires and its calls
return or time out, the poller polls, a running server sends heartbeats and not all are lost, and a
datagram is not under way for ever. Nothing is assumed of clients.

`ServerProofs` proves `AnswersCorrect` (`AnswersAsked` in every state) for streams of any number of frames in any
cuts, and `ListsTypeCorrect`, from `ListsAssumption` (each server has a key, there is a dedicated server,
`Stale` is natural). `AnswersAsked` speaks of all frames that arrived; between two chunks that is true because
the loop leaves no whole frame behind (`Settled`: an open connection holds neither a whole frame nor a
length that cannot be). Inside a chunk three things hold after every turn (`Loop`): the answers are those of
the frames taken so far and stop at the frame that ends the connection (`AnswersOK`), the number of
705s decides the key that chat uses (`KeysOK`), and no more is taken than has arrived (`FramesOK`). A turn that
takes a frame moves one step on, so more turns than frames leave nothing. The master server is a case of its own, as
it answers once.

Only model-checked: `AliveIsListed` and `DeadIsDropped`, which are liveness.

Not modelled: the binary encoding of a list, digests, the channels of chat, which this code does not keep.

## 12. What the checks share

* **Mutants.** Every property of a passing run has a mutant: an operator defined before the one it
  replaces, such as a `removeGame` that forgets an index, an `UPDATE` that drops its condition, a record that is not
  counted, a loop that takes one frame only. Each makes TLC find its property violated.
* **Types.** The runs of sections 5 to 11 leave `TypeOK` out, which the modules define; adding it to their
  cfg files passes. Those of `Directory`, `Accounts`, `Login`, `CareerStats`, `Transport` and `GameSpyLists` are
  proved, and that of `ServerHistory` as part of its invariant.
* **External parts.** PostgreSQL, Redis, TCP, UDP and the game's own programs are modelled by what the
  code relies on, and marked external in `PROJECT.json`.
* **Induction.** The library's induction theorems take an operator as a parameter, which the provers cannot
  instantiate. Where a proof needs induction, the set of the cases that fail is assumed not to be
  empty and its least element is refuted (`LeastNat` in `MapLemmas`, `BySize` in `StatsProofs`); a recursive
  function is shown to exist in the same way before it is unfolded. `MapLemmas` has this once for functions on
  `0..n`: `UpTo` (what holds of 0 and is handed from k - 1 to k holds of all, for a set in place of
  the predicate) and `Recursion` (the function exists and every value has its type).
* **With TLC only.** All liveness, which depends on fairness: `HungPlayerLeaves`, `FinalSettled`,
  `DeadGoesOffline`, `AnsweringGoesOnline`, `HandshakeEnds`, `AskedIsHandled`, `AliveIsListed`, `DeadIsDropped`.
  Nothing else.
* **Proof assumptions.** The named ASSUMEs of the modules, which TLC evaluates, and the hypotheses that a
  theorem states: `Disciplined`, or switches of faults. A run of the same property meets each of them.

## 13. Not modelled at all

TLS listeners and certificates (made or loaded once), ciphers (byte arithmetic that the
repository's tests compare with recorded vectors), stateless FESL services, public statistics, news
and web pages (reads and formatting), packet inspectors (a broadcast nothing depends on), the game query
protocol (whether a query is answered is a choice of `Directory` and `GameSpyLists`), the runner of
migrations and the in-memory database of the tests.
