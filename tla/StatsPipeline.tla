--------------------------- MODULE StatsPipeline ---------------------------
(***************************************************************************)
(* The way of a match from a game server to the careers of its players.    *)
(*                                                                         *)
(* The game server sends snapshots of its match over gstats: updgame with  *)
(* done=0 while it runs, with done=1 at its end.  fesl-engine keeps the    *)
(* last one of each match (GstatsMatchBuffer); the final one starts a      *)
(* report: an await for the persona of each name, then one POST to         *)
(* api-service, which applies it in one database transaction.  Frames of a *)
(* connection are handled without waiting for each other, so any number of *)
(* reports, of one match or of several, are on their way at once.          *)
(*                                                                         *)
(* The database is PostgreSQL at READ COMMITTED: an INSERT whose unique    *)
(* key another transaction holds waits for it, an UPDATE waits for the     *)
(* row, a cycle of waiting transactions loses one of them, and nothing of  *)
(* a transaction is seen before it commits.                                *)
(*                                                                         *)
(* A snapshot is the sequence of its players with their kills; the other   *)
(* statistics of a player take the same way.                               *)
(***************************************************************************)
EXTENDS Integers, Sequences, FiniteSetsExt, Maps

CONSTANTS
  Match,       \* matches, by their connid and sesskey
  Name,        \* names of players
  Soldier,     \* the names a persona of the game has at the start
  Account,     \* the names a registered user has
  Kills,       \* kills a player may have in one match
  Snapshot,    \* the snapshots a game server may send
  MaxPlayers,  \* bound: players of a snapshot
  MaxReport,   \* bound: how many reports are ever started
  MaxFinal,    \* bound: final frames of one match
  Split,       \* may a frame arrive in two chunks?
  LookupFails, \* may a look-up time out?
  Faults       \* may processes crash and requests be lost?

ASSUME PipelineAssumption ==
  /\ Soldier \subseteq Name
  /\ Account \subseteq Name
  /\ Kills \subseteq Nat
  /\ MaxPlayers \in Nat
  /\ MaxReport \in Nat
  /\ MaxFinal \in Nat
  /\ \A s \in Snapshot :
       s \in Seq([name : Name, kills : Kills]) /\ Len(s) <= MaxPlayers
  /\ Split \in BOOLEAN
  /\ LookupFails \in BOOLEAN
  /\ Faults \in BOOLEAN

Report == 1 .. MaxReport

VARIABLES
  buffer,   \* GstatsMatchBuffer.last: match -> its latest snapshot
  report,   \* started report -> its progress, see StartReport
  ledger,   \* match_history: match key -> the players credited
  details,  \* match_history: match key -> the players in its details
  career,   \* persona_stats: persona -> its kills, as committed
  sent,     \* match -> the snapshot that should count, see Write
  finals    \* match -> how many final frames it sent

vars == <<buffer, report, ledger, details, career, sent, finals>>

\* The promise: see ImplementsLedger.
L == INSTANCE StatsLedger

db == <<ledger, details, career>>
-----------------------------------------------------------------------------
(* fesl-engine: frames and the buffer. *)

\* Mutant of StartReport: players are counted from zero.
StartAtZero(m, snapshot) ==
  [match |-> m, snapshot |-> snapshot, next |-> 0, found |-> <<>>,
   client |-> "lookup", server |-> "none", credited |-> 0]

\* A report as takeFinal starts it: `found' holds the players whose name led
\* to an id so far, `next' the player to look up.
StartReport(m, snapshot) ==
  [match |-> m, snapshot |-> snapshot, next |-> 1, found |-> <<>>,
   client |-> "lookup", server |-> "none", credited |-> 0]

Started == DOMAIN report

\* takeFinal with done=0: remember the snapshot.
Remember(m, snapshot) == /\ buffer' = Put(buffer, m, snapshot)
                         /\ UNCHANGED report

\* Mutant of TakeFinal: an empty final frame reports nothing.
TakeFinalIfFull(m, snapshot) ==
  /\ buffer' = Delete(buffer, m)
  /\ IF snapshot = <<>> THEN UNCHANGED report
     ELSE /\ Cardinality(Started) < MaxReport
          /\ report' = Put(report, Cardinality(Started) + 1, StartReport(m, snapshot))

\* Mutant of TakeFinal: the final frame alone counts.
TakeFinalAlone(m, snapshot) ==
  /\ Cardinality(Started) < MaxReport
  /\ report' = Put(report, Cardinality(Started) + 1, StartReport(m, snapshot))
  /\ buffer' = Delete(buffer, m)

\* takeFinal with done=1: an empty final frame stands for the last snapshot.
TakeFinal(m, snapshot) ==
  LET last == IF m \in DOMAIN buffer THEN buffer[m] ELSE <<>>
  IN  /\ Cardinality(Started) < MaxReport
      /\ report' = Put(report, Cardinality(Started) + 1,
                       StartReport(m, IF snapshot # <<>> THEN snapshot ELSE last))
      /\ buffer' = Delete(buffer, m)

\* The game server of m writes a frame.  What should count in the end is its
\* last snapshot, which an empty final frame repeats.
Write(m, snapshot, done) ==
  /\ finals[m] < MaxFinal
  /\ finals' = IF done THEN [finals EXCEPT ![m] = @ + 1] ELSE finals
  /\ sent' = IF done /\ snapshot = <<>> THEN sent ELSE [sent EXCEPT ![m] = snapshot]

\* updgame, in one chunk
Updgame(m, snapshot, done) ==
  /\ Write(m, snapshot, done)
  /\ IF done THEN TakeFinal(m, snapshot) ELSE Remember(m, snapshot)
  /\ UNCHANGED db

\* updgame, in two chunks: parseGstatsBuffer takes what is left in the buffer
\* after the last \final\ for a frame once it can read a command in it.  The
\* chunk may have ended before the key of the match (whatever is then buffered
\* is nobody's), before `done' (which defaults to 0), or among the players;
\* the second chunk has no command and is dropped.
SplitUpdgame(m, snapshot, done) ==
  /\ Split
  /\ Write(m, snapshot, done)
  /\ \/ UNCHANGED <<buffer, report>>
     \/ Remember(m, <<>>)
     \/ \E k \in 0 .. Len(snapshot) - 1 :
          IF done THEN TakeFinal(m, SubSeq(snapshot, 1, k))
                  ELSE Remember(m, SubSeq(snapshot, 1, k))
  /\ UNCHANGED db
-----------------------------------------------------------------------------
(* fesl-engine: a report on its way. *)

\* The report r goes on as e says, and nothing else changes.
Step(r, e) == /\ report' = [report EXCEPT ![r] = e]
              /\ UNCHANGED <<buffer, db, sent, finals>>

\* GET /internal/personas/lookup: the persona of a name, or else the user of
\* that name, whose id is no persona's; a failed call looks like no answer.
Resolve(n) ==
  {IF n \in DOMAIN career THEN "persona" ELSE IF n \in Account THEN "user" ELSE "nobody"}
    \cup IF LookupFails THEN {"nobody"} ELSE {}

\* found with the answer to one more look-up: a player without an id is left out.
Found(found, player, id) ==
  IF id = "nobody" THEN found
  ELSE Append(found, [name |-> player.name, kills |-> player.kills,
                      persona |-> id = "persona"])

\* Mutant of Lookup: the list ends at the first player without an id.
LookupUntilUnknown(r) ==
  LET e == report[r]
  IN  /\ e.client = "lookup"
      /\ e.next <= Len(e.snapshot)
      /\ \E id \in Resolve(e.snapshot[e.next].name) :
           Step(r, [e EXCEPT
                      !.next = IF id = "nobody" THEN Len(e.snapshot) + 1 ELSE @ + 1,
                      !.found = Found(@, e.snapshot[e.next], id)])

\* buildStatsReport awaits the look-up of the next player, who stays in the
\* details of the match in any case.
Lookup(r) ==
  LET e == report[r]
  IN  /\ e.client = "lookup"
      /\ e.next <= Len(e.snapshot)
      /\ \E id \in Resolve(e.snapshot[e.next].name) :
           Step(r, [e EXCEPT !.next = @ + 1,
                             !.found = Found(@, e.snapshot[e.next], id)])

\* reportMatch sends the POST; it may also fail at once.
Post(r) ==
  LET e == report[r]
  IN  /\ e.client = "lookup"
      /\ e.next > Len(e.snapshot)
      /\ \/ Step(r, [e EXCEPT !.client = "posted", !.server = "received"])
         \/ Faults /\ Step(r, [e EXCEPT !.client = "failed"])

\* reportMatch gives up after three seconds; the request runs on.
Timeout(r) == /\ report[r].client = "posted"
              /\ Step(r, [report[r] EXCEPT !.client = "failed"])

\* Mutant of Reply: the answer does not wait for the transaction.
ReplyEarly(r) ==
  LET e == report[r]
  IN  /\ e.client = "posted"
      /\ e.server # "rejected"
      /\ Step(r, [e EXCEPT !.client = "ok"])

\* The answer arrives.
Reply(r) ==
  LET e == report[r]
  IN  /\ e.client = "posted"
      /\ \/ /\ e.server \in {"committed", "duplicate"}
            /\ Step(r, [e EXCEPT !.client = "ok"])
         \/ /\ e.server = "rejected"
            /\ Step(r, [e EXCEPT !.client = "failed"])

\* The connection of a game server breaks and is opened again: the buffer of
\* snapshots goes with it, the reports run on.
Reconnect(m) == /\ Faults
                /\ m \in DOMAIN buffer
                /\ buffer' = Delete(buffer, m)
                /\ UNCHANGED <<report, db, sent, finals>>

\* fesl-engine restarts: the buffers and the reports not yet posted are gone.
EngineCrash ==
  /\ Faults
  /\ buffer' = EmptyMap
  /\ report' = [r \in Started |->
                  IF report[r].client \in {"lookup", "posted"}
                    THEN [report[r] EXCEPT !.client = "failed"] ELSE report[r]]
  /\ UNCHANGED <<db, sent, finals>>
-----------------------------------------------------------------------------
(* api-service: applyMatchReport, one statement at a time. *)

\* The transactions that have inserted their match and not ended.
Open == {r \in Started : report[r].server = "open"}

\* The rows of persona_stats that r has updated, and their number as r sees it.
RowsOf(r) == {report[r].found[i].name : i \in 1 .. report[r].credited}

\* The transaction that r waits for: on the unique index or on a row.
WaitsFor(r) ==
  LET e == report[r]
  IN  {s \in Open \ {r} :
         \/ /\ e.server = "received"
            /\ report[s].match = e.match
         \/ /\ e.server = "open"
            /\ e.credited < Len(e.found)
            /\ e.found[e.credited + 1].name \in RowsOf(s)}

\* Mutant of InsertMatch: a look-up instead of the unique index.
LookThenInsert(r) ==
  LET e == report[r]
  IN  /\ e.server = "received"
      /\ Step(r, [e EXCEPT !.server = IF e.match \in DOMAIN ledger
                                        THEN "duplicate" ELSE "open"])

\* Mutant of InsertMatch: the match is inserted without ON CONFLICT.
InsertAlways(r) ==
  LET e == report[r]
  IN  /\ e.server = "received"
      /\ WaitsFor(r) = {}
      /\ Step(r, [e EXCEPT !.server = "open"])

\* INSERT INTO match_history ... ON CONFLICT DO NOTHING
InsertMatch(r) ==
  LET e == report[r]
  IN  /\ e.server = "received"
      /\ WaitsFor(r) = {}
      /\ Step(r, [e EXCEPT !.server = IF e.match \in DOMAIN ledger
                                        THEN "duplicate" ELSE "open"])

\* INSERT INTO persona_stats ... ON CONFLICT DO UPDATE for the next player.  An
\* id without a persona violates the foreign key and rolls everything back.
Increment(r) ==
  LET e == report[r]
  IN  /\ e.server = "open"
      /\ e.credited < Len(e.found)
      /\ WaitsFor(r) = {}
      /\ LET player == e.found[e.credited + 1]
         IN  IF player.persona /\ player.name \in DOMAIN career
               THEN Step(r, [e EXCEPT !.credited = @ + 1])
               ELSE Step(r, [e EXCEPT !.server = "rejected"])

\* Mutant of Credit: the match replaces the career.
Replace(players) ==
  career' = [n \in DOMAIN career |->
               IF \E i \in DOMAIN players : players[i].name = n
                 THEN L!Earned(n, players) ELSE career[n]]

\* kills = persona_stats.kills + $3, for every player
Credit(players) == career' = L!Credited(career, players)

\* The players of a report as the service sees them.
Players(e) == [i \in DOMAIN e.found |-> [name |-> e.found[i].name,
                                        kills |-> e.found[i].kills]]

\* COMMIT: the match and all its increments become visible.
Commit(r) ==
  LET e == report[r]
  IN  /\ e.server = "open"
      /\ e.credited = Len(e.found)
      /\ report' = [report EXCEPT ![r].server = "committed"]
      /\ ledger' = Put(ledger, e.match, Players(e))
      /\ details' = Put(details, e.match, e.snapshot)
      /\ Credit(Players(e))
      /\ UNCHANGED <<buffer, sent, finals>>

\* A set of transactions of which each waits for one of the set, and each is
\* waited for: cycles.
Cycle(S) == /\ \A r \in S : WaitsFor(r) \cap S # {}
            /\ \A s \in S : \E r \in S : s \in WaitsFor(r)

\* PostgreSQL breaks a cycle by aborting one of its transactions.
DeadlockVictim(r) ==
  /\ report[r].server = "open"
  /\ \E S \in SUBSET Open : r \in S /\ Cycle(S)
  /\ Step(r, [report[r] EXCEPT !.server = "rejected"])

\* The service or its connection to the database dies before the COMMIT.
ServiceFault(r) == /\ Faults
                   /\ report[r].server \in {"received", "open"}
                   /\ Step(r, [report[r] EXCEPT !.server = "rejected"])

\* DELETE /personas/:id: the row of persona_stats goes with the persona, so the
\* statement waits for the transactions that updated it.
DeletePersona(n) == /\ Faults
                    /\ n \in DOMAIN career
                    /\ \A r \in Open : n \notin RowsOf(r)
                    /\ career' = Delete(career, n)
                    /\ UNCHANGED <<buffer, report, ledger, details, sent, finals>>
-----------------------------------------------------------------------------
Init == /\ buffer = EmptyMap
        /\ report = EmptyMap
        /\ ledger = EmptyMap
        /\ details = EmptyMap
        /\ career = [n \in Soldier |-> 0]
        /\ sent = [m \in Match |-> <<>>]
        /\ finals = [m \in Match |-> 0]

Next == \/ \E m \in Match, snapshot \in Snapshot, done \in BOOLEAN :
             Updgame(m, snapshot, done) \/ SplitUpdgame(m, snapshot, done)
        \/ \E m \in Match : Reconnect(m)
        \/ \E r \in Started : \/ Lookup(r) \/ Post(r) \/ Timeout(r) \/ Reply(r)
                              \/ InsertMatch(r) \/ Increment(r) \/ Commit(r)
                              \/ DeadlockVictim(r) \/ ServiceFault(r)
        \/ EngineCrash
        \/ \E n \in Name : DeletePersona(n)

\* Both processes and the database keep working; game servers owe nothing.
Fairness ==
  \A r \in Report :
    WF_vars(r \in Started /\ (\/ Lookup(r) \/ Post(r) \/ InsertMatch(r)
                              \/ Increment(r) \/ Commit(r) \/ DeadlockVictim(r)))

Spec == Init /\ [][Next]_vars
FairSpec == Spec /\ Fairness
-----------------------------------------------------------------------------
(* Properties. *)

ReportState ==
  [match : Match,
   snapshot : Seq([name : Name, kills : Kills]),
   next : Nat \ {0},
   found : Seq([name : Name, kills : Kills, persona : BOOLEAN]),
   client : {"lookup", "posted", "ok", "failed"},
   server : {"none", "received", "open", "committed", "duplicate", "rejected"},
   credited : Nat]

\* What is found and credited keeps the order of a report's life: every player
\* looked up before the POST, and of what was found a part credited.
ReportOK(e) ==
  /\ e \in ReportState
  /\ Len(e.snapshot) <= MaxPlayers
  /\ e.next <= Len(e.snapshot) + 1
  /\ Len(e.found) < e.next
  /\ e.credited <= Len(e.found)
  /\ e.server \in {"none", "received"} => e.credited = 0
  /\ e.client = "lookup" => e.server = "none"

\* Reports are numbered without a gap, and snapshots have players of the right kind.
TypeOK ==
  /\ \E k \in 0 .. MaxReport : Started = 1 .. k
  /\ \A r \in Started : ReportOK(report[r])
  /\ DOMAIN buffer \subseteq Match
  /\ \A m \in DOMAIN buffer : /\ buffer[m] \in Seq([name : Name, kills : Kills])
                              /\ Len(buffer[m]) <= MaxPlayers
  /\ DOMAIN ledger \subseteq Match
  /\ DOMAIN details = DOMAIN ledger
  /\ DOMAIN career \subseteq Soldier

\* An open transaction owns its match, which nobody has recorded yet, and the
\* careers it has added to exist until it ends (the locks of PostgreSQL).
ClaimsExclusive ==
  \A r \in Open :
    /\ report[r].match \notin DOMAIN ledger
    /\ \A s \in Open : report[s].match = report[r].match => s = r
    /\ RowsOf(r) \subseteq DOMAIN career

\* A career is the sum of what its soldier earned in the recorded matches: a
\* match reported twice, by racing transactions too, counts once, and of a
\* report that was rolled back nothing counts (applyMatchReport).
CareerIsSum ==
  \A n \in DOMAIN career :
    career[n] = MapThenSumSet(LAMBDA m : L!Earned(n, ledger[m]), DOMAIN ledger)

\* The service says that a report succeeded, and fesl-engine takes it for one,
\* only when the match is in the database, from this report or an earlier one
\* (reportMatch).
AnswerHonest ==
  \A r \in Started :
    report[r].server \in {"committed", "duplicate"} \/ report[r].client = "ok"
      => report[r].match \in DOMAIN ledger

\* The match in the database shows the last snapshot its server sent, whatever
\* frames and reports came in between (GstatsMatchBuffer).
FinalSnapshotCounts ==
  \A m \in DOMAIN details : details[m] = sent[m]

\* The players that have a persona, in the order of the snapshot.
WithCareer(players) ==
  LET upTo[i \in 0 .. Len(players)] ==
        IF i = 0 THEN <<>>
        ELSE IF players[i].name \in DOMAIN career THEN Append(upTo[i - 1], players[i])
        ELSE upTo[i - 1]
  IN  upTo[Len(players)]

\* The players credited for a match are those of its details that have a
\* persona, each with the kills of the details, and no one else: one unknown
\* player costs the others nothing (buildStatsReport).
CreditedExactly ==
  \A m \in DOMAIN ledger : ledger[m] = WithCareer(details[m])

\* Whatever interleaves, the committed tables follow the ledger: matches enter
\* it once, whole, and with all their credits (applyMatchReport).
ImplementsLedger == L!Spec

\* A match that its server ended is recorded in the end, or a report of it was
\* rolled back: no transaction waits for ever (applyMatchReport).
FinalSettled ==
  \A m \in Match :
    finals[m] > 0 ~> \/ m \in DOMAIN ledger
                     \/ \E r \in Started : /\ report[r].match = m
                                           /\ report[r].server = "rejected"

\* A match that its server ended is recorded in the end (handleFrame).
FinalRecorded ==
  \A m \in Match : finals[m] > 0 ~> m \in DOMAIN ledger

=============================================================================
