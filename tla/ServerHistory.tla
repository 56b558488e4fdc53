--------------------------- MODULE ServerHistory ---------------------------
(***************************************************************************)
(* The history of one game server: the snapshots that heartbeats, probes   *)
(* and passes of the poller record, and the chart that is computed from    *)
(* them when somebody asks for the history of the last Buckets * Bucket    *)
(* units of time.  A recording has first written the row of game_servers,  *)
(* then reads the last snapshot and inserts its own, in two statements     *)
(* that those of another recording may come between.                       *)
(*                                                                         *)
(* Of a snapshot its time, player count and online flag are kept; the map, *)
(* the mode and the capacity are carried along in the same way and are     *)
(* left out, with the breakdown by map and the averages of the summary.    *)
(* The table of players is in CareerStats.                                 *)
(***************************************************************************)
EXTENDS Integers, Sequences, FiniteSets, FiniteSetsExt, Maps

CONSTANTS
  Writer,     \* slots for recordings under way
  MaxPlayers, \* player counts are 0..MaxPlayers
  Bucket, Buckets,  \* the chart: length and number of its buckets
  Gap,        \* silence after which a bucket shows no players (20 min)
  Lead,       \* what may precede the first snapshot (10 min)
  Throttle,   \* identical snapshots closer than this are skipped (3 min)
  MaxTime, MaxSnaps  \* bounds of a behaviour

ASSUME HistoryAssumption ==
  {MaxPlayers, Bucket, Buckets, Gap, Lead, Throttle, MaxTime, MaxSnaps} \subseteq Nat \ {0}

VARIABLES
  now,
  live,     \* the server's row: is_online and current_players
  snaps,    \* the rows of server_history_snapshots, in the order of insertion
  writers   \* the recordings under way

historyVars == <<now, live, snaps, writers>>

Times == 0..MaxTime
State == {s \in [online: BOOLEAN, count: 0..MaxPlayers] : s.online \/ s.count = 0}
Snapshot == [at: Times, online: BOOLEAN, count: 0..MaxPlayers]
Recording == [pc: {"check", "insert"}, at: Times, state: State]

HistoryInit ==
  /\ now = 0 /\ snaps = <<>> /\ writers = EmptyMap
  /\ live = [online |-> FALSE, count |-> 0]

-----------------------------------------------------------------------------
(* recordSnapshot *)

\* The row as the update before the snapshot leaves it: the poller's
\* setOnlineStatus(false) keeps current_players.
RowAfter(s) == IF s.online THEN s ELSE [live EXCEPT !.online = FALSE]

\* Offline is recorded by the poller alone, for a server listed as online.
Record(w, s) ==
  /\ w \notin DOMAIN writers /\ Len(snaps) + Cardinality(DOMAIN writers) < MaxSnaps
  /\ s.online \/ live.online
  /\ live' = RowAfter(s)
  /\ writers' = Put(writers, w, [pc |-> "check", at |-> now, state |-> s])
  /\ UNCHANGED <<now, snaps>>

Rows == {snaps[i] : i \in DOMAIN snaps}

\* The latest of some snapshots: ORDER BY recorded_at leaves open which of those
\* at the same time comes last.
LatestOf(points) == {s \in points : \A t \in points : t.at <= s.at}

\* "If state is identical and less than 3 minutes passed, skip".
Repeats(q, s) ==
  q.state = [online |-> s.online, count |-> s.count] /\ q.at - s.at < Throttle

Check(w) ==
  /\ w \in DOMAIN writers /\ writers[w].pc = "check"
  /\ \/ \E s \in LatestOf(Rows) : Repeats(writers[w], s) /\ writers' = Delete(writers, w)
     \/ /\ Rows = {} \/ \E s \in LatestOf(Rows) : ~Repeats(writers[w], s)
        /\ writers' = [writers EXCEPT ![w].pc = "insert"]
  /\ UNCHANGED <<now, live, snaps>>

Insert(w) ==
  /\ w \in DOMAIN writers /\ writers[w].pc = "insert"
  /\ LET q == writers[w] IN
     snaps' = Append(snaps, [at |-> q.at, online |-> q.state.online, count |-> q.state.count])
  /\ writers' = Delete(writers, w)
  /\ UNCHANGED <<now, live>>

\* A statement fails: the request ends, or the poller goes on with another row.
Fault(w) ==
  /\ w \in DOMAIN writers
  /\ writers' = Delete(writers, w)
  /\ UNCHANGED <<now, live, snaps>>

HistoryTick == now < MaxTime /\ now' = now + 1 /\ UNCHANGED <<live, snaps, writers>>

HistoryNext ==
  \/ \E w \in Writer : Check(w) \/ Insert(w) \/ Fault(w)
  \/ \E w \in Writer, s \in State : Record(w, s)
  \/ HistoryTick

HistorySpec == HistoryInit /\ [][HistoryNext]_historyVars

-----------------------------------------------------------------------------
(* getServerHistory *)

Start == now - Bucket * Buckets
BucketTime(i) == Start + i * Bucket

InRange == {s \in Rows : s.at >= Start}

\* A server without snapshots in the range is given its present state as one.
Raw == IF InRange # {} THEN InRange
       ELSE {[at |-> now, online |-> live.online, count |-> live.count]}

\* Mutant: a snapshot on the boundary of two buckets belongs to neither.
PointsInside(i) == {s \in Raw : s.at > BucketTime(i) /\ s.at < BucketTime(i) + Bucket}

\* Of the snapshots before the end of a bucket, those that earlier buckets left.
PointsIn(i) == {s \in Raw : s.at >= BucketTime(i) /\ s.at < BucketTime(i) + Bucket}

\* latestInBucket
Last(points) == CHOOSE s \in LatestOf(points) : TRUE

Peak(points) == Max({s.count : s \in points})

\* What the loop over the buckets remembers after bucket i: the last count, the
\* time of its snapshot, and whether its bucket had any online snapshot.
Seen(points, before) ==
  IF points = {} THEN before
  ELSE [count |-> Last(points).count, at |-> Last(points).at,
        online |-> \E s \in points : s.online]

Known[i \in -1..Buckets] ==
  IF i = -1 THEN [count |-> 0, at |-> -1, online |-> live.online]
  ELSE Seen(PointsIn(i), Known[i - 1])

\* Mutant: the last count is carried on over any silence.
CarriedPoint(i) ==
  LET known == Known[i - 1]
      beforeFirst == \A s \in Raw : BucketTime(i) < s.at - Lead
      count == IF beforeFirst \/ ~known.online THEN 0 ELSE known.count
  IN [count |-> count, peak |-> count, online |-> ~beforeFirst /\ known.online]

\* at = -1 stands for lastSnapshotTimeMs = 0.
EmptyPoint(i) ==
  LET known == Known[i - 1]
      beforeFirst == \A s \in Raw : BucketTime(i) < s.at - Lead
      staleGap == known.at = -1 \/ BucketTime(i) - known.at > Gap
      count == IF beforeFirst \/ staleGap \/ ~known.online THEN 0 ELSE known.count
  IN [count |-> count, peak |-> count, online |-> ~beforeFirst /\ known.online]

BucketPoint(i) ==
  LET points == PointsIn(i) IN
  IF points = {} THEN EmptyPoint(i)
  ELSE [count |-> Last(points).count, peak |-> Peak(points), online |-> Known[i].online]

\* The last bucket, which begins at this moment, shows the live row.
LastPoint ==
  LET p == BucketPoint(Buckets)
      count == IF live.online THEN live.count ELSE 0
  IN [count |-> count, peak |-> Max({p.peak, count}), online |-> live.online]

Chart == [i \in 0..Buckets |-> IF i = Buckets THEN LastPoint ELSE BucketPoint(i)]

\* peakPlayers of the summary, which starts from current_players.
PeakPlayers == Max({live.count} \cup {Chart[i].peak : i \in 0..Buckets})

-----------------------------------------------------------------------------
(* Properties *)

HistoryTypeOK ==
  /\ now \in Times /\ live \in [online: BOOLEAN, count: 0..MaxPlayers]
  /\ snaps \in Seq(Snapshot) /\ Len(snaps) <= MaxSnaps
  /\ \A s \in Rows : s.at <= now
  /\ IsMap(writers, Writer, Recording)

\* Every snapshot of the range is in the chart, once: no bucket boundary drops
\* a peak, in particular not that of this very moment, which the live row
\* overwrites.
PeaksKept ==
  /\ \A s \in InRange : \E i \in 0..Buckets :
       /\ BucketTime(i) <= s.at /\ s.at < BucketTime(i) + Bucket
       /\ Chart[i].peak >= s.count
  /\ \A i \in 0..Buckets : Chart[i].peak > 0 =>
       PeakPlayers >= Chart[i].peak
       /\ (Chart[i].peak = live.count \/ \E s \in InRange : s.count = Chart[i].peak)

\* No phantom players: the chart shows a number of players in the past only if
\* a snapshot, at most Gap older than the bucket, counted that many, and a point
\* that shows the server offline shows none.
PlayersHonest ==
  /\ \A i \in 0..(Buckets - 1) : Chart[i].count > 0 =>
       \E s \in InRange : /\ s.count = Chart[i].count
                          /\ s.at < BucketTime(i) + Bucket /\ BucketTime(i) - s.at <= Gap
  /\ \A i \in 0..Buckets : ~Chart[i].online => Chart[i].count = 0

\* "Take the latest actual snapshot in this interval": the past of a server is
\* shown online without snapshots only if the last snapshot said so.
OnlineWasTrue ==
  \A i \in 0..(Buckets - 1) :
    LET before == {s \in InRange : s.at < BucketTime(i)} IN
    Chart[i].online /\ PointsIn(i) = {} /\ before # {} =>
      \E s \in before : s.online /\ \A t \in before : t.at <= s.at

=============================================================================
